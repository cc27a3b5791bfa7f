-------------------------- MODULE PthreadSyncProofs --------------------------
(***************************************************************************)
(* What is proved about mutexes, the ends of threads and pthread_once      *)
(* (PthreadSync), for any threads, any mutexes and any bounds.             *)
(***************************************************************************)
EXTENDS PthreadSync, FiniteSetTheorems, TLAPS

(***************************************************************************)
(* Types                                                                   *)
(***************************************************************************)
Waiting == {"wait", "wait lock", "wait check", "wait block",
            "timed", "timed check", "timed first", "timed block"}

\* A wait keeps the mutex of the condition until it returns 0, so that what it
\* gives then is what it holds.
WaitersHold == \A t \in Tasks : pc[t] \in Waiting => holds[t][CondMutex] > 0

TInv == TypeOK /\ WaitersHold

LEMMA TypesInit == Init => TInv
<1> SUFFICES ASSUME Init PROVE TInv
  OBVIOUS
<1>1. pc \in [Tasks -> Places] /\ owner \in [Mutexes -> Tasks \cup {None}]
  BY DEF Init, Places
<1>2. count \in [Mutexes -> Nat] /\ holds \in [Tasks -> [Mutexes -> Nat]]
  BY DEF Init
<1>3. index \in [Tasks -> Nat] /\ seen \in [Tasks -> Int]
  BY DEF Init
<1>4. WaitersHold
  BY DEF Init, WaitersHold, Waiting
<1>5. /\ referenced \in Int /\ condSem \in {0, 1}
      /\ signals \in Nat /\ loose \in Nat /\ wakes \in Nat
      /\ onceMtx \in {0, 1} /\ onceSem \in {0, 1, 2} /\ inits \in Nat
  BY DEF Init
<1>6. initDone \in BOOLEAN /\ onced \subseteq Tasks
  BY DEF Init
<1> QED
  BY <1>1, <1>2, <1>3, <1>4, <1>5, <1>6 DEF TInv, TypeOK

\* Giving a mutex leaves it with an owner or none, and a count.
LEMMA TypesGive ==
    ASSUME TInv, NEW t \in Tasks, NEW m \in Mutexes, Give(t, m)
    PROVE  /\ owner' \in [Mutexes -> Tasks \cup {None}]
           /\ count' \in [Mutexes -> Nat]
<1> USE DEF TInv, TypeOK
<1>1. CASE m \in Recursive /\ owner[m] # t
  BY <1>1 DEF Give
<1>2. CASE ~(m \in Recursive /\ owner[m] # t) /\ count[m] > 1
  BY <1>2 DEF Give
<1>3. CASE ~(m \in Recursive /\ owner[m] # t) /\ ~(count[m] > 1)
  BY <1>3 DEF Give
<1> QED
  BY <1>1, <1>2, <1>3

LEMMA TypesMutex ==
    ASSUME TInv, NEW t \in Tasks, Mutex(t)
    PROVE  TInv'
<1>1. ASSUME NEW m \in Mutexes, Lock(t, m)
      PROVE  TInv'
  <2>1. owner' \in [Mutexes -> Tasks \cup {None}] /\ count' \in [Mutexes -> Nat]
    BY <1>1 DEF TInv, TypeOK, Lock
  <2>2. holds' \in [Tasks -> [Mutexes -> Nat]]
    BY <1>1 DEF TInv, TypeOK, Lock
  <2>3. WaitersHold'
    BY <1>1, PthreadSyncAssumption DEF TInv, TypeOK, WaitersHold, Lock
  <2> QED
    BY <1>1, <2>1, <2>2, <2>3 DEF TInv, TypeOK, Lock, condVars, onceVars
<1>2. ASSUME NEW m \in Mutexes, Unlock(t, m)
      PROVE  TInv'
  <2>1. owner' \in [Mutexes -> Tasks \cup {None}] /\ count' \in [Mutexes -> Nat]
    BY <1>2, TypesGive DEF Unlock, Release
  <2>2. holds' \in [Tasks -> [Mutexes -> Nat]]
    BY <1>2 DEF TInv, TypeOK, Unlock, Release
  <2>3. WaitersHold'
    BY <1>2, PthreadSyncAssumption
       DEF TInv, TypeOK, WaitersHold, Waiting, Unlock, Release, Mutexes
  <2> QED
    BY <1>2, <2>1, <2>2, <2>3 DEF TInv, TypeOK, Unlock, condVars, onceVars
<1> QED
  BY <1>1, <1>2 DEF Mutex

LEMMA TypesEnding ==
    ASSUME TInv, NEW t \in Tasks, Ending(t)
    PROVE  TInv'
<1>1. CASE End(t)
  BY <1>1 DEF TInv, TypeOK, WaitersHold, Waiting, Places, End, At, Go, condVars, onceVars
<1>2. ASSUME NEW other \in Tasks, Stop(t, other)
      PROVE  TInv'
  BY <1>2 DEF TInv, TypeOK, WaitersHold, Waiting, Places, Stop, condVars, onceVars
<1>3. CASE FreeMutex(t)
  <2>1. owner' \in [Mutexes -> Tasks \cup {None}] /\ count' \in [Mutexes -> Nat]
    BY <1>3 DEF TInv, TypeOK, FreeMutex
  <2>2. index' \in [Tasks -> Nat]
    BY <1>3 DEF TInv, TypeOK, FreeMutex
  <2> QED
    BY <1>3, <2>1, <2>2 DEF TInv, TypeOK, WaitersHold, FreeMutex, condVars, onceVars
<1>4. CASE Freed(t)
  BY <1>4 DEF TInv, TypeOK, WaitersHold, Waiting, Places, Freed, At, Go,
              mutexVars, condVars, onceVars
<1> QED
  BY <1>1, <1>2, <1>3, <1>4 DEF Ending

\* What the return of a wait does to the mutexes.
LEMMA TypesReturn ==
    ASSUME TInv, NEW t \in Tasks, pc[t] \in Waiting, Return(t)
    PROVE  /\ pc' = [pc EXCEPT ![t] = "run"]
           /\ owner' \in [Mutexes -> Tasks \cup {None}] /\ count' \in [Mutexes -> Nat]
           /\ holds' \in [Tasks -> [Mutexes -> Nat]] /\ wakes' \in Nat
           /\ WaitersHold'
<1>1. CondMutex \in Mutexes /\ holds[t][CondMutex] > 0
  BY PthreadSyncAssumption DEF TInv, WaitersHold
<1>2. owner' \in [Mutexes -> Tasks \cup {None}] /\ count' \in [Mutexes -> Nat]
  BY <1>1, TypesGive DEF Return, Release
<1>3. holds' \in [Tasks -> [Mutexes -> Nat]] /\ wakes' \in Nat
  BY <1>1 DEF TInv, TypeOK, Return, Release
<1>4. WaitersHold'
  BY <1>1 DEF TInv, TypeOK, WaitersHold, Waiting, Return, Release, Go
<1> QED
  BY <1>2, <1>3, <1>4 DEF Return, Go

LEMMA TypesCond ==
    ASSUME TInv, NEW t \in Tasks, Cond(t)
    PROVE  TInv'
<1>1. ASSUME NEW where \in {"wait", "timed"}, WaitCall(t, where)
      PROVE  TInv'
  BY <1>1 DEF TInv, TypeOK, WaitersHold, Waiting, Places, WaitCall, At, Go, mutexVars, onceVars
<1>2. CASE WaitStore(t)
  <2>1. pc' \in [Tasks -> Places] /\ WaitersHold'
    BY <1>2 DEF TInv, TypeOK, WaitersHold, Waiting, Places, WaitStore, At, Go, mutexVars
  <2>2. referenced' \in Int /\ seen' \in [Tasks -> Int] /\ signals' \in Nat /\ loose' \in Nat
    <3>1. /\ referenced' = seen[t] + 1 /\ seen' = [seen EXCEPT ![t] = 0]
          /\ UNCHANGED <<signals, loose>>
      BY <1>2 DEF WaitStore
    <3> QED
      BY <3>1 DEF TInv, TypeOK
  <2> QED
    BY <1>2, <2>1, <2>2 DEF TInv, TypeOK, WaitStore, mutexVars, onceVars
<1>3. CASE WaitLock(t)
  BY <1>3 DEF TInv, TypeOK, WaitersHold, Waiting, Places, WaitLock, At, Go, mutexVars, onceVars
<1>4. CASE WaitCheck(t)
  <2>1. CASE referenced = 1
    BY <1>4, <2>1 DEF TInv, TypeOK, WaitersHold, Waiting, Places, WaitCheck, Go,
                      mutexVars, onceVars
  <2>2. CASE referenced # 1
    <3>1. pc[t] \in Waiting /\ Return(t)
      BY <1>4, <2>2 DEF WaitCheck, Waiting
    <3> QED
      BY <1>4, <3>1, TypesReturn DEF TInv, TypeOK, Places, WaitCheck, onceVars
  <2> QED
    BY <2>1, <2>2
<1>5. CASE TimedCheck(t)
  BY <1>5 DEF TInv, TypeOK, WaitersHold, Waiting, Places, TimedCheck, At, Go,
              mutexVars, condVars, onceVars
<1>6. CASE WaitBlock(t)
  <2>1. pc[t] \in Waiting /\ Return(t)
    BY <1>6 DEF WaitBlock, Waiting
  <2> QED
    BY <1>6, <2>1, TypesReturn DEF TInv, TypeOK, Places, WaitBlock, onceVars
<1>7. CASE WaitTimeout(t)
  BY <1>7 DEF TInv, TypeOK, WaitersHold, Waiting, Places, WaitTimeout, At, Go,
              mutexVars, condVars, onceVars
<1>8. CASE SignalCall(t)
  <2>1. pc' \in [Tasks -> Places] /\ WaitersHold'
    BY <1>8 DEF TInv, TypeOK, WaitersHold, Waiting, Places, SignalCall, At, Go, mutexVars
  <2>2. referenced' \in Int /\ seen' \in [Tasks -> Int] /\ signals' \in Nat /\ loose' \in Nat
    BY <1>8 DEF TInv, TypeOK, SignalCall
  <2> QED
    BY <1>8, <2>1, <2>2 DEF TInv, TypeOK, SignalCall, mutexVars, onceVars
<1>9. CASE SignalStore(t)
  <2>1. pc' \in [Tasks -> Places] /\ WaitersHold'
    BY <1>9 DEF TInv, TypeOK, WaitersHold, Waiting, Places, SignalStore, At, Go, mutexVars
  <2>2. referenced' \in Int /\ seen' \in [Tasks -> Int] /\ signals' \in Nat /\ loose' \in Nat
    BY <1>9 DEF TInv, TypeOK, SignalStore
  <2> QED
    BY <1>9, <2>1, <2>2 DEF TInv, TypeOK, SignalStore, mutexVars, onceVars
<1>10. CASE SignalGive(t)
  BY <1>10 DEF TInv, TypeOK, WaitersHold, Waiting, Places, SignalGive, At, Go, mutexVars, onceVars
<1> QED
  BY <1>1, <1>2, <1>3, <1>4, <1>5, <1>6, <1>7, <1>8, <1>9, <1>10 DEF Cond

LEMMA TypesOnce ==
    ASSUME TInv, NEW t \in Tasks, Once(t)
    PROVE  TInv'
<1>1. CASE OnceLock(t)
  BY <1>1 DEF TInv, TypeOK, WaitersHold, Waiting, Places, OnceLock, At, Go, mutexVars, condVars
<1>2. CASE OnceTry(t)
  <2>1. pc' \in [Tasks -> Places] /\ WaitersHold'
    BY <1>2 DEF TInv, TypeOK, WaitersHold, Waiting, Places, OnceTry, At, Go, mutexVars
  <2>2. onceSem' \in {0, 1, 2} /\ inits' \in Nat
    <3>1. onceSem' = 0 /\ inits' = IF onceSem # 0 THEN inits + 1 ELSE inits
      BY <1>2 DEF OnceTry
    <3> QED
      BY <3>1 DEF TInv, TypeOK
  <2> QED
    BY <1>2, <2>1, <2>2 DEF TInv, TypeOK, OnceTry, mutexVars, condVars
<1>3. CASE InitDone(t)
  BY <1>3 DEF TInv, TypeOK, WaitersHold, Waiting, Places, InitDone, At, Go, mutexVars, condVars
<1>4. CASE OnceUnlock(t)
  BY <1>4 DEF TInv, TypeOK, WaitersHold, Waiting, Places, OnceUnlock, At, Go, mutexVars, condVars
<1> QED
  BY <1>1, <1>2, <1>3, <1>4 DEF Once

LEMMA TypesStep == TInv /\ [Next]_vars => TInv'
<1>1. CASE UNCHANGED vars
  BY <1>1 DEF TInv, TypeOK, WaitersHold, vars, mutexVars, condVars, onceVars
<1> QED
  BY <1>1, TypesMutex, TypesEnding, TypesCond, TypesOnce DEF Next

\* The threads, the mutexes, the condition and the once keep their types
\* (mutex.c, cond.c, once.c), among them that nobody unlocks what it does not
\* believe to hold.
THEOREM TypeCorrect == Spec => []TypeOK
<1>1. Spec => []TInv
  BY TypesInit, TypesStep, PTL DEF Spec
<1> QED
  BY <1>1, PTL DEF TInv

(***************************************************************************)
(* Mutual exclusion                                                        *)
(***************************************************************************)
Leaving == {"end", "ended", "stopped"}

\* A thread that has ended, or ends, believes to hold nothing.
LeaversHoldNothing ==
    \A t \in Tasks, m \in Mutexes : pc[t] \in Leaving => holds[t][m] = 0

\* A thread stops another that stays stopped.
StopsStop == (\E t \in Tasks : pc[t] = "stop") => ~NobodyStopped

FreeIsFree == \A m \in Mutexes : owner[m] = None => count[m] = 0

\* As long as exclusion lasts, what threads believe is what is the case.
Exclusive(m) == NobodyEnded \/ (NobodyStopped /\ m \in Recursive)
HoldersOwn ==
    \A m \in Mutexes : Exclusive(m) =>
        \A t \in Tasks :
            /\ holds[t][m] > 0 => owner[m] = t
            /\ owner[m] = t /\ pc[t] \notin Leaving => count[m] = holds[t][m]

XInv == TInv /\ LeaversHoldNothing /\ StopsStop /\ FreeIsFree /\ HoldersOwn

\* Exclusion does not come back once it is lost.
Onward ==
    /\ \A t \in Tasks : pc[t] \in Leaving => pc'[t] \in Leaving
    /\ \A t \in Tasks : pc[t] = "stopped" => pc'[t] = "stopped"

LEMMA ExclusiveBefore ==
    ASSUME Onward, NEW m \in Mutexes, Exclusive(m)'
    PROVE  Exclusive(m)
BY DEF Onward, Exclusive, NobodyEnded, NobodyStopped, Leaving

LEMMA ExclusionInit == Init => XInv
<1> SUFFICES ASSUME Init PROVE XInv
  OBVIOUS
<1>1. LeaversHoldNothing /\ StopsStop
  BY DEF Init, LeaversHoldNothing, StopsStop, Leaving
<1>2. FreeIsFree /\ HoldersOwn
  BY PthreadSyncAssumption DEF Init, FreeIsFree, HoldersOwn
<1> QED
  BY <1>1, <1>2, TypesInit DEF XInv

\* A step that leaves mutexes alone and moves a thread that is not leaving.
LEMMA ExclusionOther ==
    ASSUME XInv, TInv', UNCHANGED mutexVars, NEW t \in Tasks,
           pc[t] \notin Leaving \cup {"stop"},
           NEW where \in Places \ (Leaving \cup {"stop"}), pc' = [pc EXCEPT ![t] = where]
    PROVE  XInv'
<1>1. Onward
  BY DEF Onward, XInv, TInv, TypeOK, Leaving
<1>2. LeaversHoldNothing' /\ FreeIsFree'
  BY DEF XInv, TInv, TypeOK, LeaversHoldNothing, FreeIsFree, mutexVars
<1>3. StopsStop'
  BY DEF XInv, TInv, TypeOK, StopsStop, NobodyStopped, Leaving
<1>4. HoldersOwn'
  BY <1>1, ExclusiveBefore DEF XInv, TInv, TypeOK, HoldersOwn, mutexVars
<1> QED
  BY <1>2, <1>3, <1>4 DEF XInv

\* Unlocking, with or without the return of a wait.
LEMMA ExclusionRelease ==
    ASSUME XInv, TInv', NEW t \in Tasks, NEW m \in Mutexes,
           pc[t] \notin Leaving \cup {"stop"}, holds[t][m] > 0, Release(t, m),
           pc' = pc \/ pc' = [pc EXCEPT ![t] = "run"]
    PROVE  XInv'
<1> USE DEF XInv, TInv, TypeOK
<1>1. Onward
  BY DEF Onward, Leaving
<1>2. holds' = [holds EXCEPT ![t][m] = @ - 1]
  BY DEF Release
<1>3. LeaversHoldNothing'
  BY <1>2 DEF LeaversHoldNothing, Leaving
<1>4. StopsStop'
  BY DEF StopsStop, NobodyStopped, Leaving
<1>5. FreeIsFree'
  BY PthreadSyncAssumption DEF FreeIsFree, Release, Give
<1>6. ASSUME NEW n \in Mutexes, n # m, Exclusive(n)', NEW u \in Tasks
      PROVE  /\ holds'[u][n] > 0 => owner'[n] = u
             /\ owner'[n] = u /\ pc'[u] \notin Leaving => count'[n] = holds'[u][n]
  <2>1. owner'[n] = owner[n] /\ count'[n] = count[n] /\ holds'[u][n] = holds[u][n]
    BY <1>2, <1>6 DEF Release, Give
  <2> QED
    BY <1>1, <1>6, <2>1, ExclusiveBefore DEF HoldersOwn, Leaving
<1>7. ASSUME Exclusive(m)', NEW u \in Tasks
      PROVE  /\ holds'[u][m] > 0 => owner'[m] = u
             /\ owner'[m] = u /\ pc'[u] \notin Leaving => count'[m] = holds'[u][m]
  <2>1. owner[m] = t /\ count[m] = holds[t][m] /\ t # None
    BY <1>1, <1>7, ExclusiveBefore, PthreadSyncAssumption DEF HoldersOwn, Leaving
  <2>2. u # t => holds[u][m] = 0 /\ holds'[u][m] = 0
    BY <1>1, <1>2, <1>7, <2>1, ExclusiveBefore DEF HoldersOwn
  <2>3. holds'[t][m] = holds[t][m] - 1
    BY <1>2
  <2>4. CASE count[m] > 1
    <3>1. owner'[m] = t /\ count'[m] = count[m] - 1
      BY <2>1, <2>4 DEF Release, Give
    <3> QED
      BY <2>1, <2>2, <2>3, <3>1
  <2>5. CASE ~(count[m] > 1)
    <3>1. owner'[m] = None /\ holds'[t][m] = 0
      BY <2>1, <2>3, <2>5 DEF Release, Give
    <3> QED
      BY <2>2, <3>1, PthreadSyncAssumption
  <2> QED
    BY <2>4, <2>5
<1>8. HoldersOwn'
  <2> SUFFICES ASSUME NEW n \in Mutexes, Exclusive(n)', NEW u \in Tasks
               PROVE  /\ holds'[u][n] > 0 => owner'[n] = u
                      /\ owner'[n] = u /\ pc'[u] \notin Leaving => count'[n] = holds'[u][n]
    BY DEF HoldersOwn
  <2>1. CASE n = m
    BY <1>7, <2>1
  <2>2. CASE n # m
    BY <1>6, <2>2
  <2> QED
    BY <2>1, <2>2
<1> QED
  BY <1>3, <1>4, <1>5, <1>8

LEMMA ExclusionMutex ==
    ASSUME XInv, TInv', NEW t \in Tasks, Mutex(t)
    PROVE  XInv'
<1> USE DEF XInv, TInv, TypeOK
<1>1. ASSUME NEW m \in Mutexes, Lock(t, m)
      PROVE  XInv'
  <2>1. Onward
    BY <1>1 DEF Onward, Lock
  <2>2. holds' = [holds EXCEPT ![t][m] = @ + 1] /\ pc[t] = "run" /\ pc' = pc
    BY <1>1 DEF Lock
  <2>3. LeaversHoldNothing' /\ StopsStop'
    BY <2>2 DEF LeaversHoldNothing, Leaving, StopsStop, NobodyStopped
  <2>4. FreeIsFree'
    BY <1>1, PthreadSyncAssumption DEF FreeIsFree, Lock
  <2>5. ASSUME NEW n \in Mutexes, n # m, Exclusive(n)', NEW u \in Tasks
        PROVE  /\ holds'[u][n] > 0 => owner'[n] = u
               /\ owner'[n] = u /\ pc'[u] \notin Leaving => count'[n] = holds'[u][n]
    <3>1. owner'[n] = owner[n] /\ count'[n] = count[n] /\ holds'[u][n] = holds[u][n]
      BY <1>1, <2>2, <2>5 DEF Lock
    <3> QED
      BY <2>1, <2>2, <2>5, <3>1, ExclusiveBefore DEF HoldersOwn
  <2>6. ASSUME Exclusive(m)', NEW u \in Tasks
        PROVE  /\ holds'[u][m] > 0 => owner'[m] = u
               /\ owner'[m] = u /\ pc'[u] \notin Leaving => count'[m] = holds'[u][m]
    <3>1. owner'[m] = t /\ count'[m] = count[m] + 1 /\ holds'[t][m] = holds[t][m] + 1
      BY <1>1, <2>2 DEF Lock
    <3>2. \A v \in Tasks : holds[v][m] > 0 => owner[m] = v
      BY <2>1, <2>6, ExclusiveBefore DEF HoldersOwn
    <3>3. owner[m] = None \/ owner[m] = t
      BY <1>1 DEF Lock, CanTake
    <3>4. u # t => holds'[u][m] = 0
      <4>1. u # t => holds'[u][m] = holds[u][m] /\ holds[u][m] \in Nat
        BY <2>2
      <4>2. u # t => owner[m] # u
        BY <3>3, PthreadSyncAssumption
      <4> QED
        BY <3>2, <4>1, <4>2
    <3>5. count[m] = holds[t][m]
      <4>1. CASE owner[m] = t
        BY <2>1, <2>2, <2>6, <4>1, ExclusiveBefore DEF HoldersOwn, Leaving
      <4>2. CASE owner[m] = None
        <5>1. count[m] = 0
          BY <4>2 DEF FreeIsFree
        <5>2. holds[t][m] \in Nat /\ ~(holds[t][m] > 0)
          BY <3>2, <4>2, PthreadSyncAssumption
        <5> QED
          BY <5>1, <5>2
      <4> QED
        BY <3>3, <4>1, <4>2
    <3> QED
      BY <3>1, <3>4, <3>5
  <2>7. HoldersOwn'
    BY <2>5, <2>6 DEF HoldersOwn
  <2> QED
    BY <2>3, <2>4, <2>7
<1>2. ASSUME NEW m \in Mutexes, Unlock(t, m)
      PROVE  XInv'
  BY <1>2, ExclusionRelease DEF Unlock, Leaving
<1> QED
  BY <1>1, <1>2 DEF Mutex

LEMMA ExclusionEnding ==
    ASSUME XInv, TInv', NEW t \in Tasks, Ending(t)
    PROVE  XInv'
<1> USE DEF XInv, TInv, TypeOK
<1>1. CASE End(t)
  <2>1. /\ pc[t] = "run" /\ pc' = [pc EXCEPT ![t] = "end"]
        /\ holds' = [holds EXCEPT ![t] = [m \in Mutexes |-> 0]]
        /\ UNCHANGED <<owner, count>>
    BY <1>1 DEF End, At, Go
  <2>2. Onward
    BY <2>1 DEF Onward, Leaving
  <2>3. LeaversHoldNothing' /\ StopsStop' /\ FreeIsFree'
    BY <2>1 DEF LeaversHoldNothing, Leaving, StopsStop, NobodyStopped, FreeIsFree
  <2>4. HoldersOwn'
    BY <2>1, <2>2, ExclusiveBefore DEF HoldersOwn, Leaving
  <2> QED
    BY <2>3, <2>4
<1>2. ASSUME NEW other \in Tasks, Stop(t, other)
      PROVE  XInv'
  <2>1. /\ t # other /\ pc[t] = "run"
        /\ pc' = [pc EXCEPT ![t] = "stop", ![other] = "stopped"]
        /\ holds' = [holds EXCEPT ![other] = [m \in Mutexes |-> 0]]
        /\ UNCHANGED <<owner, count>>
    BY <1>2 DEF Stop
  <2>2. pc'[other] = "stopped"
    BY <2>1
  <2>3. ~NobodyStopped' /\ ~NobodyEnded'
    BY <2>2 DEF NobodyStopped, NobodyEnded
  <2>4. LeaversHoldNothing' /\ FreeIsFree'
    BY <2>1 DEF LeaversHoldNothing, Leaving, FreeIsFree
  <2> QED
    BY <2>3, <2>4 DEF StopsStop, HoldersOwn, Exclusive
<1>3. CASE FreeMutex(t)
  <2> DEFINE m == index[t]
  <2>1. /\ pc[t] \in {"end", "stop"} /\ m \in Nat /\ m <= N
        /\ UNCHANGED <<pc, holds>>
        /\ IF m \notin Recursive \/ owner[m] = t
           THEN /\ owner' = [owner EXCEPT ![m] = None]
                /\ count' = [count EXCEPT ![m] = 0]
           ELSE UNCHANGED <<owner, count>>
    BY <1>3 DEF FreeMutex
  <2> HIDE DEF m
  <2>2. Onward
    BY <2>1 DEF Onward
  <2>3. LeaversHoldNothing' /\ StopsStop'
    BY <2>1 DEF LeaversHoldNothing, StopsStop, NobodyStopped
  <2>4. FreeIsFree'
    BY <2>1 DEF FreeIsFree
  <2>5. ASSUME NEW n \in Mutexes, Exclusive(n)', NEW u \in Tasks
        PROVE  /\ holds'[u][n] > 0 => owner'[n] = u
               /\ owner'[n] = u /\ pc'[u] \notin Leaving => count'[n] = holds'[u][n]
    <3>1. /\ holds[u][n] > 0 => owner[n] = u
          /\ owner[n] = u /\ pc[u] \notin Leaving => count[n] = holds[u][n]
      BY <2>2, <2>5, ExclusiveBefore DEF HoldersOwn
    <3>2. CASE n = m /\ n \notin Recursive
      <4>1. pc[t] # "end"
        BY <2>1, <2>5, <3>2 DEF Exclusive, NobodyEnded
      <4>2. pc[t] # "stop"
        BY <2>1, <2>5, <3>2 DEF Exclusive, NobodyEnded, NobodyStopped, StopsStop
      <4> QED
        BY <2>1, <4>1, <4>2
    <3>3. CASE n = m /\ n \in Recursive /\ owner[n] = t
      <4>1. pc[t] # "stop"
        BY <2>1, <2>5 DEF Exclusive, NobodyEnded, NobodyStopped, StopsStop
      <4>2. pc[t] \in Leaving /\ holds[t][n] = 0
        BY <2>1, <4>1 DEF LeaversHoldNothing, Leaving
      <4>3. owner'[n] = None /\ holds' = holds
        BY <2>1, <3>3
      <4>4. u # None /\ holds[u][n] \in Nat
        BY PthreadSyncAssumption
      <4>5. ~(holds[u][n] > 0)
        BY <3>1, <3>3, <4>2
      <4> QED
        BY <4>3, <4>4, <4>5
    <3>4. CASE n # m \/ (n \in Recursive /\ owner[n] # t)
      <4>1. owner'[n] = owner[n] /\ count'[n] = count[n]
        BY <2>1, <3>4
      <4> QED
        BY <2>1, <3>1, <4>1
    <3> QED
      BY <3>2, <3>3, <3>4
  <2>6. HoldersOwn'
    BY <2>5 DEF HoldersOwn
  <2> QED
    BY <2>3, <2>4, <2>6
<1>4. CASE Freed(t)
  <2>1. /\ UNCHANGED mutexVars
        /\ \/ pc[t] = "end" /\ pc' = [pc EXCEPT ![t] = "ended"]
           \/ pc[t] = "stop" /\ pc' = [pc EXCEPT ![t] = "run"]
    BY <1>4 DEF Freed, At, Go
  <2>2. Onward
    BY <2>1 DEF Onward, Leaving
  <2>3. LeaversHoldNothing' /\ StopsStop' /\ FreeIsFree'
    BY <2>1 DEF LeaversHoldNothing, Leaving, StopsStop, NobodyStopped, FreeIsFree, mutexVars
  <2>4. HoldersOwn'
    <3>1. ASSUME NEW n \in Mutexes, Exclusive(n)', NEW u \in Tasks
          PROVE  /\ holds'[u][n] > 0 => owner'[n] = u
                 /\ owner'[n] = u /\ pc'[u] \notin Leaving => count'[n] = holds'[u][n]
      <4>1. pc[t] # "stop"
        BY <2>2, <3>1, ExclusiveBefore
           DEF Exclusive, NobodyEnded, NobodyStopped, StopsStop
      <4>2. pc'[u] \notin Leaving => pc[u] \notin Leaving
        BY <2>1, <4>1 DEF Leaving
      <4> QED
        BY <2>1, <2>2, <3>1, <4>2, ExclusiveBefore DEF HoldersOwn, mutexVars
    <3> QED
      BY <3>1 DEF HoldersOwn
  <2> QED
    BY <2>3, <2>4
<1> QED
  BY <1>1, <1>2, <1>3, <1>4 DEF Ending

LEMMA ExclusionCond ==
    ASSUME XInv, TInv', NEW t \in Tasks, Cond(t)
    PROVE  XInv'
<1>1. ASSUME NEW where \in {"wait", "timed"}, WaitCall(t, where)
      PROVE  XInv'
  BY <1>1, ExclusionOther DEF WaitCall, At, Go, Leaving, Places
<1>2. CASE WaitStore(t)
  BY <1>2, ExclusionOther DEF WaitStore, At, Go, Leaving, Places
<1>3. CASE WaitLock(t)
  BY <1>3, ExclusionOther DEF WaitLock, At, Go, Leaving, Places
<1>4. CondMutex \in Mutexes /\ (pc[t] \in Waiting => holds[t][CondMutex] > 0)
  BY PthreadSyncAssumption DEF XInv, TInv, WaitersHold
<1>5. CASE WaitCheck(t)
  <2>1. CASE referenced = 1
    BY <1>5, <2>1, ExclusionOther DEF WaitCheck, Go, Leaving, Places, mutexVars
  <2>2. CASE referenced # 1
    BY <1>4, <1>5, <2>2, ExclusionRelease DEF WaitCheck, Return, Go, Leaving, Waiting
  <2> QED
    BY <2>1, <2>2
<1>6. CASE TimedCheck(t)
  BY <1>6, ExclusionOther DEF TimedCheck, At, Go, Leaving, Places
<1>7. CASE WaitBlock(t)
  BY <1>4, <1>7, ExclusionRelease DEF WaitBlock, Return, Go, Leaving, Waiting
<1>8. CASE WaitTimeout(t)
  BY <1>8, ExclusionOther DEF WaitTimeout, At, Go, Leaving, Places
<1>9. CASE SignalCall(t)
  BY <1>9, ExclusionOther DEF SignalCall, At, Go, Leaving, Places
<1>10. CASE SignalStore(t)
  BY <1>10, ExclusionOther DEF SignalStore, At, Go, Leaving, Places
<1>11. CASE SignalGive(t)
  BY <1>11, ExclusionOther DEF SignalGive, At, Go, Leaving, Places
<1> QED
  BY <1>1, <1>2, <1>3, <1>5, <1>6, <1>7, <1>8, <1>9, <1>10, <1>11 DEF Cond

LEMMA ExclusionOnce ==
    ASSUME XInv, TInv', NEW t \in Tasks, Once(t)
    PROVE  XInv'
<1>1. CASE OnceLock(t)
  BY <1>1, ExclusionOther DEF OnceLock, At, Go, Leaving, Places
<1>2. CASE OnceTry(t)
  BY <1>2, ExclusionOther DEF OnceTry, At, Go, Leaving, Places
<1>3. CASE InitDone(t)
  BY <1>3, ExclusionOther DEF InitDone, At, Go, Leaving, Places
<1>4. CASE OnceUnlock(t)
  BY <1>4, ExclusionOther DEF OnceUnlock, At, Go, Leaving, Places
<1> QED
  BY <1>1, <1>2, <1>3, <1>4 DEF Once

LEMMA ExclusionStep == XInv /\ [Next]_vars => XInv'
<1> SUFFICES ASSUME XInv, [Next]_vars PROVE XInv'
  OBVIOUS
<1>1. TInv'
  BY TypesStep DEF XInv
<1>2. CASE UNCHANGED vars
  BY <1>1, <1>2 DEF XInv, LeaversHoldNothing, StopsStop, NobodyStopped, NobodyEnded,
                    FreeIsFree, HoldersOwn, Exclusive, vars, mutexVars
<1> QED
  BY <1>1, <1>2, ExclusionMutex, ExclusionEnding, ExclusionCond, ExclusionOnce DEF Next

\* Mutexes exclude as long as no thread has ended, recursive ones as long as none
\* was stopped (pthread_mutex_lock, pthread_mutex_unlock, _pthread_mutex_free).
THEOREM ExclusiveMutexes == Spec => []MutexesExclude
<1>1. Spec => []XInv
  BY ExclusionInit, ExclusionStep, PTL DEF Spec
<1>2. XInv => MutexesExclude
  BY DEF XInv, HoldersOwn, Exclusive, MutexesExclude
<1> QED
  BY <1>1, <1>2, PTL

(***************************************************************************)
(* What ended threads leave behind                                         *)
(***************************************************************************)
\* The loop of a thread that ends has left behind it no mutex of that thread.
LoopFrees ==
    \A t \in Tasks, m \in Mutexes : pc[t] = "end" /\ m < index[t] => owner[m] # t

EInv == TInv /\ LoopFrees /\ EndedHoldNothing

LEMMA EndedInit == Init => EInv
BY TypesInit DEF Init, EInv, LoopFrees, EndedHoldNothing

\* A step of a thread that neither leaves nor stops, in which a mutex keeps its
\* owner, loses it or is taken by that thread.
LEMMA EndedOther ==
    ASSUME EInv, TInv', NEW t \in Tasks, pc[t] \notin Leaving \cup {"stop"},
           NEW where \in Places \ (Leaving \cup {"stop"}),
           pc' = pc \/ pc' = [pc EXCEPT ![t] = where],
           index' = index,
           \A m \in Mutexes : owner'[m] \in {owner[m], None, t}
    PROVE  EInv'
<1> USE PthreadSyncAssumption DEF EInv, TInv, TypeOK, Leaving
<1>1. \A u \in Tasks : pc'[u] \in Leaving \cup {"stop"} => pc'[u] = pc[u] /\ u # t
  OBVIOUS
<1>2. \A u \in Tasks : pc[u] = "stop" => pc'[u] = "stop"
  OBVIOUS
<1>3. LoopFrees'
  BY <1>1 DEF LoopFrees
<1>4. EndedHoldNothing'
  BY <1>1, <1>2 DEF EndedHoldNothing
<1> QED
  BY <1>3, <1>4

LEMMA EndedEnding ==
    ASSUME EInv, TInv', NEW t \in Tasks, Ending(t)
    PROVE  EInv'
<1> USE DEF EInv, TInv, TypeOK
<1>1. CASE End(t)
  <2>1. /\ pc[t] = "run" /\ pc' = [pc EXCEPT ![t] = "end"]
        /\ index' = [index EXCEPT ![t] = 1] /\ owner' = owner
    BY <1>1 DEF End, At, Go
  <2>2. LoopFrees'
    <3> SUFFICES ASSUME NEW u \in Tasks, NEW m \in Mutexes, pc'[u] = "end", m < index'[u]
                 PROVE  owner'[m] # u
      BY DEF LoopFrees
    <3>1. CASE u = t
      <4>1. index'[t] = 1
        BY <2>1
      <4>2. ~(m < 1)
        BY PthreadSyncAssumption DEF Mutexes
      <4> QED BY <3>1, <4>1, <4>2
    <3>2. CASE u # t
      <4>1. pc[u] = "end" /\ m < index[u]
        BY <2>1, <3>2
      <4> QED BY <2>1, <4>1 DEF LoopFrees
    <3> QED BY <3>1, <3>2
  <2>3. \A u \in Tasks : pc[u] = "stop" => pc'[u] = "stop" /\ index'[u] = index[u]
    BY <2>1
  <2>4. EndedHoldNothing'
    BY <2>1, <2>3 DEF EndedHoldNothing
  <2> QED
    BY <2>2, <2>4
<1>2. ASSUME NEW other \in Tasks, Stop(t, other)
      PROVE  EInv'
  <2>1. /\ t # other /\ pc[t] = "run" /\ pc[other] # "ended"
        /\ pc' = [pc EXCEPT ![t] = "stop", ![other] = "stopped"]
        /\ index' = [index EXCEPT ![t] = 1] /\ owner' = owner
    BY <1>2 DEF Stop, Dead
  <2>2. LoopFrees'
    BY <2>1 DEF LoopFrees
  <2>3. pc'[t] = "stop" /\ index'[t] = 1
    BY <2>1
  <2>4. EndedHoldNothing'
    BY <2>1, <2>3 DEF EndedHoldNothing, Mutexes
  <2> QED
    BY <2>2, <2>4
<1>3. CASE FreeMutex(t)
  <2> DEFINE m == index[t]
  <2>1. /\ pc[t] \in {"end", "stop"} /\ m \in Nat /\ m <= N
        /\ pc' = pc /\ index' = [index EXCEPT ![t] = m + 1]
        /\ IF m \notin Recursive \/ owner[m] = t
           THEN owner' = [owner EXCEPT ![m] = None]
           ELSE owner' = owner
    BY <1>3 DEF FreeMutex
  <2> HIDE DEF m
  <2>2. m = index[t]
    BY DEF m
  <2>3. \A n \in Mutexes : /\ owner'[n] \in {owner[n], None}
                           /\ n = m /\ n \notin Recursive => owner'[n] = None
                           /\ n = m => owner'[n] # t
    BY <2>1, PthreadSyncAssumption
  <2>4. LoopFrees'
    <3>1. ASSUME NEW u \in Tasks, NEW n \in Mutexes, pc'[u] = "end", n < index'[u]
          PROVE  owner'[n] # u
      <4>1. CASE u = t /\ n = m
        BY <2>3, <4>1
      <4>2. CASE u = t /\ n # m
        <5>1. n < index[u]
          BY <2>1, <2>2, <3>1, <4>2 DEF Mutexes
        <5> QED
          BY <2>1, <2>3, <3>1, <5>1, PthreadSyncAssumption DEF LoopFrees
      <4>3. CASE u # t
        BY <2>1, <2>3, <3>1, <4>3, PthreadSyncAssumption DEF LoopFrees
      <4> QED
        BY <4>1, <4>2, <4>3
    <3> QED
      BY <3>1 DEF LoopFrees
  <2>5. ASSUME NEW u \in Tasks, NEW n \in Mutexes, pc'[u] = "ended"
        PROVE  owner'[n] # u
    BY <2>1, <2>3, <2>5, PthreadSyncAssumption DEF EndedHoldNothing
  <2>6. ASSUME NEW u \in Tasks, NEW n \in Mutexes,
               pc'[u] = "stopped", owner'[n] = u, n \notin Recursive
        PROVE  \E v \in Tasks : pc'[v] = "stop" /\ index'[v] <= n
    <3>1. owner[n] = u /\ n # m
      BY <2>3, <2>6, PthreadSyncAssumption
    <3>2. PICK v \in Tasks : pc[v] = "stop" /\ index[v] <= n
      BY <2>1, <2>6, <3>1 DEF EndedHoldNothing
    <3>3. index'[v] <= n
      <4>1. CASE v = t
        <5>1. index[v] = m /\ index'[v] = m + 1
          BY <2>1, <2>2, <4>1
        <5>2. m \in Int /\ n \in Int /\ m <= n /\ m # n
          BY <2>1, <3>1, <3>2, <5>1 DEF Mutexes
        <5> QED BY <5>1, <5>2
      <4>2. CASE v # t
        BY <2>1, <3>2, <4>2
      <4> QED BY <4>1, <4>2
    <3> QED
      BY <2>1, <3>2, <3>3
  <2>7. EndedHoldNothing'
    BY <2>5, <2>6 DEF EndedHoldNothing
  <2> QED
    BY <2>4, <2>7
<1>4. CASE Freed(t)
  <2>1. /\ index[t] > N /\ owner' = owner
        /\ index' = [index EXCEPT ![t] = 0]
        /\ \/ pc[t] = "end" /\ pc' = [pc EXCEPT ![t] = "ended"]
           \/ pc[t] = "stop" /\ pc' = [pc EXCEPT ![t] = "run"]
    BY <1>4 DEF Freed, At, Go, mutexVars
  <2>2. LoopFrees'
    BY <2>1 DEF LoopFrees
  <2>3. ASSUME NEW u \in Tasks, NEW n \in Mutexes, pc'[u] = "ended"
        PROVE  owner'[n] # u
    <3>1. N \in Nat /\ n \in 1 .. N
      BY PthreadSyncAssumption DEF Mutexes
    <3>2. CASE u = t
      BY <2>1, <2>3, <3>1, <3>2 DEF LoopFrees
    <3>3. CASE u # t
      BY <2>1, <2>3, <3>3 DEF EndedHoldNothing
    <3> QED
      BY <3>2, <3>3
  <2>4. ASSUME NEW u \in Tasks, NEW n \in Mutexes,
               pc'[u] = "stopped", owner'[n] = u, n \notin Recursive
        PROVE  \E v \in Tasks : pc'[v] = "stop" /\ index'[v] <= n
    <3>1. pc[u] = "stopped" /\ owner[n] = u
      BY <2>1, <2>4
    <3>2. PICK v \in Tasks : pc[v] = "stop" /\ index[v] <= n
      BY <2>4, <3>1 DEF EndedHoldNothing
    <3>3. v # t
      <4>1. N \in Nat /\ n \in Int /\ n <= N
        BY PthreadSyncAssumption DEF Mutexes
      <4>2. index[t] \in Nat
        OBVIOUS
      <4> QED
        BY <2>1, <3>2, <4>1, <4>2
    <3> QED
      BY <2>1, <3>2, <3>3
  <2>5. EndedHoldNothing'
    BY <2>3, <2>4 DEF EndedHoldNothing
  <2> QED
    BY <2>2, <2>5
<1> QED
  BY <1>1, <1>2, <1>3, <1>4 DEF Ending

LEMMA EndedStep == EInv /\ [Next]_vars => EInv'
<1> SUFFICES ASSUME EInv, [Next]_vars PROVE EInv'
  OBVIOUS
<1>1. TInv'
  BY TypesStep DEF EInv
<1>2. CASE UNCHANGED vars
  BY <1>1, <1>2 DEF EInv, LoopFrees, EndedHoldNothing, vars, mutexVars
<1>3. ASSUME NEW t \in Tasks, NEW m \in Mutexes, Give(t, m)
      PROVE  \A n \in Mutexes : owner'[n] \in {owner[n], None, t}
  BY <1>3 DEF EInv, TInv, TypeOK, Give
<1>4. ASSUME NEW t \in Tasks, Mutex(t)
      PROVE  EInv'
  <2>1. ASSUME NEW m \in Mutexes, Lock(t, m)
        PROVE  EInv'
    <3>1. \A n \in Mutexes : owner'[n] \in {owner[n], None, t}
      BY <2>1 DEF Lock, EInv, TInv, TypeOK
    <3> QED
      BY <1>1, <2>1, <3>1, EndedOther DEF Lock, Leaving, Places
  <2>2. ASSUME NEW m \in Mutexes, Unlock(t, m)
        PROVE  EInv'
    <3>1. \A n \in Mutexes : owner'[n] \in {owner[n], None, t}
      BY <1>3, <2>2 DEF Unlock, Release
    <3> QED
      BY <1>1, <2>2, <3>1, EndedOther DEF Unlock, Leaving, Places
  <2> QED
    BY <1>4, <2>1, <2>2 DEF Mutex
<1>5. ASSUME NEW t \in Tasks, Cond(t)
      PROVE  EInv'
  <2>1. CASE UNCHANGED owner
    <3>1. \A n \in Mutexes : owner'[n] \in {owner[n], None, t}
      BY <2>1
    <3>2. index' = index
      BY <1>5 DEF Cond, WaitCall, WaitStore, WaitLock, WaitCheck, TimedCheck, WaitBlock,
                  WaitTimeout, SignalCall, SignalStore, SignalGive
    <3>3. pc[t] \notin Leaving \cup {"stop"}
      BY <1>5 DEF Cond, WaitCall, WaitStore, WaitLock, WaitCheck, TimedCheck, WaitBlock,
                  WaitTimeout, SignalCall, SignalStore, SignalGive, At, Leaving
    <3>4. PICK where \in Places \ (Leaving \cup {"stop"}) : pc' = [pc EXCEPT ![t] = where]
      BY <1>5 DEF Cond, WaitCall, WaitStore, WaitLock, WaitCheck, TimedCheck, WaitBlock,
                  WaitTimeout, SignalCall, SignalStore, SignalGive, Return, At, Go,
                  Leaving, Places
    <3> QED
      BY <1>1, <3>1, <3>2, <3>3, <3>4, EndedOther
  <2>2. CASE Return(t) /\ (WaitCheck(t) \/ WaitBlock(t))
    <3>1. \A n \in Mutexes : owner'[n] \in {owner[n], None, t}
      BY <1>3, <2>2, PthreadSyncAssumption DEF Return, Release
    <3>2. pc' = [pc EXCEPT ![t] = "run"] /\ index' = index /\ pc[t] \notin Leaving \cup {"stop"}
      BY <2>2 DEF Return, Go, WaitCheck, WaitBlock, Leaving
    <3> QED
      BY <1>1, <3>1, <3>2, EndedOther DEF Leaving, Places
  <2> QED
    BY <1>5, <2>1, <2>2
       DEF Cond, WaitCall, WaitStore, WaitLock, WaitCheck, TimedCheck, WaitBlock,
           WaitTimeout, SignalCall, SignalStore, SignalGive, mutexVars
<1>6. ASSUME NEW t \in Tasks, Once(t)
      PROVE  EInv'
  <2>1. index' = index /\ owner' = owner
    BY <1>6 DEF Once, OnceLock, OnceTry, InitDone, OnceUnlock, mutexVars
  <2>2. pc[t] \notin Leaving \cup {"stop"}
    BY <1>6 DEF Once, OnceLock, OnceTry, InitDone, OnceUnlock, At, Leaving
  <2>3. PICK where \in Places \ (Leaving \cup {"stop"}) : pc' = [pc EXCEPT ![t] = where]
    BY <1>6 DEF Once, OnceLock, OnceTry, InitDone, OnceUnlock, At, Go, Leaving, Places
  <2> QED
    BY <1>1, <2>1, <2>2, <2>3, EndedOther
<1> QED
  BY <1>1, <1>2, <1>4, <1>5, <1>6, EndedEnding DEF Next, EInv

\* No thread that has ended has a mutex, and one that was stopped keeps only
\* recursive ones (_pthread_mutex_free, however the loops of several threads
\* that end and stop each other come together).
THEOREM EndedThreadsHoldNothing == Spec => []EndedHoldNothing
<1>1. Spec => []EInv
  BY EndedInit, EndedStep, PTL DEF Spec
<1> QED
  BY <1>1, PTL DEF EInv

(***************************************************************************)
(* pthread_once                                                            *)
(***************************************************************************)
Inside == {"once", "init", "once unlock"}

\* once_mtx is taken by whoever is inside, and stays so when that one is stopped.
OneInside ==
    /\ \A t, u \in Tasks : pc[t] \in Inside /\ pc[u] \in Inside => t = u
    /\ \A t \in Tasks : pc[t] \in Inside => onceMtx = 0

\* The mutex of once_control is taken once; until init_routine has returned,
\* nobody is past it and nobody can come to it.
InitTracked ==
    /\ onceSem = 0 => inits = 1
    /\ onceSem # 0 => inits = 0
    /\ onceSem # 0 => \A t \in Tasks : pc[t] \notin {"init", "once unlock"}
    /\ onceSem = 0 /\ ~initDone =>
          onceMtx = 0 /\ \A t \in Tasks : pc[t] \notin {"once", "once unlock"}
    /\ onced # {} => initDone

OInv == TInv /\ OneInside /\ InitTracked

LEMMA OnceInit == Init => OInv
BY TypesInit DEF Init, OInv, OneInside, InitTracked, Inside

\* A step outside pthread_once, among them those that end a thread inside.
LEMMA OnceOther ==
    ASSUME OInv, TInv', UNCHANGED onceVars,
           \A t \in Tasks : pc'[t] \in Inside => pc'[t] = pc[t]
    PROVE  OInv'
<1>1. OneInside'
  BY DEF OInv, OneInside, onceVars
<1>2. InitTracked'
  BY DEF OInv, InitTracked, Inside, onceVars
<1> QED
  BY <1>1, <1>2 DEF OInv

LEMMA OnceOnce ==
    ASSUME OInv, TInv', NEW t \in Tasks, Once(t)
    PROVE  OInv'
<1> USE DEF OInv, TInv, TypeOK
<1>1. CASE OnceLock(t)
  <2>1. /\ pc[t] = "run" /\ pc' = [pc EXCEPT ![t] = "once"]
        /\ onceMtx = 1 /\ onceMtx' = 0
        /\ UNCHANGED <<onceSem, inits, initDone, onced>>
    BY <1>1 DEF OnceLock, At, Go
  <2>2. \A u \in Tasks : pc[u] \notin Inside
    BY <2>1 DEF OneInside
  <2>3. \A u \in Tasks : u # t => pc'[u] = pc[u]
    BY <2>1
  <2>4. OneInside'
    BY <2>1, <2>2, <2>3 DEF OneInside
  <2>5. onceSem = 0 => initDone
    BY <2>1 DEF InitTracked
  <2>6. InitTracked'
    BY <2>1, <2>2, <2>3, <2>5 DEF InitTracked, Inside
  <2> QED
    BY <2>4, <2>6
<1>2. CASE OnceTry(t)
  <2>1. /\ pc[t] = "once"
        /\ pc' = [pc EXCEPT ![t] = IF onceSem # 0 THEN "init" ELSE "once unlock"]
        /\ onceSem' = 0 /\ inits' = IF onceSem # 0 THEN inits + 1 ELSE inits
        /\ UNCHANGED <<onceMtx, initDone, onced>>
    BY <1>2 DEF OnceTry, At, Go
  <2>2. OneInside'
    BY <2>1 DEF OneInside, Inside
  <2>3. onceMtx = 0 /\ \A u \in Tasks : u # t => pc'[u] = pc[u] /\ pc'[u] \notin Inside
    BY <2>1 DEF OneInside, Inside
  <2>4. InitTracked'
    <3>1. CASE onceSem = 0
      BY <2>1, <2>3, <3>1 DEF InitTracked, Inside
    <3>2. CASE onceSem # 0
      <4>1. onceSem' = 0 /\ inits' = 1
        <5>1. inits = 0
          BY <3>2 DEF InitTracked
        <5>2. onceSem' = 0 /\ inits' = inits + 1
          BY <2>1, <3>2
        <5> QED
          BY <5>1, <5>2
      <4>2. pc'[t] = "init"
        BY <2>1, <3>2
      <4>3. \A u \in Tasks : pc'[u] \notin {"once", "once unlock"}
        BY <2>3, <4>2 DEF Inside
      <4>4. onced' # {} => initDone'
        BY <2>1 DEF InitTracked
      <4> QED
        BY <2>1, <2>3, <4>1, <4>3, <4>4 DEF InitTracked
    <3> QED
      BY <3>1, <3>2
  <2> QED
    BY <2>2, <2>4
<1>3. CASE InitDone(t)
  <2>1. /\ pc[t] = "init" /\ pc' = [pc EXCEPT ![t] = "once unlock"]
        /\ initDone' = TRUE
        /\ UNCHANGED <<onceMtx, onceSem, inits, onced>>
    BY <1>3 DEF InitDone, At, Go
  <2>2. OneInside'
    BY <2>1 DEF OneInside, Inside
  <2>3. InitTracked'
    BY <2>1 DEF InitTracked
  <2> QED
    BY <2>2, <2>3
<1>4. CASE OnceUnlock(t)
  <2>1. /\ pc[t] = "once unlock" /\ pc' = [pc EXCEPT ![t] = "run"]
        /\ onceMtx' = 1 /\ onced' = onced \cup {t}
        /\ UNCHANGED <<onceSem, inits, initDone>>
    BY <1>4 DEF OnceUnlock, At, Go
  <2>2. onceSem = 0 /\ initDone
    BY <2>1 DEF InitTracked
  <2>3. OneInside'
    BY <2>1 DEF OneInside, Inside
  <2>4. InitTracked'
    BY <2>1, <2>2 DEF InitTracked
  <2> QED
    BY <2>3, <2>4
<1> QED
  BY <1>1, <1>2, <1>3, <1>4 DEF Once

LEMMA OnceStep == OInv /\ [Next]_vars => OInv'
<1> SUFFICES ASSUME OInv, [Next]_vars PROVE OInv'
  OBVIOUS
<1>1. TInv'
  BY TypesStep DEF OInv
<1>2. CASE UNCHANGED vars
  BY <1>1, <1>2, OnceOther DEF vars, onceVars
<1>3. ASSUME NEW t \in Tasks, Mutex(t)
      PROVE  OInv'
  BY <1>1, <1>3, OnceOther DEF Mutex, Lock, Unlock
<1>4. ASSUME NEW t \in Tasks, Ending(t)
      PROVE  OInv'
  <2>1. \A u \in Tasks : pc'[u] \in Inside => pc'[u] = pc[u]
    BY <1>4 DEF OInv, TInv, TypeOK, Ending, End, Stop, FreeMutex, Freed, At, Go, Inside
  <2>2. UNCHANGED onceVars
    BY <1>4 DEF Ending, End, Stop, FreeMutex, Freed
  <2> QED
    BY <1>1, <2>1, <2>2, OnceOther
<1>5. ASSUME NEW t \in Tasks, Cond(t)
      PROVE  OInv'
  <2>1. \A u \in Tasks : pc'[u] \in Inside => pc'[u] = pc[u]
    BY <1>5 DEF OInv, TInv, TypeOK, Cond, WaitCall, WaitStore, WaitLock, WaitCheck,
                TimedCheck, WaitBlock, WaitTimeout, SignalCall, SignalStore, SignalGive,
                Return, At, Go, Inside
  <2>2. UNCHANGED onceVars
    BY <1>5 DEF Cond, WaitCall, WaitStore, WaitLock, WaitCheck, TimedCheck, WaitBlock,
                WaitTimeout, SignalCall, SignalStore, SignalGive
  <2> QED
    BY <1>1, <2>1, <2>2, OnceOther
<1> QED
  BY <1>1, <1>2, <1>3, <1>4, <1>5, OnceOnce DEF Next

\* init_routine is called once, and pthread_once returns to nobody before it has
\* returned, whoever is stopped wherever (once.c:35).
THEOREM InitOnce == Spec => []OnceIsDone
<1>1. Spec => []OInv
  BY OnceInit, OnceStep, PTL DEF Spec
<1>2. OInv => OnceIsDone
  <2>1. OInv => inits \in {0, 1}
    BY DEF OInv, InitTracked
  <2>2. OInv => (onced # {} => initDone)
    BY DEF OInv, InitTracked
  <2> QED
    BY <2>1, <2>2 DEF OnceIsDone
<1> QED
  BY <1>1, <1>2, PTL

(***************************************************************************)
(* Wakes and signals                                                       *)
(***************************************************************************)
Signalling == {"signal", "give"}

\* Signals that are under way, and waits that have taken the semaphore before
\* they look at referenced.
Pending == {t \in Tasks : pc[t] \in Signalling \cup {"wait check"}}

\* The semaphore is made with one unit, and each signal gives at most one.
UnitsAreFew ==
    /\ IsFiniteSet(Pending)
    /\ wakes + condSem + Cardinality(Pending) <= 1 + signals

\* A signal that is not loose keeps the mutex of the condition until it has given.
SignallersHold ==
    loose = 0 => \A t \in Tasks : pc[t] \in Signalling => holds[t][CondMutex] > 0

\* Waits that have counted themselves and do not block yet.
Counted == {"wait lock", "wait check", "timed check", "timed first"}

\* The first unit has gone: to the first of the waits, or lost in a signal that
\* nobody waited for.
Spent == wakes + condSem + Cardinality(Pending) <= signals

\* It is still there, and the wait under way will find that it is the first.
Unspent ==
    /\ wakes = 0
    /\ \A t \in Tasks :
        /\ pc[t] \notin {"wait block", "timed block"}
        /\ pc[t] \in {"wait", "timed"} => seen[t] = 0
        /\ pc[t] \in Counted => referenced = 1
    /\ (\A t \in Tasks : pc[t] \notin Counted \cup {"give"}) => referenced = 0
    /\ (\A t \in Tasks : pc[t] # "wait check") => condSem = 1

FirstUnit == NobodyEnded /\ loose = 0 => Spent \/ Unspent

WInv == XInv /\ UnitsAreFew /\ SignallersHold /\ FirstUnit

LEMMA WakesInit == Init => WInv
<1> SUFFICES ASSUME Init PROVE WInv
  OBVIOUS
<1>1. Pending = {}
  BY DEF Init, Pending, Signalling
<1>2. IsFiniteSet(Pending) /\ Cardinality(Pending) = 0
  BY <1>1, FS_EmptySet
<1>3. UnitsAreFew
  BY <1>2 DEF Init, UnitsAreFew
<1>4. SignallersHold /\ Unspent
  BY DEF Init, SignallersHold, Signalling, Unspent, Counted
<1> QED
  BY <1>3, <1>4, ExclusionInit DEF WInv, FirstUnit

\* How Pending changes with the place of a thread.
LEMMA PendingMoves ==
    ASSUME TInv, IsFiniteSet(Pending), NEW t \in Tasks, NEW where,
           pc' = [pc EXCEPT ![t] = where]
    PROVE  /\ IsFiniteSet(Pending') /\ Cardinality(Pending) \in Nat
           /\ (t \in Pending <=> where \in Signalling \cup {"wait check"}) => Pending' = Pending
           /\ t \notin Pending /\ where \in Signalling \cup {"wait check"} =>
                Cardinality(Pending') = Cardinality(Pending) + 1
           /\ t \in Pending /\ where \notin Signalling \cup {"wait check"} =>
                Cardinality(Pending') = Cardinality(Pending) - 1
<1>1. Cardinality(Pending) \in Nat
  BY FS_CardinalityType
<1>2. CASE where \in Signalling \cup {"wait check"}
  <2>1. Pending' = Pending \cup {t}
    BY <1>2 DEF TInv, TypeOK, Pending
  <2>2. IsFiniteSet(Pending')
    BY <2>1, FS_AddElement
  <2>3. t \notin Pending => Cardinality(Pending') = Cardinality(Pending) + 1
    BY <2>1, FS_AddElement
  <2>4. t \in Pending => Pending' = Pending
    BY <2>1
  <2> QED
    BY <1>1, <1>2, <2>2, <2>3, <2>4
<1>3. CASE where \notin Signalling \cup {"wait check"}
  <2>1. Pending' = Pending \ {t}
    BY <1>3 DEF TInv, TypeOK, Pending
  <2>2. IsFiniteSet(Pending')
    BY <2>1, FS_RemoveElement
  <2>3. t \in Pending => Cardinality(Pending') = Cardinality(Pending) - 1
    BY <2>1, FS_RemoveElement
  <2>4. t \notin Pending => Pending' = Pending
    BY <2>1
  <2> QED
    BY <1>1, <1>3, <2>2, <2>3, <2>4
<1> QED
  BY <1>2, <1>3

\* While no signal is loose, one thread at a time waits or signals.
LEMMA OneAtTheCondition ==
    ASSUME XInv, SignallersHold, NobodyEnded, loose = 0,
           NEW t \in Tasks, NEW u \in Tasks,
           pc[t] \in Waiting \cup Signalling, pc[u] \in Waiting \cup Signalling
    PROVE  t = u
<1>1. CondMutex \in Mutexes /\ holds[t][CondMutex] > 0 /\ holds[u][CondMutex] > 0
  BY PthreadSyncAssumption DEF XInv, TInv, WaitersHold, SignallersHold
<1> QED
  BY <1>1 DEF XInv, HoldersOwn, Exclusive

(***************************************************************************)
(* Steps that do not touch the condition.                                  *)
(***************************************************************************)
AtCondition == Waiting \cup Signalling

LEMMA WakesOther ==
    ASSUME WInv, XInv', UNCHANGED condVars, SignallersHold',
           NobodyEnded' => NobodyEnded,
           \A u \in Tasks : pc'[u] \in AtCondition => pc'[u] = pc[u],
           \A u \in Tasks : NobodyEnded' /\ pc[u] \in AtCondition => pc'[u] = pc[u]
    PROVE  WInv'
<1>1. Pending' \subseteq Pending
  BY DEF Pending, AtCondition, Waiting
<1>2. IsFiniteSet(Pending') /\ Cardinality(Pending') <= Cardinality(Pending)
  BY <1>1, FS_Subset DEF WInv, UnitsAreFew
<1>3. Cardinality(Pending') \in Nat /\ Cardinality(Pending) \in Nat
  BY <1>2, FS_CardinalityType DEF WInv, UnitsAreFew
<1>4. wakes \in Nat /\ signals \in Nat /\ condSem \in Nat
  BY DEF WInv, XInv, TInv, TypeOK
<1>5. UnitsAreFew'
  BY <1>2, <1>3, <1>4 DEF WInv, UnitsAreFew, condVars
<1>6. Spent => Spent'
  BY <1>2, <1>3, <1>4 DEF Spent, condVars
<1>7. NobodyEnded' /\ Unspent => Unspent'
  BY DEF Unspent, Counted, AtCondition, Waiting, Signalling, condVars
<1> QED
  BY <1>5, <1>6, <1>7 DEF WInv, FirstUnit, condVars

LEMMA WakesMutex ==
    ASSUME WInv, XInv', NEW t \in Tasks, Mutex(t)
    PROVE  WInv'
<1>1. UNCHANGED <<pc, condVars>>
  BY DEF Mutex, Lock, Unlock
<1>2. SignallersHold'
  <2>1. \A u \in Tasks : pc[u] \in Signalling => holds'[u][CondMutex] >= holds[u][CondMutex]
    <3>1. ASSUME NEW m \in Mutexes, Lock(t, m)
          PROVE  \A u \in Tasks : holds'[u][CondMutex] >= holds[u][CondMutex]
      BY <3>1, PthreadSyncAssumption DEF WInv, XInv, TInv, TypeOK, Lock
    <3>2. ASSUME NEW m \in Mutexes, Unlock(t, m), NEW u \in Tasks, pc[u] \in Signalling
          PROVE  holds'[u][CondMutex] >= holds[u][CondMutex]
      BY <3>2, PthreadSyncAssumption
         DEF WInv, XInv, TInv, TypeOK, Unlock, Release, Signalling
    <3> QED
      BY <3>1, <3>2 DEF Mutex
  <2>2. \A u \in Tasks : holds[u][CondMutex] \in Nat /\ holds'[u][CondMutex] \in Nat
    BY PthreadSyncAssumption DEF WInv, XInv, TInv, TypeOK
  <2> QED
    BY <1>1, <2>1, <2>2 DEF WInv, SignallersHold, condVars
<1>3. /\ \A u \in Tasks : pc'[u] = pc[u]
      /\ NobodyEnded' => NobodyEnded
      /\ UNCHANGED condVars
  BY <1>1 DEF NobodyEnded
<1> QED
  BY <1>2, <1>3, WakesOther

LEMMA WakesEnding ==
    ASSUME WInv, XInv', NEW t \in Tasks, Ending(t)
    PROVE  WInv'
<1> USE DEF WInv, XInv, TInv, TypeOK, AtCondition, Waiting, Signalling
<1>1. UNCHANGED condVars
  BY DEF Ending, End, Stop, FreeMutex, Freed
<1>2. /\ \A u \in Tasks : pc'[u] \in AtCondition => pc'[u] = pc[u]
      /\ \A u \in Tasks : pc'[u] \in Signalling => holds'[u] = holds[u]
      /\ NobodyEnded' => NobodyEnded
      /\ \A u \in Tasks : NobodyEnded' /\ pc[u] \in AtCondition => pc'[u] = pc[u]
  <2>1. CASE End(t)
    BY <2>1 DEF End, At, Go, NobodyEnded
  <2>2. ASSUME NEW other \in Tasks, Stop(t, other)
        PROVE  <1>2!1 /\ <1>2!2 /\ ~NobodyEnded'
    BY <2>2 DEF Stop, Dead, NobodyEnded
  <2>3. CASE FreeMutex(t)
    <3>1. pc' = pc /\ holds' = holds
      BY <2>3 DEF FreeMutex
    <3> QED
      BY <3>1 DEF NobodyEnded
  <2>4. CASE Freed(t)
    <3>1. holds' = holds
      BY <2>4 DEF Freed, mutexVars
    <3>2. CASE At(t, "end", "ended")
      BY <3>1, <3>2 DEF At, Go, NobodyEnded
    <3>3. CASE At(t, "stop", "run")
      BY <3>1, <3>3 DEF At, Go, NobodyEnded
    <3> QED
      BY <2>4, <3>2, <3>3 DEF Freed
  <2> QED
    BY <2>1, <2>2, <2>3, <2>4 DEF Ending
<1>3. SignallersHold'
  BY <1>1, <1>2 DEF SignallersHold, condVars
<1> QED
  BY <1>1, <1>2, <1>3, WakesOther

LEMMA WakesOnce ==
    ASSUME WInv, XInv', NEW t \in Tasks, Once(t)
    PROVE  WInv'
<1> USE DEF WInv, XInv, TInv, TypeOK
<1>1. UNCHANGED <<mutexVars, condVars>>
  BY DEF Once, OnceLock, OnceTry, InitDone, OnceUnlock
<1>2. PICK where \in {"once", "init", "once unlock", "run"} :
            pc' = [pc EXCEPT ![t] = where]
  BY DEF Once, OnceLock, OnceTry, InitDone, OnceUnlock, At, Go
<1>3. pc[t] \in {"run", "once", "init", "once unlock"}
  BY DEF Once, OnceLock, OnceTry, InitDone, OnceUnlock, At, Go
<1>4. /\ \A u \in Tasks : pc'[u] \in AtCondition => pc'[u] = pc[u]
      /\ \A u \in Tasks : pc[u] \in AtCondition => pc'[u] = pc[u]
  <2>1. where \notin AtCondition /\ pc[t] \notin AtCondition
    BY <1>3 DEF AtCondition, Waiting, Signalling
  <2> QED
    BY <1>2, <2>1
<1>5. SignallersHold'
  BY <1>1, <1>4 DEF SignallersHold, AtCondition, mutexVars, condVars
<1>6. NobodyEnded' => NobodyEnded
  BY <1>2, <1>3 DEF NobodyEnded
<1> QED
  BY <1>1, <1>4, <1>5, <1>6, WakesOther

(***************************************************************************)
(* The steps of waits and signals.                                         *)
(***************************************************************************)
LEMMA SignallersStep ==
    ASSUME WInv, XInv', NEW t \in Tasks, Cond(t)
    PROVE  SignallersHold'
<1> USE DEF WInv, XInv, TInv, TypeOK, SignallersHold
<1>1. ASSUME NEW where \in {"wait", "timed"}, WaitCall(t, where)
      PROVE  SignallersHold'
  BY <1>1 DEF WaitCall, At, Go, mutexVars, Signalling
<1>2. CASE WaitStore(t)
  BY <1>2 DEF WaitStore, At, Go, mutexVars, Signalling
<1>3. CASE WaitLock(t)
  BY <1>3 DEF WaitLock, At, Go, mutexVars, Signalling
<1>4. ASSUME Return(t), loose' = loose
      PROVE  SignallersHold'
  <2>1. pc' = [pc EXCEPT ![t] = "run"] /\ holds' = [holds EXCEPT ![t][CondMutex] = @ - 1]
    BY <1>4 DEF Return, Go, Release
  <2> QED
    BY <1>4, <2>1 DEF Signalling
<1>5. CASE WaitCheck(t)
  <2>1. CASE referenced = 1
    BY <1>5, <2>1 DEF WaitCheck, Go, mutexVars, Signalling
  <2>2. CASE referenced # 1
    BY <1>4, <1>5, <2>2 DEF WaitCheck
  <2> QED
    BY <2>1, <2>2
<1>6. CASE TimedCheck(t)
  BY <1>6 DEF TimedCheck, At, Go, mutexVars, condVars, Signalling
<1>7. CASE WaitBlock(t)
  BY <1>4, <1>7 DEF WaitBlock
<1>8. CASE WaitTimeout(t)
  BY <1>8 DEF WaitTimeout, At, Go, mutexVars, condVars, Signalling
<1>9. CASE SignalCall(t)
  BY <1>9 DEF SignalCall, At, Go, mutexVars, Signalling
<1>10. CASE SignalStore(t)
  BY <1>10 DEF SignalStore, At, Go, mutexVars, Signalling
<1>11. CASE SignalGive(t)
  BY <1>11 DEF SignalGive, At, Go, mutexVars, Signalling
<1> QED
  BY <1>1, <1>2, <1>3, <1>5, <1>6, <1>7, <1>8, <1>9, <1>10, <1>11 DEF Cond

\* A thread moves between places at the condition and the one outside.
LEMMA CondMoves ==
    ASSUME WInv, XInv', NEW t \in Tasks, pc[t] \in AtCondition \cup {"run"},
           NEW where \in AtCondition \cup {"run"}, pc' = [pc EXCEPT ![t] = where]
    PROVE  /\ NobodyEnded' => NobodyEnded
           /\ wakes \in Nat /\ signals \in Nat /\ loose \in Nat /\ condSem \in {0, 1}
           /\ Cardinality(Pending) \in Nat /\ Cardinality(Pending') \in Nat
           /\ IsFiniteSet(Pending')
           /\ wakes + condSem + Cardinality(Pending) <= 1 + signals
           /\ pc'[t] = where /\ \A u \in Tasks : u # t => pc'[u] = pc[u]
           /\ NobodyEnded' /\ loose = 0 /\ pc[t] \in AtCondition =>
                \A u \in Tasks : u # t => pc[u] \notin AtCondition /\ pc'[u] \notin AtCondition
<1>1. pc'[t] = where /\ \A u \in Tasks : u # t => pc'[u] = pc[u]
  BY DEF WInv, XInv, TInv, TypeOK
<1>2. NobodyEnded' => NobodyEnded
  BY <1>1 DEF NobodyEnded, AtCondition, Waiting, Signalling
<1>3. IsFiniteSet(Pending') /\ Cardinality(Pending) \in Nat
  BY PendingMoves DEF WInv, XInv, UnitsAreFew
<1>4. Cardinality(Pending') \in Nat
  BY <1>3, FS_CardinalityType
<1>5. NobodyEnded' /\ loose = 0 /\ pc[t] \in AtCondition =>
        \A u \in Tasks : u # t => pc[u] \notin AtCondition
  BY <1>2, OneAtTheCondition DEF WInv, AtCondition
<1> QED
  BY <1>1, <1>2, <1>3, <1>4, <1>5 DEF WInv, XInv, TInv, TypeOK, UnitsAreFew

\* A wait that is called counts itself: the first of all finds 1.
LEMMA WakesCall ==
    ASSUME WInv, XInv', NEW t \in Tasks, NEW where \in {"wait", "timed"}, WaitCall(t, where)
    PROVE  UnitsAreFew' /\ FirstUnit'
<1>1. /\ pc[t] = "run" /\ pc' = [pc EXCEPT ![t] = where]
      /\ seen' = [seen EXCEPT ![t] = referenced]
      /\ UNCHANGED <<referenced, condSem, signals, loose, wakes>>
  BY DEF WaitCall, At, Go
<1>2. where \in AtCondition /\ holds[t][CondMutex] > 0
  BY DEF WaitCall, AtCondition, Waiting
<1>3. Pending' = Pending
  BY <1>1, PendingMoves DEF WInv, XInv, UnitsAreFew, Pending, Signalling
<1>4. UnitsAreFew' /\ (Spent => Spent')
  BY <1>1, <1>3 DEF WInv, UnitsAreFew, Spent
<1>5. ASSUME NobodyEnded', loose' = 0, Unspent
      PROVE  Unspent'
  <2>1. \A u \in Tasks : u # t => pc[u] \notin AtCondition /\ pc'[u] = pc[u]
    <3>1. NobodyEnded /\ CondMutex \in Mutexes
      BY <1>1, <1>2, <1>5, CondMoves, PthreadSyncAssumption
    <3>2. \A u \in Tasks : pc[u] \in AtCondition => holds[u][CondMutex] > 0
      BY <1>1, <1>5 DEF WInv, XInv, TInv, WaitersHold, SignallersHold, AtCondition
    <3> QED
      BY <1>1, <1>2, <3>1, <3>2 DEF WInv, XInv, TInv, TypeOK, HoldersOwn, Exclusive
  <2>2. referenced = 0 /\ condSem = 1
    BY <1>1, <2>1, <1>5 DEF Unspent, Counted, AtCondition, Waiting, Signalling
  <2>3. pc'[t] = where /\ seen'[t] = 0
    BY <1>1, <2>2 DEF WInv, XInv, TInv, TypeOK
  <2> QED
    BY <1>1, <1>5, <2>1, <2>2, <2>3 DEF Unspent, Counted, AtCondition, Waiting
<1> QED
  BY <1>1, <1>2, <1>4, <1>5, CondMoves DEF WInv, FirstUnit

LEMMA OneIsFirst == \A n : n = 0 => n + 1 = 1
OBVIOUS

LEMMA WakesStore ==
    ASSUME WInv, XInv', NEW t \in Tasks, WaitStore(t)
    PROVE  UnitsAreFew' /\ FirstUnit'
<1>1. PICK where \in {"wait lock", "timed check"} : pc' = [pc EXCEPT ![t] = where]
  BY DEF WaitStore, At, Go
<1>2. /\ pc[t] \in {"wait", "timed"} /\ referenced' = seen[t] + 1
      /\ seen' = [seen EXCEPT ![t] = 0]
      /\ UNCHANGED <<condSem, signals, loose, wakes>>
  BY DEF WaitStore, At
<1>3. Pending' = Pending
  BY <1>1, <1>2, PendingMoves DEF WInv, XInv, UnitsAreFew, Pending, Signalling
<1>4. UnitsAreFew' /\ (Spent => Spent')
  BY <1>2, <1>3 DEF WInv, UnitsAreFew, Spent
<1>5. pc[t] \in AtCondition /\ where \in AtCondition
  BY <1>2 DEF AtCondition, Waiting
<1>6. ASSUME NobodyEnded', loose' = 0, Unspent
      PROVE  Unspent'
  <2>1. pc'[t] = where /\ \A u \in Tasks : u # t => pc[u] \notin AtCondition /\ pc'[u] \notin AtCondition
    BY <1>1, <1>2, <1>5, <1>6, CondMoves
  <2>2. referenced' = 1
    <3>1. seen[t] = 0
      BY <1>2, <1>6 DEF Unspent
    <3> QED
      BY <1>2, <3>1, OneIsFirst
  <2>3. condSem = 1
    BY <1>2, <1>6, <2>1 DEF Unspent, AtCondition, Waiting
  <2> QED
    BY <1>2, <1>6, <2>1, <2>2, <2>3 DEF Unspent, Counted, AtCondition, Waiting
<1> QED
  BY <1>1, <1>2, <1>4, <1>5, <1>6, CondMoves DEF WInv, FirstUnit

\* The lock before the check takes the first unit, and so does that of a timed
\* wait that was the first, which then has nothing to show for it.
LEMMA WakesLock ==
    ASSUME WInv, XInv', NEW t \in Tasks, WaitLock(t)
    PROVE  UnitsAreFew' /\ FirstUnit'
<1>1. condSem = 1 /\ condSem' = 0 /\ UNCHANGED <<referenced, seen, signals, loose, wakes>>
  BY DEF WaitLock
<1>2. CASE At(t, "wait lock", "wait check")
  <2>1. pc[t] = "wait lock" /\ pc' = [pc EXCEPT ![t] = "wait check"]
    BY <1>2 DEF At, Go
  <2>2. pc[t] \in AtCondition /\ "wait check" \in AtCondition
    BY <2>1 DEF AtCondition, Waiting
  <2>3. Cardinality(Pending') = Cardinality(Pending) + 1
    BY <2>1, PendingMoves DEF WInv, XInv, UnitsAreFew, Pending, Signalling
  <2>4. UnitsAreFew' /\ (Spent => Spent')
    <3>1. /\ wakes \in Nat /\ signals \in Nat
          /\ Cardinality(Pending) \in Nat /\ IsFiniteSet(Pending')
          /\ wakes + condSem + Cardinality(Pending) <= 1 + signals
      BY <2>1, <2>2, CondMoves
    <3> QED
      BY <1>1, <2>3, <3>1 DEF UnitsAreFew, Spent
  <2>5. ASSUME NobodyEnded', loose' = 0, Unspent
        PROVE  Unspent'
    <3>1. /\ pc'[t] = "wait check"
          /\ \A u \in Tasks : u # t => pc[u] \notin AtCondition /\ pc'[u] \notin AtCondition
      BY <1>1, <2>1, <2>2, <2>5, CondMoves
    <3>2. referenced = 1
      BY <2>1, <2>5 DEF Unspent, Counted
    <3> QED
      BY <1>1, <2>5, <3>1, <3>2 DEF Unspent, Counted, AtCondition, Waiting
  <2> QED
    BY <1>1, <2>1, <2>2, <2>4, <2>5, CondMoves DEF WInv, FirstUnit
<1>3. CASE At(t, "timed first", "timed block")
  <2>1. pc[t] = "timed first" /\ pc' = [pc EXCEPT ![t] = "timed block"]
    BY <1>3 DEF At, Go
  <2>2. pc[t] \in AtCondition /\ "timed block" \in AtCondition
    BY <2>1 DEF AtCondition, Waiting
  <2>3. Pending' = Pending
    <3>1. t \notin Pending /\ "timed block" \notin Signalling \cup {"wait check"}
      BY <2>1 DEF Pending, Signalling
    <3> QED
      BY <2>1, <3>1, PendingMoves DEF WInv, XInv, UnitsAreFew
  <2>4. /\ wakes \in Nat /\ signals \in Nat
        /\ Cardinality(Pending) \in Nat /\ IsFiniteSet(Pending')
        /\ wakes + condSem + Cardinality(Pending) <= 1 + signals
    BY <2>1, <2>2, CondMoves
  <2> QED
    BY <1>1, <2>3, <2>4 DEF UnitsAreFew, Spent, FirstUnit
<1> QED
  BY <1>2, <1>3 DEF WaitLock

\* The check: a wait that is the first blocks, and its unit has woken nobody; any
\* other returns, for the unit it has taken.
LEMMA WakesCheck ==
    ASSUME WInv, XInv', NEW t \in Tasks, WaitCheck(t)
    PROVE  UnitsAreFew' /\ FirstUnit'
<1> DEFINE where == IF referenced = 1 THEN "wait block" ELSE "run"
<1>1. pc[t] = "wait check" /\ pc' = [pc EXCEPT ![t] = where]
  BY DEF WaitCheck, Return, Go
<1>2. /\ wakes' = IF referenced = 1 THEN wakes ELSE wakes + 1
      /\ UNCHANGED <<condSem, signals, loose>>
  BY DEF WaitCheck, Return
<1>3. pc[t] \in AtCondition /\ where \in AtCondition \cup {"run"}
  BY <1>1 DEF AtCondition, Waiting
<1>4. t \in Pending /\ where \notin Signalling \cup {"wait check"}
  BY <1>1 DEF Pending, Signalling
<1> HIDE DEF where
<1>5. Cardinality(Pending') = Cardinality(Pending) - 1
  BY <1>1, <1>4, PendingMoves DEF WInv, XInv, UnitsAreFew
<1>6. /\ wakes \in Nat /\ signals \in Nat /\ condSem \in {0, 1}
      /\ Cardinality(Pending) \in Nat /\ IsFiniteSet(Pending')
      /\ wakes + condSem + Cardinality(Pending) <= 1 + signals
      /\ NobodyEnded' => NobodyEnded
  BY <1>1, <1>3, CondMoves
<1>7. UnitsAreFew' /\ (Spent => Spent')
  BY <1>2, <1>5, <1>6 DEF UnitsAreFew, Spent
<1>8. ASSUME Unspent
      PROVE  Spent'
  <2>1. referenced = 1
    BY <1>1, <1>8 DEF Unspent, Counted
  <2> QED
    BY <1>2, <1>5, <1>6, <2>1 DEF Spent
<1> QED
  BY <1>2, <1>6, <1>7, <1>8 DEF WInv, FirstUnit

LEMMA WakesTimedCheck ==
    ASSUME WInv, XInv', NEW t \in Tasks, TimedCheck(t)
    PROVE  UnitsAreFew' /\ FirstUnit'
<1>1. pc[t] = "timed check" /\ UNCHANGED condVars
  BY DEF TimedCheck, At
<1>2. PICK where \in {"timed first", "timed block"} :
        pc' = [pc EXCEPT ![t] = where] /\ (referenced = 1 => where = "timed first")
  BY DEF TimedCheck, At, Go
<1>3. pc[t] \in AtCondition /\ where \in AtCondition
  BY <1>1 DEF AtCondition, Waiting
<1>4. Pending' = Pending
  <2>1. t \notin Pending /\ where \notin Signalling \cup {"wait check"}
    BY <1>1 DEF Pending, Signalling
  <2> QED
    BY <1>2, <2>1, PendingMoves DEF WInv, XInv, UnitsAreFew
<1>5. UnitsAreFew' /\ (Spent => Spent')
  BY <1>1, <1>4 DEF WInv, UnitsAreFew, Spent, condVars
<1>6. ASSUME NobodyEnded', loose' = 0, Unspent
      PROVE  Unspent'
  <2>1. /\ pc'[t] = where
        /\ \A u \in Tasks : u # t => pc[u] \notin AtCondition /\ pc'[u] \notin AtCondition
    BY <1>1, <1>2, <1>3, <1>6, CondMoves DEF condVars
  <2>2. referenced = 1 /\ where = "timed first"
    BY <1>1, <1>2, <1>6 DEF Unspent, Counted
  <2>3. condSem = 1
    BY <1>1, <1>6, <2>1 DEF Unspent, AtCondition, Waiting
  <2> QED
    BY <1>1, <1>6, <2>1, <2>2, <2>3 DEF Unspent, Counted, AtCondition, Waiting, condVars
<1> QED
  BY <1>1, <1>2, <1>3, <1>5, <1>6, CondMoves DEF WInv, FirstUnit, condVars

\* A wait that blocked takes the unit of a signal, or times out and takes none.
LEMMA WakesBlock ==
    ASSUME WInv, XInv', NEW t \in Tasks, WaitBlock(t) \/ WaitTimeout(t)
    PROVE  UnitsAreFew' /\ FirstUnit'
<1>1. /\ pc[t] \in {"wait block", "timed block"} /\ pc' = [pc EXCEPT ![t] = "run"]
  BY DEF WaitBlock, WaitTimeout, Return, At, Go
<1>0. /\ UNCHANGED <<signals, loose>>
      /\ \/ condSem = 1 /\ condSem' = 0 /\ wakes' = wakes + 1
         \/ condSem' = condSem /\ wakes' = wakes
  BY DEF WaitBlock, WaitTimeout, Return, condVars
<1>2. pc[t] \in AtCondition
  BY <1>1 DEF AtCondition, Waiting
<1>3. Pending' = Pending
  <2>1. t \notin Pending /\ "run" \notin Signalling \cup {"wait check"}
    BY <1>1 DEF Pending, Signalling
  <2> QED
    BY <1>1, <2>1, PendingMoves DEF WInv, XInv, UnitsAreFew
<1>4. /\ wakes \in Nat /\ signals \in Nat /\ condSem \in {0, 1}
      /\ Cardinality(Pending) \in Nat /\ IsFiniteSet(Pending')
      /\ wakes + condSem + Cardinality(Pending) <= 1 + signals
      /\ NobodyEnded' => NobodyEnded
  BY <1>1, <1>2, CondMoves
<1>5. UnitsAreFew' /\ (Spent => Spent')
  BY <1>0, <1>3, <1>4 DEF UnitsAreFew, Spent
<1>6. ~Unspent
  BY <1>1 DEF Unspent
<1> QED
  BY <1>0, <1>4, <1>5, <1>6 DEF WInv, FirstUnit

\* The call of a signal announces a unit, its store counts a waiter less, and its
\* give adds the unit, if there is none: one that is lost makes up for the first.
LEMMA WakesSignalCall ==
    ASSUME WInv, XInv', NEW t \in Tasks, SignalCall(t)
    PROVE  UnitsAreFew' /\ FirstUnit'
<1>1. pc[t] = "run" /\ pc' = [pc EXCEPT ![t] = "signal"]
  BY DEF SignalCall, At, Go
<1>2. /\ signals' = signals + 1 /\ UNCHANGED <<referenced, condSem, wakes>>
      /\ loose' = IF holds[t][CondMutex] > 0 THEN loose ELSE loose + 1
  BY DEF SignalCall
<1>3. \A u \in Tasks : pc'[u] \in {"wait", "timed"} => seen'[u] = seen[u]
  BY <1>1 DEF SignalCall, WInv, XInv, TInv, TypeOK
<1>4. "signal" \in AtCondition /\ pc[t] \in AtCondition \cup {"run"}
  BY <1>1 DEF AtCondition, Signalling
<1>5. t \notin Pending /\ "signal" \in Signalling
  BY <1>1 DEF Pending, Signalling
<1>6. Cardinality(Pending') = Cardinality(Pending) + 1
  BY <1>1, <1>5, PendingMoves DEF WInv, XInv, UnitsAreFew
<1>7. /\ wakes \in Nat /\ signals \in Nat /\ loose \in Nat /\ condSem \in {0, 1}
      /\ Cardinality(Pending) \in Nat /\ IsFiniteSet(Pending')
      /\ wakes + condSem + Cardinality(Pending) <= 1 + signals
      /\ NobodyEnded' => NobodyEnded
  BY <1>1, <1>4, CondMoves
<1>8. UnitsAreFew' /\ (Spent => Spent')
  BY <1>2, <1>6, <1>7 DEF UnitsAreFew, Spent
<1>9. loose' = 0 => loose = 0 /\ holds[t][CondMutex] > 0
  BY <1>2, <1>7
<1>10. ASSUME NobodyEnded', loose' = 0, Unspent
       PROVE  Unspent'
  <2>1. \A u \in Tasks : u # t => pc[u] \notin AtCondition /\ pc'[u] = pc[u]
    <3>1. NobodyEnded /\ CondMutex \in Mutexes
      BY <1>7, <1>10, PthreadSyncAssumption
    <3>2. \A u \in Tasks : pc[u] \in AtCondition => holds[u][CondMutex] > 0
      BY <1>9, <1>10 DEF WInv, XInv, TInv, WaitersHold, SignallersHold, AtCondition
    <3> QED
      BY <1>1, <1>9, <1>10, <3>1, <3>2 DEF WInv, XInv, TInv, TypeOK, HoldersOwn, Exclusive
  <2>2. referenced = 0 /\ condSem = 1
    BY <1>1, <1>10, <2>1 DEF Unspent, Counted, AtCondition, Waiting, Signalling
  <2>3. pc'[t] = "signal"
    BY <1>1 DEF WInv, XInv, TInv, TypeOK
  <2> QED
    BY <1>2, <1>10, <2>1, <2>2, <2>3 DEF Unspent, Counted, AtCondition, Waiting
<1> QED
  BY <1>7, <1>8, <1>9, <1>10 DEF WInv, FirstUnit

LEMMA WakesSignalStore ==
    ASSUME WInv, XInv', NEW t \in Tasks, SignalStore(t)
    PROVE  UnitsAreFew' /\ FirstUnit'
<1>1. pc[t] = "signal" /\ pc' = [pc EXCEPT ![t] = "give"]
  BY DEF SignalStore, At, Go
<1>2. UNCHANGED <<condSem, signals, loose, wakes>>
  BY DEF SignalStore
<1>3. pc[t] \in AtCondition /\ "give" \in AtCondition
  BY <1>1 DEF AtCondition, Signalling
<1>4. Pending' = Pending
  <2>1. t \in Pending /\ "give" \in Signalling
    BY <1>1 DEF Pending, Signalling
  <2> QED
    BY <1>1, <2>1, PendingMoves DEF WInv, XInv, UnitsAreFew
<1>5. UnitsAreFew' /\ (Spent => Spent')
  BY <1>2, <1>4 DEF WInv, UnitsAreFew, Spent
<1>6. ASSUME NobodyEnded', loose' = 0, Unspent
      PROVE  Unspent'
  <2>1. /\ pc'[t] = "give"
        /\ \A u \in Tasks : u # t => pc[u] \notin AtCondition /\ pc'[u] \notin AtCondition
    BY <1>1, <1>2, <1>3, <1>6, CondMoves
  <2>2. condSem = 1
    BY <1>1, <1>6, <2>1 DEF Unspent, AtCondition, Waiting
  <2> QED
    BY <1>2, <1>6, <2>1, <2>2 DEF Unspent, Counted, AtCondition, Waiting
<1> QED
  BY <1>1, <1>2, <1>3, <1>5, <1>6, CondMoves DEF WInv, FirstUnit

LEMMA WakesGive ==
    ASSUME WInv, XInv', NEW t \in Tasks, SignalGive(t)
    PROVE  UnitsAreFew' /\ FirstUnit'
<1>1. pc[t] = "give" /\ pc' = [pc EXCEPT ![t] = "run"]
  BY DEF SignalGive, At, Go
<1>2. condSem' = 1 /\ UNCHANGED <<signals, loose, wakes>>
  BY DEF SignalGive
<1>3. pc[t] \in AtCondition
  BY <1>1 DEF AtCondition, Signalling
<1>4. Cardinality(Pending') = Cardinality(Pending) - 1
  <2>1. t \in Pending /\ "run" \notin Signalling \cup {"wait check"}
    BY <1>1 DEF Pending, Signalling
  <2> QED
    BY <1>1, <2>1, PendingMoves DEF WInv, XInv, UnitsAreFew
<1>5. /\ wakes \in Nat /\ signals \in Nat /\ condSem \in {0, 1}
      /\ Cardinality(Pending) \in Nat /\ IsFiniteSet(Pending')
      /\ wakes + condSem + Cardinality(Pending) <= 1 + signals
      /\ NobodyEnded' => NobodyEnded
  BY <1>1, <1>3, CondMoves
<1>6. UnitsAreFew' /\ (Spent => Spent')
  BY <1>2, <1>4, <1>5 DEF UnitsAreFew, Spent
<1>7. ASSUME NobodyEnded', loose' = 0, Unspent
      PROVE  Spent'
  <2>1. \A u \in Tasks : u # t => pc[u] \notin AtCondition
    BY <1>1, <1>2, <1>3, <1>7, CondMoves
  <2>2. condSem = 1
    BY <1>1, <1>7, <2>1 DEF Unspent, AtCondition, Waiting
  <2> QED
    BY <1>2, <1>4, <1>5, <2>2 DEF Spent
<1> QED
  BY <1>2, <1>5, <1>6, <1>7 DEF WInv, FirstUnit

LEMMA WakesStep == WInv /\ [Next]_vars => WInv'
<1> SUFFICES ASSUME WInv, [Next]_vars PROVE WInv'
  OBVIOUS
<1>1. XInv'
  BY ExclusionStep DEF WInv
<1>2. CASE UNCHANGED vars
  BY <1>1, <1>2 DEF WInv, UnitsAreFew, SignallersHold, FirstUnit, Spent, Unspent, Pending,
                    NobodyEnded, vars, mutexVars, condVars
<1>3. ASSUME NEW t \in Tasks, Cond(t)
      PROVE  WInv'
  <2>1. SignallersHold'
    BY <1>1, <1>3, SignallersStep
  <2>2. UnitsAreFew' /\ FirstUnit'
    BY <1>1, <1>3, WakesCall, WakesStore, WakesLock, WakesCheck, WakesTimedCheck,
       WakesBlock, WakesSignalCall, WakesSignalStore, WakesGive DEF Cond
  <2> QED
    BY <1>1, <2>1, <2>2 DEF WInv
<1> QED
  BY <1>1, <1>2, <1>3, WakesMutex, WakesEnding, WakesOnce DEF Next

\* A wait returns 0 no more often than the condition was signalled, as long as
\* no thread has ended, and counting a signal without the mutex twice: with the
\* mutex held, the unit that the semaphore is made with goes to the first wait or
\* is lost in a signal that nobody waited for (pthread_cond_wait,
\* pthread_cond_timedwait, pthread_cond_signal).
THEOREM SignalledWakes == Spec => []WakesAreSignalled
<1>1. Spec => []WInv
  BY WakesInit, WakesStep, PTL DEF Spec
<1>2. WInv => WakesAreSignalled
  <2> SUFFICES ASSUME WInv, NobodyEnded PROVE wakes <= signals + loose
    BY DEF WakesAreSignalled
  <2>1. /\ wakes \in Nat /\ signals \in Nat /\ loose \in Nat /\ condSem \in {0, 1}
        /\ Cardinality(Pending) \in Nat
        /\ wakes + condSem + Cardinality(Pending) <= 1 + signals
    BY FS_CardinalityType DEF WInv, XInv, TInv, TypeOK, UnitsAreFew
  <2>2. CASE loose = 0
    <3>1. Spent \/ wakes = 0
      BY <2>2 DEF WInv, FirstUnit, Unspent
    <3> QED
      BY <2>1, <2>2, <3>1 DEF Spent
  <2>3. CASE loose # 0
    BY <2>1, <2>3
  <2> QED
    BY <2>2, <2>3
<1> QED
  BY <1>1, <1>2, PTL
=============================================================================
