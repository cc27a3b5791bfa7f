---------------------------- MODULE PthreadSync ----------------------------
(***************************************************************************)
(* What the threads of pthread/ synchronise with: mutexes (mutex.c), a     *)
(* condition variable (cond.c) and pthread_once (once.c), together with    *)
(* the two ways a thread ends, on its own and stopped by another, in both  *)
(* of which _pthread_mutex_free gives mutexes (mutex.c:237).               *)
(*                                                                         *)
(* A mutex is its handle in mutex_list, 1 .. N in the order the loop over  *)
(* the list meets them; all are initialised.  A mutex that is not          *)
(* recursive is a FreeRTOS mutex that any task can give; a recursive one   *)
(* can be given by its owner only.                                         *)
(*                                                                         *)
(* The variable holds is what the threads believe: how many times they     *)
(* locked a mutex and have not unlocked it.  Threads unlock only what they *)
(* hold, and wait with the mutex of the condition held; they signal with   *)
(* it or without it.  Destroying and failing to make are left out, and so  *)
(* is the list of threads, where the end of a thread races a join          *)
(* (PthreadJoin).                                                          *)
(***************************************************************************)
EXTENDS Integers, FiniteSets

CONSTANTS
    Tasks,       \* threads, all running at first
    None,        \* no thread
    N,           \* mutexes in mutex_list
    Recursive,   \* those of type PTHREAD_MUTEX_RECURSIVE
    CondMutex,   \* the mutex that goes with the condition
    MaxDepth,    \* bound: locks of a recursive mutex
    MaxSignals,  \* bound: calls of pthread_cond_signal
    MaxWaiting   \* bound: referenced when a wait is called

Mutexes == 1 .. N

ASSUME PthreadSyncAssumption ==
    /\ None \notin Tasks
    /\ N \in Nat
    /\ Recursive \subseteq Mutexes
    /\ CondMutex \in Mutexes \ Recursive
    /\ MaxDepth \in Nat /\ MaxSignals \in Nat /\ MaxWaiting \in Nat

VARIABLES
    pc,           \* where each thread is
    owner,        \* who took each mutex last and has not given it
    count,        \* how many times its owner took it
    holds,        \* how many times a thread believes it holds a mutex
    index,        \* the mutex that a loop of _pthread_mutex_free is at
    referenced,   \* cond->referenced
    seen,         \* what a thread read of it before it writes it back
    condSem,      \* count of the semaphore in cond->mutex
    signals,      \* calls of pthread_cond_signal
    loose,        \* those of them without the mutex of the condition
    wakes,        \* waits that returned 0
    onceMtx,      \* count of the semaphore in once_mtx
    onceSem,      \* the one in once_control->mutex; 2: not made yet
    inits,        \* how many times init_routine was called
    initDone,     \* init_routine has returned
    onced         \* the threads pthread_once has returned to

mutexVars == <<owner, count, holds>>
condVars == <<referenced, seen, condSem, signals, loose, wakes>>
onceVars == <<onceMtx, onceSem, inits, initDone, onced>>
vars == <<pc, mutexVars, index, condVars, onceVars>>

Init ==
    /\ pc = [t \in Tasks |-> "run"]
    /\ owner = [m \in Mutexes |-> None]
    /\ count = [m \in Mutexes |-> 0]
    /\ holds = [t \in Tasks |-> [m \in Mutexes |-> 0]]
    /\ index = [t \in Tasks |-> 0]
    /\ referenced = 0 /\ seen = [t \in Tasks |-> 0] /\ condSem = 1
    /\ signals = 0 /\ loose = 0 /\ wakes = 0
    /\ onceMtx = 1 /\ onceSem = 2 /\ inits = 0 /\ initDone = FALSE /\ onced = {}

Go(t, where) == pc' = [pc EXCEPT ![t] = where]
At(t, from, to) == pc[t] = from /\ Go(t, to)

(***************************************************************************)
(* mutex.c.  pthread_mutex_lock, and pthread_mutex_trylock when it gets    *)
(* the mutex: a lock that waits is one that is not taken yet.              *)
(***************************************************************************)
CanTake_Any(t, m) ==
    \/ owner[m] = None
    \/ m \in Recursive /\ count[m] < MaxDepth
CanTake(t, m) ==
    \/ owner[m] = None
    \/ m \in Recursive /\ owner[m] = t /\ count[m] < MaxDepth

Lock(t, m) ==
    /\ pc[t] = "run" /\ CanTake(t, m)
    /\ owner' = [owner EXCEPT ![m] = t]
    /\ count' = [count EXCEPT ![m] = @ + 1]
    /\ holds' = [holds EXCEPT ![t][m] = @ + 1]
    /\ UNCHANGED <<pc, index, condVars, onceVars>>

\* xSemaphoreGiveRecursive and xSemaphoreGive: only a recursive mutex looks at
\* its owner, and it is given when it was unlocked as often as it was locked.
Give_Empty(t, m) ==
    /\ count' = [count EXCEPT ![m] = @ - 1]
    /\ owner' = [owner EXCEPT ![m] = IF count[m] > 1 THEN @ ELSE None]
Give(t, m) ==
    IF m \in Recursive /\ owner[m] # t
    THEN UNCHANGED <<owner, count>>
    ELSE IF count[m] > 1
    THEN count' = [count EXCEPT ![m] = @ - 1] /\ UNCHANGED owner
    ELSE count' = [count EXCEPT ![m] = 0] /\ owner' = [owner EXCEPT ![m] = None]

\* pthread_mutex_unlock
Release_AtOnce(t, m) ==
    /\ count' = [count EXCEPT ![m] = 0]
    /\ owner' = [owner EXCEPT ![m] = None]
    /\ holds' = [holds EXCEPT ![t][m] = @ - 1]
Release(t, m) == Give(t, m) /\ holds' = [holds EXCEPT ![t][m] = @ - 1]

Unlock(t, m) ==
    /\ pc[t] = "run" /\ holds[t][m] > 0
    /\ Release(t, m)
    /\ UNCHANGED <<pc, index, condVars, onceVars>>

(***************************************************************************)
(* The end of a thread.  pthreadTask calls _pthread_free, which gives      *)
(* mutexes first; thread.stop deletes the task and calls it from its own.  *)
(***************************************************************************)
Dead(t) == pc[t] \in {"ended", "stopped"}

End(t) ==
    /\ At(t, "run", "end")
    /\ holds' = [holds EXCEPT ![t] = [m \in Mutexes |-> 0]]
    /\ index' = [index EXCEPT ![t] = 1]
    /\ UNCHANGED <<owner, count, condVars, onceVars>>

\* vTaskDelete of a task wherever it is: nothing it holds is given.
Stop(t, other) ==
    /\ t # other /\ pc[t] = "run" /\ ~Dead(other)
    /\ pc' = [pc EXCEPT ![t] = "stop", ![other] = "stopped"]
    /\ holds' = [holds EXCEPT ![other] = [m \in Mutexes |-> 0]]
    /\ index' = [index EXCEPT ![t] = 1]
    /\ UNCHANGED <<owner, count, condVars, onceVars>>

\* One mutex of the loop in _pthread_mutex_free, a recursive one as often as
\* the caller can give it.
FreeMutex_Recursive(t) ==
    LET m == index[t] IN
    /\ pc[t] \in {"end", "stop"} /\ m <= N
    /\ IF m \in Recursive /\ owner[m] = t
       THEN /\ owner' = [owner EXCEPT ![m] = None]
            /\ count' = [count EXCEPT ![m] = 0]
       ELSE UNCHANGED <<owner, count>>
    /\ index' = [index EXCEPT ![t] = m + 1]
    /\ UNCHANGED <<pc, holds, condVars, onceVars>>
FreeMutex(t) ==
    LET m == index[t] IN
    /\ pc[t] \in {"end", "stop"} /\ m <= N
    /\ IF m \notin Recursive \/ owner[m] = t
       THEN /\ owner' = [owner EXCEPT ![m] = None]
            /\ count' = [count EXCEPT ![m] = 0]
       ELSE UNCHANGED <<owner, count>>
    /\ index' = [index EXCEPT ![t] = m + 1]
    /\ UNCHANGED <<pc, holds, condVars, onceVars>>

\* The loop is over: a thread that ended is no more, one that stopped another
\* goes on.
Freed(t) ==
    /\ index[t] > N
    /\ At(t, "end", "ended") \/ At(t, "stop", "run")
    /\ index' = [index EXCEPT ![t] = 0]
    /\ UNCHANGED <<mutexVars, condVars, onceVars>>

(***************************************************************************)
(* cond.c: referenced++ and referenced-- are a read and a write.           *)
(***************************************************************************)
WaitCall(t, where) ==
    /\ At(t, "run", where) /\ holds[t][CondMutex] > 0
    /\ referenced < MaxWaiting
    /\ seen' = [seen EXCEPT ![t] = referenced]
    /\ UNCHANGED <<mutexVars, index, referenced, condSem, signals, loose, wakes, onceVars>>

\* pthread_cond_wait, pthread_cond_timedwait: referenced is written back.
WaitStore(t) ==
    /\ At(t, "wait", "wait lock") \/ At(t, "timed", "timed check")
    /\ referenced' = seen[t] + 1
    /\ seen' = [seen EXCEPT ![t] = 0]
    /\ UNCHANGED <<mutexVars, index, condSem, signals, loose, wakes, onceVars>>

\* The mtx_lock before referenced is looked at, and the one of a timed wait
\* that was the first: neither has a timeout.
WaitLock(t) ==
    /\ condSem = 1 /\ condSem' = 0
    /\ At(t, "wait lock", "wait check") \/ At(t, "timed first", "timed block")
    /\ UNCHANGED <<mutexVars, index, referenced, seen, signals, loose, wakes, onceVars>>

\* The wait returns 0: it gives the mutex back now, not while it waits.
Return(t) ==
    /\ Go(t, "run")
    /\ Release(t, CondMutex)
    /\ wakes' = wakes + 1

\* Only the first wait locks again to block.
WaitCheck_Never(t) ==
    /\ pc[t] = "wait check"
    /\ Return(t)
    /\ UNCHANGED <<index, referenced, seen, condSem, signals, loose, onceVars>>
WaitCheck(t) ==
    /\ pc[t] = "wait check"
    /\ IF referenced = 1
       THEN Go(t, "wait block") /\ UNCHANGED <<mutexVars, wakes>>
       ELSE Return(t)
    /\ UNCHANGED <<index, referenced, seen, condSem, signals, loose, onceVars>>

TimedCheck(t) ==
    /\ At(t, "timed check", IF referenced = 1 THEN "timed first" ELSE "timed block")
    /\ UNCHANGED <<mutexVars, index, condVars, onceVars>>

WaitBlock(t) ==
    /\ pc[t] \in {"wait block", "timed block"}
    /\ condSem = 1 /\ condSem' = 0
    /\ Return(t)
    /\ UNCHANGED <<index, referenced, seen, signals, loose, onceVars>>

\* ETIMEDOUT: the mutex stays locked, and referenced stays as it is.
WaitTimeout(t) ==
    /\ At(t, "timed block", "run")
    /\ UNCHANGED <<mutexVars, index, condVars, onceVars>>

\* pthread_cond_signal
SignalCall(t) ==
    /\ At(t, "run", "signal") /\ signals < MaxSignals
    /\ signals' = signals + 1
    /\ loose' = IF holds[t][CondMutex] > 0 THEN loose ELSE loose + 1
    /\ seen' = [seen EXCEPT ![t] = referenced]
    /\ UNCHANGED <<mutexVars, index, referenced, condSem, wakes, onceVars>>

SignalStore(t) ==
    /\ At(t, "signal", "give")
    /\ referenced' = seen[t] - 1
    /\ seen' = [seen EXCEPT ![t] = 0]
    /\ UNCHANGED <<mutexVars, index, condSem, signals, loose, wakes, onceVars>>

SignalGive(t) ==
    /\ At(t, "give", "run")
    /\ condSem' = 1
    /\ UNCHANGED <<mutexVars, index, referenced, seen, signals, loose, wakes, onceVars>>

(***************************************************************************)
(* pthread_once                                                            *)
(***************************************************************************)
OnceLock_Unlocked(t) ==
    /\ At(t, "run", "once")
    /\ UNCHANGED <<mutexVars, index, condVars, onceVars>>
OnceLock(t) ==
    /\ At(t, "run", "once")
    /\ onceMtx = 1 /\ onceMtx' = 0
    /\ UNCHANGED <<mutexVars, index, condVars, onceSem, inits, initDone, onced>>

\* The mutex of once_control is made, if it was not, and tried.
OnceTry(t) ==
    /\ At(t, "once", IF onceSem # 0 THEN "init" ELSE "once unlock")
    /\ onceSem' = 0
    /\ inits' = IF onceSem # 0 THEN inits + 1 ELSE inits
    /\ UNCHANGED <<mutexVars, index, condVars, onceMtx, initDone, onced>>

\* init_routine returns.
InitDone(t) ==
    /\ At(t, "init", "once unlock")
    /\ initDone' = TRUE
    /\ UNCHANGED <<mutexVars, index, condVars, onceMtx, onceSem, inits, onced>>

OnceUnlock(t) ==
    /\ At(t, "once unlock", "run")
    /\ onceMtx' = 1
    /\ onced' = onced \cup {t}
    /\ UNCHANGED <<mutexVars, index, condVars, onceSem, inits, initDone>>

Mutex(t) == (\E m \in Mutexes : Lock(t, m) \/ Unlock(t, m))
Ending(t) == End(t) \/ (\E other \in Tasks : Stop(t, other)) \/ FreeMutex(t) \/ Freed(t)
Cond(t) ==
    \/ WaitCall(t, "wait") \/ WaitCall(t, "timed") \/ WaitStore(t) \/ WaitLock(t)
    \/ WaitCheck(t) \/ TimedCheck(t) \/ WaitBlock(t) \/ WaitTimeout(t)
    \/ SignalCall(t) \/ SignalStore(t) \/ SignalGive(t)
Once(t) == OnceLock(t) \/ OnceTry(t) \/ InitDone(t) \/ OnceUnlock(t)

Next == \E t \in Tasks : Mutex(t) \/ Ending(t) \/ Cond(t) \/ Once(t)

Spec == Init /\ [][Next]_vars

(***************************************************************************)
(* Properties                                                              *)
(***************************************************************************)
Places == {"run", "end", "ended", "stop", "stopped", "wait", "wait lock",
           "wait check", "wait block", "timed", "timed check", "timed first",
           "timed block", "signal", "give", "once", "init", "once unlock"}

\* Every variable of the threads and of what they synchronise with has its type.
TypeOK ==
    /\ pc \in [Tasks -> Places]
    /\ owner \in [Mutexes -> Tasks \cup {None}]
    /\ count \in [Mutexes -> Nat]
    /\ holds \in [Tasks -> [Mutexes -> Nat]]
    /\ index \in [Tasks -> Nat]
    /\ referenced \in Int /\ seen \in [Tasks -> Int] /\ condSem \in {0, 1}
    /\ signals \in Nat /\ loose \in Nat /\ wakes \in Nat
    /\ onceMtx \in {0, 1} /\ onceSem \in {0, 1, 2}
    /\ inits \in Nat /\ initDone \in BOOLEAN /\ onced \subseteq Tasks

NobodyStopped == \A t \in Tasks : pc[t] # "stopped"
NobodyEnded == \A t \in Tasks : pc[t] \notin {"end", "ended", "stopped"}

\* Two threads never believe to hold a mutex at the same time: a recursive one
\* as long as no thread is stopped, another one only as long as none has ended
\* either, since the end of any thread gives it (_pthread_mutex_free).
MutexesExclude ==
    \A m \in Mutexes : NobodyEnded \/ (NobodyStopped /\ m \in Recursive) =>
        \A t, u \in Tasks : holds[t][m] > 0 /\ holds[u][m] > 0 => t = u

\* What _pthread_mutex_free is for: no mutex stays with a thread that has ended,
\* whatever it had locked; one that was stopped takes only its recursive ones
\* with it, once its stopper has come to them.
EndedHoldNothing ==
    \A t \in Tasks, m \in Mutexes :
        /\ pc[t] = "ended" => owner[m] # t
        /\ pc[t] = "stopped" /\ owner[m] = t /\ m \notin Recursive =>
                \E u \in Tasks : pc[u] = "stop" /\ index[u] <= m

\* A wait returns 0 no more often than the condition was signalled, counting
\* signals that nobody waited for: the unit the semaphore is made with wakes
\* nobody.  A signal without the mutex, which races for referenced, counts twice.
WakesAreSignalled == NobodyEnded => wakes <= signals + loose

\* init_routine is called once, and nobody returns from pthread_once before it
\* is done, even when the thread that runs it is stopped.
OnceIsDone ==
    /\ inits <= 1
    /\ onced # {} => initDone
=============================================================================
