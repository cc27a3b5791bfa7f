-------------------------- MODULE LmicSchedProofs --------------------------
(***************************************************************************)
(* Theorems about the job queues of LMIC and the disabling of interrupts,  *)
(* for any number of calls and any time.  Types hold however actors are    *)
(* spread over cores; that critical sections exclude each other holds on   *)
(* one core, by the priorities that the tasks and the handler have there.  *)
(***************************************************************************)
EXTENDS LmicSched, FiniteSetTheorems, TLAPS

(***************************************************************************)
(* The inductive invariant: types                                          *)
(***************************************************************************)
\* From hal_disableIRQs' count up to hal_enableIRQs' count down.
Section == {"unlink", "walk", "store", "take", "pop", "enable"}
Within == {a \in Actors : pc[a] \in Section \cup {"mask"}}

OpTypes == [kind : Kinds \cup {"loop"}, job : Jobs, time : 0 .. MaxTime]

Queues ==
    /\ link \in [Heads \cup Jobs -> Jobs \cup {None}]
    /\ deadline \in [Jobs -> 0 .. MaxTime]
    /\ wanted \subseteq Jobs

Actions ==
    /\ pc \in [Actors -> Places]
    /\ op \in [Actors -> OpTypes]
    /\ slot \in [Actors -> Heads \cup Jobs]
    /\ cur \in Jobs \cup {None}
    /\ pc[Loop] = "pop" => cur \in Jobs

Counts ==
    /\ now \in 0 .. MaxTime
    /\ nested = Cardinality(Within)
    /\ masked \subseteq Actors
    /\ resumed \in BOOLEAN /\ woken \in BOOLEAN
    /\ calls \in 0 .. MaxCalls
    /\ busy \in BOOLEAN /\ radio \in BOOLEAN

Types == Queues /\ Actions /\ Counts

LEMMA ActorsAreFinite == IsFiniteSet(Actors) /\ Loop \in Actors /\ Setup \in Actors
  BY LmicSchedAssumption, FS_AddElement DEF Actors

LEMMA WithinIsCounted ==
    /\ IsFiniteSet(Within) /\ Cardinality(Within) \in Nat
    /\ Cardinality(Within) <= Cardinality(Actors)
<1>1. Within \in SUBSET Actors
  BY DEF Within
<1> QED BY <1>1, ActorsAreFinite, FS_Subset, FS_CardinalityType

LEMMA TypesOK == Types => TypeOK
<1> SUFFICES ASSUME Types PROVE TypeOK
  OBVIOUS
<1>1. nested \in 0 .. Cardinality(Actors)
  BY WithinIsCounted, ActorsAreFinite, FS_CardinalityType DEF Types, Counts
<1> QED BY <1>1 DEF TypeOK, Types, Queues, Actions, Counts, OpTypes

\* A walk from a head meets the cells that the links lead to, two at most.
LEMMA WalkedCells ==
    ASSUME NEW h \in Heads
    PROVE  /\ DOMAIN CellAt(h) = 0 .. 2
           /\ CellAt(h)[0] = h
           /\ CellAt(h)[1] = IF h = None THEN None ELSE link[h]
           /\ CellAt(h)[2] = IF CellAt(h)[1] = None THEN None ELSE link[CellAt(h)[1]]
<1> DEFINE P(f) == f = [n \in 0 .. Cardinality(Jobs) |->
                 IF n = 0 THEN h ELSE IF f[n-1] = None THEN None ELSE link[f[n-1]]]
           f1 == IF h = None THEN None ELSE link[h]
           f2 == IF f1 = None THEN None ELSE link[f1]
           g == [i \in 0 .. 2 |-> IF i = 0 THEN h ELSE IF i = 1 THEN f1 ELSE f2]
<1>1. Cardinality(Jobs) = 2
  <2>1. IsFiniteSet({InitJob}) /\ Cardinality({InitJob}) = 1
    BY FS_Singleton
  <2>2. Jobs = {InitJob} \cup {OsJob} /\ OsJob \notin {InitJob}
    BY LmicSchedAssumption DEF Jobs
  <2> QED BY <2>1, <2>2, FS_AddElement
<1>2. P(g)
  BY <1>1
<1>3. P(CellAt(h))
  BY <1>2 DEF CellAt
<1> QED BY <1>1, <1>3

LEMMA CellsAreCells ==
    ASSUME Queues, NEW h \in Heads, NEW n \in DOMAIN CellAt(h)
    PROVE  CellAt(h)[n] \in Heads \cup Jobs \cup {None}
<1>1. n \in {0, 1, 2}
  BY WalkedCells
<1> QED BY <1>1, WalkedCells DEF Queues

(***************************************************************************)
(* How every step moves the actors                                         *)
(***************************************************************************)
\* The count of interrupts that are disabled follows the actors that disabled them.
LEMMA Moves ==
    ASSUME Types, NEW a \in Actors, NEW where \in Places, pc' = [pc EXCEPT ![a] = where],
           nested' = nested + (IF where \in Section \cup {"mask"} THEN 1 ELSE 0)
                            - (IF pc[a] \in Section \cup {"mask"} THEN 1 ELSE 0)
    PROVE  nested' = Cardinality(Within')
<1> USE DEF Types, Counts, Actions
<1>1. \A b \in Actors : b # a => pc'[b] = pc[b]
  OBVIOUS
<1>2. pc'[a] = where
  OBVIOUS
<1>3. IsFiniteSet(Within) /\ Cardinality(Within) \in Nat
  BY WithinIsCounted
<1>4. CASE where \in Section \cup {"mask"} /\ pc[a] \notin Section \cup {"mask"}
  <2>1. Within' = Within \cup {a} /\ a \notin Within
    BY <1>1, <1>2, <1>4 DEF Within
  <2>2. Cardinality(Within') = Cardinality(Within) + 1
    BY <1>3, <2>1, FS_AddElement
  <2> QED BY <1>3, <1>4, <2>2
<1>5. CASE where \notin Section \cup {"mask"} /\ pc[a] \in Section \cup {"mask"}
  <2>1. Within' = Within \ {a} /\ a \in Within
    BY <1>1, <1>2, <1>5 DEF Within
  <2>2. Cardinality(Within') = Cardinality(Within) - 1
    BY <1>3, <2>1, FS_RemoveElement
  <2> QED BY <1>3, <1>5, <2>2
<1>6. CASE where \in Section \cup {"mask"} <=> pc[a] \in Section \cup {"mask"}
  <2>1. Within' = Within
    BY <1>1, <1>2, <1>6 DEF Within
  <2> QED BY <1>3, <1>6, <2>1
<1> QED BY <1>4, <1>5, <1>6

\* What a step of an actor does to the count, and where it goes.
LEMMA StepMoves ==
    ASSUME Types, NEW a \in Actors, Step(a)
    PROVE  /\ \E where \in Places \ {"pop"} :
                 /\ pc' = [pc EXCEPT ![a] = where]
                 /\ nested' = nested + (IF where \in Section \cup {"mask"} THEN 1 ELSE 0)
                                     - (IF pc[a] \in Section \cup {"mask"} THEN 1 ELSE 0)
           /\ UNCHANGED <<now, op, cur, calls, busy, radio>>
           /\ masked' \subseteq Actors /\ resumed' \in BOOLEAN /\ woken' \in BOOLEAN
<1> USE DEF Types, Counts, Actions, At, Go, queueVars, halVars, lmicVars
<1>0. /\ Body(a) \in {"take", "unlink"}
      /\ After(a) \in {"check", "run", "idle", "resume"}
      /\ Home(a) \in {"run", "idle"}
      /\ nested \in Int
  BY WithinIsCounted DEF Body, After, Home
<1>1. UNCHANGED <<now, op, cur, calls, busy, radio>>
  BY DEF Step, Disable, Mask, Enable, Unmask, Unlink, Walk, Store, Resume, Wake
<1>2. masked' \subseteq Actors /\ resumed' \in BOOLEAN /\ woken' \in BOOLEAN
  BY DEF Step, Disable, Mask, Enable, Unmask, Unlink, Walk, Store, Resume, Wake
<1> DEFINE Moved(where) ==
      /\ pc' = [pc EXCEPT ![a] = where]
      /\ nested' = nested + (IF where \in Section \cup {"mask"} THEN 1 ELSE 0)
                          - (IF pc[a] \in Section \cup {"mask"} THEN 1 ELSE 0)
<1>3. \E where \in Places \ {"pop"} : Moved(where)
  <2>1. CASE Disable(a)
    <3> DEFINE where == IF nested = 0 THEN "mask" ELSE Body(a)
    <3>1. where \in Section \cup {"mask"} /\ where \in Places \ {"pop"}
      BY <1>0 DEF Section, Places
    <3>2. pc' = [pc EXCEPT ![a] = where] /\ nested' = nested + 1 /\ pc[a] = "disable"
      BY <2>1 DEF Disable
    <3> HIDE DEF where
    <3>3. Moved(where)
      BY <1>0, <3>1, <3>2 DEF Section
    <3> QED BY <3>1, <3>3
  <2>2. CASE Mask(a)
    <3>1. Moved(Body(a)) /\ Body(a) \in Places \ {"pop"}
      BY <1>0, <2>2 DEF Mask, Section, Places
    <3> QED BY <3>1
  <2>3. CASE Enable(a)
    <3> DEFINE where == IF nested = 1 THEN "unmask" ELSE After(a)
    <3>1. where \notin Section \cup {"mask"} /\ where \in Places \ {"pop"}
      BY <1>0 DEF Section, Places
    <3>2. pc' = [pc EXCEPT ![a] = where] /\ nested' = nested - 1 /\ pc[a] = "enable"
      BY <2>3 DEF Enable
    <3> HIDE DEF where
    <3>3. Moved(where)
      BY <1>0, <3>1, <3>2 DEF Section
    <3> QED BY <3>1, <3>3
  <2>4. CASE Unmask(a)
    <3>1. Moved(After(a)) /\ After(a) \in Places \ {"pop"}
      BY <1>0, <2>4 DEF Unmask, Section, Places
    <3> QED BY <3>1
  <2>5. CASE Unlink(a) \/ Walk(a) \/ Store(a)
    <3>1. PICK where \in {"enable", "walk", "store"} :
              pc' = [pc EXCEPT ![a] = where] /\ nested' = nested /\ pc[a] \in Section
      BY <2>5 DEF Unlink, Walk, Store, Section
    <3>2. Moved(where) /\ where \in Places \ {"pop"}
      BY <1>0, <3>1 DEF Section, Places
    <3> QED BY <3>2
  <2>6. CASE Resume(a) \/ Wake(a)
    <3>1. PICK where \in {"run", "idle", "wake"} :
              pc' = [pc EXCEPT ![a] = where] /\ nested' = nested /\ pc[a] \in {"resume", "wake"}
      BY <1>0, <2>6 DEF Resume, Wake
    <3>2. Moved(where) /\ where \in Places \ {"pop"}
      BY <1>0, <3>1 DEF Section, Places
    <3> QED BY <3>2
  <2> HIDE DEF Moved
  <2> QED BY <2>1, <2>2, <2>3, <2>4, <2>5, <2>6 DEF Step
<1> QED BY <1>1, <1>2, <1>3

LEMMA StepTypes ==
    ASSUME Types, NEW a \in Actors, Step(a)
    PROVE  Types'
<1>1. PICK where \in Places \ {"pop"} :
         /\ pc' = [pc EXCEPT ![a] = where]
         /\ nested' = nested + (IF where \in Section \cup {"mask"} THEN 1 ELSE 0)
                             - (IF pc[a] \in Section \cup {"mask"} THEN 1 ELSE 0)
  BY StepMoves
<1>2. Counts'
  BY <1>1, Moves, StepMoves DEF Types, Counts
<1>3. slot' \in [Actors -> Heads \cup Jobs] /\ link' \in [Heads \cup Jobs -> Jobs \cup {None}]
  <2> USE DEF Types, Queues, Actions
  <2>1. op[a].job \in Jobs
    BY DEF OpTypes
  <2>2. CASE Unlink(a)
    <3>1. DOMAIN link = Heads \cup Jobs
      OBVIOUS
    <3>2. \A c \in Heads \cup Jobs : link[c] \in Jobs \cup {None}
      OBVIOUS
    <3> DEFINE cell(c) == IF c # op[a].job
                          THEN IF link[c] = op[a].job THEN link[op[a].job] ELSE link[c]
                          ELSE IF op[a].kind = "clear" THEN link[c] ELSE None
    <3>3. \A c \in Heads \cup Jobs : cell(c) \in Jobs \cup {None}
      BY <2>1, <3>2
    <3>4. link' = [c \in Heads \cup Jobs |-> cell(c)] /\ slot' = slot
      BY <2>2, <3>1 DEF Unlink
    <3> HIDE DEF cell
    <3> QED BY <3>3, <3>4
  <2>3. CASE Walk(a)
    <3> DEFINE head == IF op[a].kind = "timed" THEN "scheduledjobs" ELSE "runnablejobs"
    <3>1. head \in Heads
      BY DEF Heads
    <3>2. PICK n \in DOMAIN CellAt(head) :
             /\ CellAt(head)[n] # None
             /\ slot' = [slot EXCEPT ![a] = CellAt(head)[n]]
             /\ link' = [link EXCEPT ![op[a].job] = link[CellAt(head)[n]]]
      BY <2>3 DEF Walk
    <3>3. CellAt(head)[n] \in Heads \cup Jobs
      BY <3>1, <3>2, CellsAreCells
    <3> HIDE DEF head
    <3> QED BY <2>1, <3>2, <3>3
  <2>4. CASE Store(a)
    BY <2>1, <2>4 DEF Store
  <2>5. CASE ~Unlink(a) /\ ~Walk(a) /\ ~Store(a)
    BY <2>5 DEF Step, Disable, Mask, Enable, Unmask, Resume, Wake, queueVars
  <2> QED BY <2>2, <2>3, <2>4, <2>5
<1>4. deadline' \in [Jobs -> 0 .. MaxTime] /\ wanted' \subseteq Jobs
  <2>1. op[a].job \in Jobs /\ op[a].time \in 0 .. MaxTime
    BY DEF Types, Actions, OpTypes
  <2>2. deadline' = deadline \/ deadline' = [deadline EXCEPT ![op[a].job] = op[a].time]
    BY DEF Step, Disable, Mask, Enable, Unmask, Unlink, Walk, Store, Resume, Wake, queueVars
  <2>3. wanted' \in {wanted, wanted \ {op[a].job}, wanted \cup {op[a].job}}
    BY DEF Step, Disable, Mask, Enable, Unmask, Unlink, Walk, Store, Resume, Wake, queueVars
  <2> QED BY <2>1, <2>2, <2>3 DEF Types, Queues
<1>5. Actions'
  <2>1. pc' \in [Actors -> Places] /\ op' = op /\ cur' = cur
    BY <1>1, StepMoves DEF Types, Actions
  <2>2. pc'[Loop] = "pop" => pc[Loop] = "pop"
    BY <1>1, ActorsAreFinite DEF Types, Actions
  <2> QED BY <1>3, <2>1, <2>2 DEF Types, Actions
<1> QED BY <1>2, <1>3, <1>4, <1>5 DEF Types, Queues

\* An actor begins a call from where it is at home.
LEMMA BeginTypes ==
    ASSUME Types, NEW a \in Actors, Begin(a)
    PROVE  Types' /\ UNCHANGED <<link, nested, masked, woken, cur>>
<1> USE DEF Types, At, Go, queueVars, halVars
<1>1. /\ pc[a] \in {"run", "idle"} /\ pc' = [pc EXCEPT ![a] = "disable"]
      /\ calls < MaxCalls /\ calls' = calls + 1
      /\ UNCHANGED <<queueVars, now, halVars, slot, cur>>
  BY DEF Begin, Home
<1>2. op' \in [Actors -> OpTypes]
  <2>1. PICK kind \in Calls[a], time \in 0 .. MaxTime :
           op' = [op EXCEPT ![a] = Call(kind, OsJob, IF kind = "timed" THEN time ELSE 0)]
    BY DEF Begin
  <2>2. kind \in Kinds /\ OsJob \in Jobs /\ 0 \in 0 .. MaxTime
    BY LmicSchedAssumption DEF Jobs
  <2>3. Call(kind, OsJob, IF kind = "timed" THEN time ELSE 0) \in OpTypes
    BY <2>2 DEF Call, OpTypes
  <2> QED BY <2>1, <2>3 DEF Actions
<1>3. Counts'
  <2>1. nested' = Cardinality(Within')
    <3>1. "disable" \in Places
      BY DEF Places
    <3>2. nested' = nested + 0 - 0 /\ "disable" \notin Section \cup {"mask"}
          /\ pc[a] \notin Section \cup {"mask"}
      BY <1>1, WithinIsCounted DEF Counts, Section
    <3> QED BY <1>1, <3>1, <3>2, Moves
  <2>2. calls' \in 0 .. MaxCalls
    BY <1>1, LmicSchedAssumption DEF Counts
  <2>3. busy' \in BOOLEAN /\ radio' \in BOOLEAN
    BY DEF Begin, Counts
  <2> QED BY <1>1, <2>1, <2>2, <2>3 DEF Counts
<1>4. Actions'
  <2>1. pc' \in [Actors -> Places]
    BY <1>1 DEF Actions, Places
  <2>2. pc'[Loop] = "pop" => pc[Loop] = "pop"
    BY <1>1, ActorsAreFinite DEF Actions
  <2> QED BY <1>1, <1>2, <2>1, <2>2 DEF Actions
<1> QED BY <1>1, <1>3, <1>4 DEF Queues

\* The steps of os_runloop.
LEMMA LoopTypes ==
    ASSUME Types, Take \/ Pop \/ Ran \/ Check \/ Sleep \/ Awake
    PROVE  Types'
<1> USE DEF Types, At, Go, queueVars, halVars, lmicVars
<1>0. Loop \in Actors /\ nested \in Int
  BY ActorsAreFinite, WithinIsCounted DEF Counts
<1> DEFINE Moved(where) ==
      pc' = [pc EXCEPT ![Loop] = where] /\ nested' = nested
      /\ (where \in Section \cup {"mask"} <=> pc[Loop] \in Section \cup {"mask"})
<1>1. \E where \in Places : Moved(where) /\ (where = "pop" => cur' \in Jobs)
  <2>1. CASE Take
    <3> DEFINE head == IF link["runnablejobs"] # None
                          \/ ~(link["scheduledjobs"] # None /\ deadline[link["scheduledjobs"]] <= now)
                       THEN "runnablejobs" ELSE "scheduledjobs"
               where == IF link[head] = None THEN "enable" ELSE "pop"
    <3>1. cur' = link[head] /\ pc' = [pc EXCEPT ![Loop] = where] /\ pc[Loop] = "take"
          /\ nested' = nested
      BY <2>1 DEF Take
    <3>2. head \in Heads
      BY DEF Heads
    <3> HIDE DEF head
    <3>3. link[head] \in Jobs \cup {None}
      BY <3>2 DEF Queues
    <3>4. where \in {"enable", "pop"} /\ (where = "pop" => cur' \in Jobs)
      BY <3>1, <3>3
    <3> HIDE DEF where
    <3>5. Moved(where) /\ where \in Places
      BY <3>1, <3>4 DEF Section, Places
    <3> QED BY <3>4, <3>5
  <2>2. CASE Pop
    <3>1. Moved("enable") /\ "enable" \in Places
      BY <2>2 DEF Pop, Section, Places
    <3> QED BY <3>1
  <2>3. CASE Ran \/ Awake
    <3>1. Moved("disable") /\ "disable" \in Places
      BY <2>3 DEF Ran, Awake, Again, Section, Places
    <3> QED BY <3>1
  <2>4. CASE Check
    <3>1. (Moved("disable") \/ Moved("sleep")) /\ "disable" \in Places /\ "sleep" \in Places
      BY <2>4 DEF Check, Again, Section, Places
    <3> QED BY <3>1
  <2>5. CASE Sleep
    <3>1. Moved("awake") /\ "awake" \in Places
      BY <2>5 DEF Sleep, Section, Places
    <3> QED BY <3>1
  <2> QED BY <2>1, <2>2, <2>3, <2>4, <2>5
<1>2. PICK where \in Places : Moved(where) /\ (where = "pop" => cur' \in Jobs)
  BY <1>1
<1>3. Counts'
  <2>1. nested' = Cardinality(Within')
    <3>1. nested' = nested + (IF where \in Section \cup {"mask"} THEN 1 ELSE 0)
                           - (IF pc[Loop] \in Section \cup {"mask"} THEN 1 ELSE 0)
      BY <1>0, <1>2
    <3> QED BY <1>0, <1>2, <3>1, Moves
  <2>2. UNCHANGED <<now, masked, calls, busy, radio>> /\ resumed' \in BOOLEAN /\ woken' \in BOOLEAN
    BY DEF Counts, Take, Pop, Ran, Check, Sleep, Awake
  <2> QED BY <2>1, <2>2 DEF Counts
<1>4. op' \in [Actors -> OpTypes] /\ cur' \in Jobs \cup {None} /\ slot' \in [Actors -> Heads \cup Jobs]
  <2>1. Call("loop", InitJob, 0) \in OpTypes
    BY LmicSchedAssumption DEF Call, OpTypes, Jobs
  <2>2. CASE Take
    <3>1. \E h \in Heads : cur' = link[h] /\ slot' = [slot EXCEPT ![Loop] = h] /\ op' = op
      BY <2>2 DEF Take, Heads
    <3> QED BY <3>1 DEF Queues, Actions
  <2>3. CASE ~Take
    BY <2>1, <2>3 DEF Actions, Pop, Ran, Check, Sleep, Awake, Again
  <2> QED BY <2>2, <2>3
<1>5. Actions'
  BY <1>0, <1>2, <1>4 DEF Actions
<1>6. Queues'
  <2>1. CASE Pop
    BY <1>0, <2>1 DEF Pop, Queues, Actions
  <2>2. CASE ~Pop
    BY <2>2 DEF Queues, Take, Ran, Check, Sleep, Awake
  <2> QED BY <2>1, <2>2
<1> QED BY <1>3, <1>5, <1>6

LEMMA TypesStep == Types /\ [Next]_vars => Types'
<1> SUFFICES ASSUME Types, [Next]_vars PROVE Types'
  OBVIOUS
<1>1. CASE RadioOn \/ Report \/ Tick
  <2>1. UNCHANGED <<queueVars, halVars, pc, op, slot, cur, calls>>
    BY <1>1 DEF RadioOn, Report, Tick, lmicVars
  <2>2. busy' \in BOOLEAN /\ radio' \in BOOLEAN
    BY <1>1 DEF RadioOn, Report, Tick, lmicVars, Types, Counts
  <2>3. now' \in 0 .. MaxTime
    BY <1>1, LmicSchedAssumption DEF RadioOn, Report, Tick, Types, Counts
  <2> QED BY <2>1, <2>2, <2>3 DEF Types, Queues, Actions, Counts, Within, queueVars, halVars
<1>2. CASE UNCHANGED vars
  BY <1>2 DEF vars, Types, Queues, Actions, Counts, Within
<1> QED BY <1>1, <1>2, ActorsAreFinite, BeginTypes, StepTypes, LoopTypes DEF Next, LoopStep, Actors

LEMMA InitTypes == Init => Types
<1> SUFFICES ASSUME Init PROVE Types
  OBVIOUS
<1>1. Within = {}
  BY DEF Init, Within, Section
<1>2. Counts
  <2>1. nested = Cardinality(Within)
    BY <1>1, FS_EmptySet DEF Init
  <2>2. now \in 0 .. MaxTime /\ calls \in 0 .. MaxCalls
    BY LmicSchedAssumption DEF Init
  <2>3. masked = {} /\ resumed \in BOOLEAN /\ woken \in BOOLEAN /\ busy \in BOOLEAN /\ radio \in BOOLEAN
    BY DEF Init
  <2> QED BY <2>1, <2>2, <2>3 DEF Counts
<1>3. Queues
  BY LmicSchedAssumption DEF Init, Queues
<1>4. Actions
  <2>1. op \in [Actors -> OpTypes]
    <3>1. \A a \in Actors : Call(IF a = Loop THEN "loop" ELSE "set", InitJob, 0) \in OpTypes
      BY LmicSchedAssumption DEF Call, OpTypes, Kinds, Jobs
    <3> QED BY <3>1 DEF Init
  <2>2. pc \in [Actors -> Places] /\ pc[Loop] = "disable"
    BY ActorsAreFinite DEF Init, Places
  <2> QED BY <2>1, <2>2 DEF Init, Actions, Heads
<1> QED BY <1>2, <1>3, <1>4 DEF Types

LEMMA TypesInvariance == Spec => []Types
  BY InitTypes, TypesStep, PTL DEF Spec

\* The queues, deadlines and places of the actors keep their types, and nested is
\* the number of actors between hal_disableIRQs and hal_enableIRQs, whatever cores
\* and priorities they have: the count never goes below zero.
THEOREM LmicTypes == Spec => []TypeOK
  BY TypesInvariance, TypesOK, PTL

(***************************************************************************)
(* One core: who runs is alone with the queues                             *)
(***************************************************************************)
\* A build for one core: besides os_runloop there are the caller of the library,
\* which has a lower priority and waits for the end of what it began, and the
\* handler of the DIO lines, which comes before both.
OneCore(dio) ==
    /\ Others = {Setup, dio} /\ dio # Setup
    /\ \A a, b \in Actors : Core[a] = Core[b]
    /\ Priority \in [Actors -> Int]
    /\ Priority[Setup] < Priority[Loop] /\ Priority[Loop] < Priority[dio]
    /\ Waits

Counted(a) == pc[a] \in Section \cup {"mask"}

\* Interrupts are disabled in a section, and until hal_enableIRQs returns.
MaskedInside ==
    \A a \in Actors : /\ a \in masked => pc[a] \in Section \cup {"unmask"}
                      /\ pc[a] = "unmask" => a \in masked

\* Only the handler enters a section without it: when it finds nested above zero,
\* which the run loop has counted up and has not acted upon.
Unmasked(dio) ==
    /\ \A a \in {Setup, Loop} : pc[a] \in Section => a \in masked
    /\ pc[dio] \in Section /\ dio \notin masked => pc[Loop] = "mask"
    /\ pc[dio] = "mask" => ~Counted(Loop) /\ ~Counted(Setup)

\* Who has disabled the interrupts has counted nested up alone.
MaskedAlone == \A a \in masked, b \in Actors : b # a => ~Counted(b)

\* The caller disables them while the radio is off and the run loop asleep, or in
\* the round that finds no job.
Quiet(dio) ==
    /\ ~busy => ~radio
    /\ pc[Setup] \in {"disable", "mask"} =>
         /\ ~radio /\ pc[dio] = "idle" /\ ~woken
         /\ \/ pc[Loop] = "sleep"
            \/ /\ pc[Setup] = "disable"
               /\ pc[Loop] \in {"disable", "mask", "take", "enable", "unmask", "check"}
               /\ op[Loop].kind = "loop" /\ cur = None /\ \A h \in Heads : link[h] = None

\* Only the run loop sleeps, and it never ends.
Sleeps == \A a \in Actors : /\ pc[a] = "sleep" => a = Loop
                            /\ pc[a] = "idle" => a # Loop

Alone(dio) ==
    MaskedInside /\ Unmasked(dio) /\ MaskedAlone /\ Quiet(dio) /\ Sleeps

LEMMA AloneExcludes ==
    ASSUME NEW dio, OneCore(dio), Alone(dio)
    PROVE  SectionsAreExclusive /\ InterruptsComeBack
<1>1. Actors = {Setup, dio, Loop}
  BY DEF OneCore, Actors
<1>2. InterruptsComeBack
  BY DEF Alone, MaskedInside, InterruptsComeBack, Section
<1>3. ASSUME NEW a \in Actors, NEW b \in Actors, Inside(a), Inside(b), a # b PROVE FALSE
  <2>1. pc[a] \in Section /\ pc[b] \in Section /\ Counted(a) /\ Counted(b)
    BY <1>3 DEF Inside, Section, Counted
  <2>2. a \notin masked /\ b \notin masked
    BY <1>3, <2>1 DEF Alone, MaskedAlone
  <2> QED BY <1>1, <1>3, <2>1, <2>2 DEF Alone, Unmasked
<1> QED BY <1>2, <1>3 DEF SectionsAreExclusive

\* nested as the actors see it.
LEMMA NestedCounts ==
    ASSUME Types, NEW a \in Actors
    PROVE  /\ nested = 0 <=> \A b \in Actors : ~Counted(b)
           /\ Counted(a) => (nested = 1 <=> \A b \in Actors : b # a => ~Counted(b))
<1>1. IsFiniteSet(Within) /\ Cardinality(Within) \in Nat /\ nested = Cardinality(Within)
  BY WithinIsCounted DEF Types, Counts
<1>2. nested = 0 <=> Within = {}
  BY <1>1, FS_EmptySet
<1>3. ASSUME Counted(a) PROVE nested = 1 <=> Within = {a}
  <2>1. a \in Within
    BY <1>3 DEF Within, Counted
  <2>2. IsFiniteSet(Within \ {a}) /\ Cardinality(Within \ {a}) = Cardinality(Within) - 1
    BY <1>1, <2>1, FS_RemoveElement
  <2>3. Cardinality(Within \ {a}) = 0 <=> Within \ {a} = {}
    BY <2>2, FS_EmptySet
  <2> QED BY <1>1, <2>1, <2>2, <2>3
<1> QED BY <1>2, <1>3 DEF Within, Counted

\* On one core who runs has no one ready above it, and no one that has disabled
\* its interrupts.
LEMMA Runs ==
    ASSUME NEW dio, OneCore(dio), Types, Alone(dio), NEW a \in Actors, MayRun(a)
    PROVE  /\ Actors = {Setup, dio, Loop} /\ Setup # dio /\ Setup # Loop /\ dio # Loop
           /\ \A b \in Actors : b # a => b \notin masked
           /\ a # dio => pc[dio] = "idle"
           /\ a = Setup => pc[Loop] = "sleep" /\ ~woken
           /\ a = Loop => ~Counted(Setup) \/ pc[Loop] = "sleep"
<1>1. Actors = {Setup, dio, Loop} /\ Setup # dio /\ Setup # Loop /\ dio # Loop
  BY LmicSchedAssumption DEF OneCore, Actors
<1>2. \A b \in Actors : b # a /\ Ready(b) => b \notin masked /\ Priority[b] <= Priority[a]
  BY <1>1 DEF MayRun, OneCore
<1>3. \A b \in Actors : b # a => b \notin masked
  BY <1>2 DEF Alone, MaskedInside, Ready, Section
<1>4. a # dio => pc[dio] = "idle"
  BY <1>1, <1>2 DEF OneCore, Alone, Sleeps, Ready
<1>5. a = Setup => pc[Loop] = "sleep" /\ ~woken
  BY <1>1, <1>2 DEF OneCore, Alone, Sleeps, Ready
<1>6. a = Loop => ~Counted(Setup) \/ pc[Loop] = "sleep"
  BY <1>1, <1>3 DEF Alone, Unmasked, Quiet, Counted
<1> QED BY <1>1, <1>3, <1>4, <1>5, <1>6

\* hal_disableIRQs: nested is zero but for the handler that has stopped the run loop
\* between counting and disabling.
LEMMA DisableAlone ==
    ASSUME NEW dio, OneCore(dio), Types, Alone(dio), NEW a \in Actors, Disable(a) \/ Mask(a)
    PROVE  Alone(dio)'
<1> USE DEF Types, Actions, Counted
<1>1. MayRun(a) /\ pc[a] \in {"disable", "mask"}
  BY DEF Disable, Mask, At
<1>2. /\ Actors = {Setup, dio, Loop} /\ Setup # dio /\ Setup # Loop /\ dio # Loop
      /\ \A b \in Actors : b # a => b \notin masked
      /\ (a # dio => pc[dio] = "idle")
      /\ (a = Setup => pc[Loop] = "sleep" /\ ~woken)
      /\ (a = Loop => ~Counted(Setup) \/ pc[Loop] = "sleep")
  BY <1>1, Runs
<1>3. Body(a) \in {"take", "unlink"} /\ (op[a].kind = "loop" => Body(a) = "take")
  BY DEF Body
<1>4. a \notin masked /\ masked = {}
  BY <1>1, <1>2 DEF Alone, MaskedInside, Section, Counts
<1>5. /\ UNCHANGED <<link, op, cur, woken, busy, radio>>
      /\ \A b \in Actors : b # a => pc'[b] = pc[b]
  BY DEF Disable, Mask, Go, queueVars, halVars, lmicVars
<1>6. CASE Disable(a)
  <2>1. /\ masked' = masked /\ pc[a] = "disable"
        /\ pc'[a] = IF nested = 0 THEN "mask" ELSE Body(a)
    BY <1>6 DEF Disable, At, Go
  <2>2. a # dio => nested = 0
    BY <1>1, <1>2, <1>4, <2>1, NestedCounts DEF Alone, Unmasked, Section
  <2>3. a = dio /\ nested # 0 => pc[Loop] = "mask"
    BY <1>1, <1>2, <1>4, <2>1, NestedCounts DEF Alone, Unmasked, Quiet, Section
  <2>4. nested = 0 => \A b \in Actors : ~Counted(b)
    BY NestedCounts
  <2>5. MaskedInside' /\ MaskedAlone'
    BY <1>2, <1>3, <1>4, <1>5, <2>1 DEF Alone, MaskedInside, MaskedAlone, Section
  <2>6. Unmasked(dio)'
    BY <1>2, <1>3, <1>4, <1>5, <2>1, <2>2, <2>3, <2>4 DEF Alone, Unmasked, Section
  <2>7. Quiet(dio)'
    BY <1>2, <1>3, <1>5, <2>1, <2>2 DEF Alone, Quiet
  <2>8. Sleeps'
    BY <1>2, <1>3, <1>5, <2>1 DEF Alone, Sleeps
  <2> QED BY <2>5, <2>6, <2>7, <2>8 DEF Alone
<1>7. CASE Mask(a)
  <2>1. masked' = {a} /\ pc[a] = "mask" /\ pc'[a] = Body(a)
    BY <1>4, <1>7 DEF Mask, At, Go
  <2>2. \A b \in Actors : b # a => ~Counted(b)
    BY <1>2, <1>4, <2>1 DEF Alone, Unmasked, Section
  <2>3. MaskedInside'
    BY <1>2, <1>3, <1>4, <1>5, <2>1, <2>2 DEF Alone, MaskedInside, Section
  <2>4. MaskedAlone'
    BY <1>2, <1>3, <1>5, <2>1, <2>2 DEF MaskedAlone, Section
  <2>5. Unmasked(dio)'
    BY <1>2, <1>3, <1>5, <2>1, <2>2 DEF Alone, Unmasked, Section
  <2>6. Quiet(dio)'
    BY <1>2, <1>3, <1>5, <2>1 DEF Alone, Quiet
  <2>7. Sleeps'
    BY <1>2, <1>3, <1>5, <2>1 DEF Alone, Sleeps
  <2> QED BY <2>3, <2>4, <2>5, <2>6, <2>7 DEF Alone
<1> QED BY <1>6, <1>7

\* hal_enableIRQs: whoever has disabled its interrupts counts nested down to zero.
LEMMA EnableAlone ==
    ASSUME NEW dio, OneCore(dio), Types, Alone(dio), NEW a \in Actors, Enable(a) \/ Unmask(a)
    PROVE  Alone(dio)'
<1> USE DEF Types, Actions, Counted
<1>1. MayRun(a) /\ pc[a] \in {"enable", "unmask"}
  BY DEF Enable, Unmask, At
<1>2. /\ Actors = {Setup, dio, Loop} /\ Setup # dio /\ Setup # Loop /\ dio # Loop
      /\ \A b \in Actors : b # a => b \notin masked
      /\ (a # dio => pc[dio] = "idle")
      /\ (a = Setup => pc[Loop] = "sleep" /\ ~woken)
      /\ (a = Loop => ~Counted(Setup) \/ pc[Loop] = "sleep")
  BY <1>1, Runs
<1>3. /\ After(a) \in {"check", "run", "resume", "idle"}
      /\ (a = Loop => After(a) # "idle")
      /\ (op[a].kind = "loop" /\ cur = None => After(a) = "check")
  BY DEF After, Home
<1>5. /\ UNCHANGED <<link, op, cur, woken, busy, radio>>
      /\ \A b \in Actors : b # a => pc'[b] = pc[b]
  BY DEF Enable, Unmask, Go, queueVars, halVars, lmicVars
<1>6. CASE Enable(a)
  <2>1. /\ masked' = masked /\ pc[a] = "enable"
        /\ pc'[a] = IF nested = 1 THEN "unmask" ELSE After(a)
    BY <1>6 DEF Enable, At, Go
  <2>2. nested = 1 <=> a \in masked
    <3>1. CASE a \in masked
      BY <2>1, <3>1, NestedCounts DEF Alone, MaskedAlone, Section
    <3>2. CASE a \notin masked
      <4>1. a = dio /\ pc[Loop] = "mask"
        BY <1>2, <2>1, <3>2 DEF Alone, Unmasked, Section
      <4> QED BY <1>2, <2>1, <3>2, <4>1, NestedCounts DEF Section
    <3> QED BY <3>1, <3>2
  <2>3. MaskedInside'
    BY <1>2, <1>3, <1>5, <2>1, <2>2 DEF Alone, MaskedInside, Section
  <2>4. MaskedAlone'
    BY <1>2, <1>3, <1>5, <2>1, <2>2 DEF Alone, MaskedAlone, Section
  <2>5. Unmasked(dio)'
    BY <1>2, <1>3, <1>5, <2>1, <2>2 DEF Alone, Unmasked, Section
  <2>6. Quiet(dio)'
    <3>1. a = Loop => a \in masked
      BY <2>1 DEF Alone, Unmasked, Section
    <3> QED BY <1>2, <1>3, <1>5, <2>1, <2>2, <3>1 DEF Alone, Quiet
  <2>7. Sleeps'
    BY <1>2, <1>3, <1>5, <2>1 DEF Alone, Sleeps
  <2> QED BY <2>3, <2>4, <2>5, <2>6, <2>7 DEF Alone
<1>7. CASE Unmask(a)
  <2>1. masked' = masked \ {a} /\ pc[a] = "unmask" /\ pc'[a] = After(a)
    BY <1>7 DEF Unmask, At, Go
  <2>2. masked' = {}
    BY <1>2, <2>1 DEF Counts
  <2>3. MaskedInside'
    BY <1>2, <1>3, <1>5, <2>1, <2>2 DEF Alone, MaskedInside, Section
  <2>4. MaskedAlone'
    BY <2>2 DEF MaskedAlone
  <2>5. Unmasked(dio)'
    <3>1. \A b \in Actors : b # a => ~Counted(b)
      BY <2>1 DEF Alone, MaskedInside, MaskedAlone
    <3> QED BY <1>2, <1>3, <1>5, <2>1, <2>2, <3>1 DEF Alone, Unmasked, Section
  <2>6. Quiet(dio)'
    BY <1>2, <1>3, <1>5, <2>1 DEF Alone, Quiet
  <2>7. Sleeps'
    BY <1>2, <1>3, <1>5, <2>1 DEF Alone, Sleeps
  <2> QED BY <2>3, <2>4, <2>5, <2>6, <2>7 DEF Alone
<1> QED BY <1>6, <1>7

\* The other steps of an actor, among them those on the queues.
LEMMA QueueAlone ==
    ASSUME NEW dio, OneCore(dio), Types, Alone(dio), NEW a \in Actors,
           Unlink(a) \/ Walk(a) \/ Store(a) \/ Resume(a) \/ Wake(a)
    PROVE  Alone(dio)'
<1> USE DEF Types, Actions, Counted, queueVars, halVars, lmicVars
<1>1. MayRun(a) /\ pc[a] \in {"unlink", "walk", "store", "resume", "wake"}
  BY DEF Unlink, Walk, Store, Resume, Wake, At
<1>2. /\ Actors = {Setup, dio, Loop} /\ Setup # dio /\ Setup # Loop /\ dio # Loop
      /\ (a = Setup => pc[Loop] = "sleep" /\ ~woken)
  BY <1>1, Runs
<1>3. /\ UNCHANGED <<masked, op, cur, busy, radio>>
      /\ \A b \in Actors : b # a => pc'[b] = pc[b]
      /\ pc'[a] \in {"walk", "store", "enable", "wake", "run", "idle"}
      /\ (pc'[a] \in {"walk", "store", "enable"} <=> pc[a] \in {"unlink", "walk", "store"})
      /\ (pc'[a] = "idle" => a # Loop)
  BY DEF Unlink, Walk, Store, Resume, Wake, At, Go, Home
<1>4. MaskedInside' /\ MaskedAlone'
  BY <1>1, <1>3 DEF Alone, MaskedInside, MaskedAlone, Section
<1>5. Unmasked(dio)'
  BY <1>1, <1>2, <1>3 DEF Alone, Unmasked, Section
<1>6. Quiet(dio)'
  <2>1. pc[Setup] \notin {"disable", "mask"}
    BY <1>1, <1>2 DEF Alone, Quiet
  <2>2. pc'[Setup] \notin {"disable", "mask"}
    BY <1>2, <1>3, <2>1
  <2> QED BY <1>3, <2>2 DEF Alone, Quiet
<1>7. Sleeps'
  BY <1>3 DEF Alone, Sleeps
<1> QED BY <1>4, <1>5, <1>6, <1>7 DEF Alone

LEMMA BeginAlone ==
    ASSUME NEW dio, OneCore(dio), Types, Alone(dio), NEW a \in Actors, Begin(a)
    PROVE  Alone(dio)'
<1> USE DEF Types, Actions, Counted
<1>1. MayRun(a) /\ pc[a] = Home(a) /\ Home(a) = IF a = Loop THEN "run" ELSE "idle"
  BY DEF Begin, At, Home
<1>2. /\ Actors = {Setup, dio, Loop} /\ Setup # dio /\ Setup # Loop /\ dio # Loop
      /\ (a # dio => pc[dio] = "idle")
      /\ (a = Setup => pc[Loop] = "sleep" /\ ~woken)
  BY <1>1, Runs
<1>3. /\ UNCHANGED <<link, masked, cur, woken>>
      /\ \A b \in Actors : b # a => pc'[b] = pc[b] /\ op'[b] = op[b]
      /\ pc'[a] = "disable"
      /\ busy' = (busy \/ a = Setup) /\ radio' = (radio /\ a \in {Setup, Loop})
      /\ MayCall(a)
  BY DEF Begin, At, Go, queueVars, halVars
<1>4. /\ (a = Setup => ~busy)
      /\ (a = Loop => busy)
      /\ (a = dio => radio)
  BY <1>2, <1>3 DEF MayCall, OneCore
<1>5. MaskedInside' /\ MaskedAlone'
  BY <1>1, <1>3 DEF Alone, MaskedInside, MaskedAlone, Section
<1>6. Unmasked(dio)'
  BY <1>1, <1>2, <1>3 DEF Alone, Unmasked, Section
<1>7. Quiet(dio)'
  <2>1. CASE a = Setup
    BY <1>2, <1>3, <1>4, <2>1 DEF Alone, Quiet
  <2>2. CASE a = Loop
    <3>1. pc[Setup] \notin {"disable", "mask"}
      BY <1>1, <2>2 DEF Alone, Quiet
    <3> QED BY <1>2, <1>3, <1>4, <2>2, <3>1 DEF Alone, Quiet
  <2>3. CASE a = dio
    BY <1>2, <1>3, <1>4, <2>3 DEF Alone, Quiet
  <2> QED BY <1>2, <2>1, <2>2, <2>3
<1>8. Sleeps'
  BY <1>3 DEF Alone, Sleeps
<1> QED BY <1>5, <1>6, <1>7, <1>8 DEF Alone

LEMMA LoopAlone ==
    ASSUME NEW dio, OneCore(dio), Types, Alone(dio),
           Take \/ Pop \/ Ran \/ Check \/ Sleep \/ Awake
    PROVE  Alone(dio)'
<1> USE DEF Types, Actions, Counted, queueVars, halVars, lmicVars
<1>1. MayRun(Loop) /\ pc[Loop] \in {"take", "pop", "run", "check", "sleep", "awake"}
  BY DEF Take, Pop, Ran, Check, Sleep, Awake, At
<1>2. Actors = {Setup, dio, Loop} /\ Setup # dio /\ Setup # Loop /\ dio # Loop
  BY <1>1, ActorsAreFinite, Runs
<1>3. /\ UNCHANGED <<masked, busy, radio>>
      /\ \A b \in Actors : b # Loop => pc'[b] = pc[b]
      /\ (pc[Loop] \in {"take", "pop"} <=> pc'[Loop] \in {"pop", "enable"})
      /\ pc'[Loop] \in {"pop", "enable", "disable", "sleep", "awake"}
  BY <1>2 DEF Take, Pop, Ran, Check, Sleep, Awake, At, Go, Again
<1>4. MaskedInside' /\ MaskedAlone'
  BY <1>1, <1>2, <1>3 DEF Alone, MaskedInside, MaskedAlone, Section
<1>5. Unmasked(dio)'
  BY <1>1, <1>2, <1>3 DEF Alone, Unmasked, Section
<1>6. Quiet(dio)'
  <2>1. CASE pc[Setup] \notin {"disable", "mask"}
    BY <1>2, <1>3, <2>1 DEF Alone, Quiet
  <2>2. CASE pc[Setup] \in {"disable", "mask"} /\ Take
    BY <1>2, <1>3, <2>2 DEF Alone, Quiet, Take, At, Go, Heads
  <2>3. CASE pc[Setup] \in {"disable", "mask"} /\ Check
    BY <1>2, <1>3, <2>3 DEF Alone, Quiet, Check, At, Go, Heads
  <2>4. CASE pc[Setup] \in {"disable", "mask"} /\ (Pop \/ Ran \/ Sleep \/ Awake)
    BY <2>4 DEF Alone, Quiet, Pop, Ran, Sleep, Awake, At
  <2> QED BY <2>1, <2>2, <2>3, <2>4
<1>7. Sleeps'
  BY <1>2, <1>3 DEF Alone, Sleeps
<1> QED BY <1>4, <1>5, <1>6, <1>7 DEF Alone

LEMMA AloneStep ==
    ASSUME NEW dio, OneCore(dio), Types, Alone(dio), [Next]_vars
    PROVE  Alone(dio)'
<1>1. CASE RadioOn
  <2>1. UNCHANGED <<link, masked, woken, pc, op, cur, busy>> /\ pc[Loop] = "run" /\ busy
    BY <1>1 DEF RadioOn, At, queueVars, halVars
  <2> QED BY <2>1 DEF Alone, MaskedInside, Unmasked, MaskedAlone, Quiet, Sleeps, Counted
<1>2. CASE Report
  <2>1. UNCHANGED <<link, masked, woken, pc, op, cur, radio>> /\ pc[Loop] = "run" /\ ~radio
    BY <1>2 DEF Report, At, queueVars, halVars
  <2> QED BY <2>1 DEF Alone, MaskedInside, Unmasked, MaskedAlone, Quiet, Sleeps, Counted
<1>3. CASE Tick \/ UNCHANGED vars
  <2>1. UNCHANGED <<link, masked, woken, pc, op, cur, radio, busy>>
    BY <1>3 DEF Tick, vars, queueVars, halVars, lmicVars
  <2> QED BY <2>1 DEF Alone, MaskedInside, Unmasked, MaskedAlone, Quiet, Sleeps, Counted
<1>4. ASSUME NEW a \in Actors, Step(a) PROVE Alone(dio)'
  BY <1>4, DisableAlone, EnableAlone, QueueAlone DEF Step
<1> QED BY <1>1, <1>2, <1>3, <1>4, BeginAlone, LoopAlone, ActorsAreFinite DEF Next, LoopStep, Actors

LEMMA InitAlone ==
    ASSUME NEW dio, OneCore(dio), Init
    PROVE  Alone(dio)
<1>1. Actors = {Setup, dio, Loop} /\ Setup # dio /\ Setup # Loop /\ dio # Loop
  BY LmicSchedAssumption DEF OneCore, Actors
<1>2. /\ masked = {} /\ pc[Setup] = "disable" /\ pc[Loop] = "disable" /\ pc[dio] = "idle"
      /\ busy = TRUE /\ radio = FALSE /\ woken = FALSE /\ cur = None
      /\ op[Loop].kind = "loop" /\ \A h \in Heads : link[h] = None
  BY <1>1 DEF Init, Call
<1> QED BY <1>1, <1>2 DEF Alone, MaskedInside, Unmasked, MaskedAlone, Quiet, Sleeps, Counted,
        Section

LEMMA AloneInvariance ==
    ASSUME NEW CONSTANT dio, OneCore(dio)
    PROVE  Spec => [](SectionsAreExclusive /\ InterruptsComeBack)
<1>1. Init => Alone(dio)
  BY InitAlone
<1>2. Types /\ Alone(dio) /\ [Next]_vars => Alone(dio)'
  BY AloneStep
<1>3. Alone(dio) => SectionsAreExclusive /\ InterruptsComeBack
  BY AloneExcludes
<1> QED BY <1>1, <1>2, <1>3, TypesInvariance, PTL DEF Spec

\* On one core an actor between hal_disableIRQs and hal_enableIRQs is alone with the
\* queues, although the handler that stops the run loop before it has disabled its
\* interrupts does not disable its own: the run loop is not in its section yet.
THEOREM SectionsExclude == (\E dio \in Others : OneCore(dio)) => (Spec => []SectionsAreExclusive)
<1> SUFFICES ASSUME NEW dio \in Others, OneCore(dio) PROVE Spec => []SectionsAreExclusive
  OBVIOUS
<1> QED BY AloneInvariance, PTL

\* On one core everyone who has left hal_enableIRQs has its interrupts back.
THEOREM InterruptsReturn == (\E dio \in Others : OneCore(dio)) => (Spec => []InterruptsComeBack)
<1> SUFFICES ASSUME NEW dio \in Others, OneCore(dio) PROVE Spec => []InterruptsComeBack
  OBVIOUS
<1> QED BY AloneInvariance, PTL

(***************************************************************************)
(* Who is alone with the queues keeps them                                 *)
(***************************************************************************)
\* The cells that are in use: the heads, and next of the jobs that were set.
Cell == Heads \cup wanted

\* The links of these cells make two lists of the jobs that were set.
Lists ==
    /\ \A c \in Cell : link[c] \in wanted \cup {None}
    /\ \A c, d \in Cell : link[c] = link[d] /\ link[c] # None => c = d
    /\ \A j \in wanted : \E h \in Heads :
          link[h] = j \/ (link[h] \in wanted /\ link[link[h]] = j)

\* What an actor has found in the queues is still so.
Found ==
    /\ \A a \in Actors :
          /\ pc[a] \in {"walk", "store"} => op[a].job \notin wanted
          /\ pc[a] = "store" => slot[a] \in Cell /\ link[op[a].job] = link[slot[a]]
    /\ pc[Loop] = "pop" => slot[Loop] \in Heads /\ cur = link[slot[Loop]] /\ cur \in wanted

Kept == Lists /\ Found

LEMMA TwoJobs ==
    ASSUME NEW j \in Jobs
    PROVE  \E k \in Jobs : Jobs = {j, k} /\ j # k
  BY LmicSchedAssumption DEF Jobs

LEMMA HeadsAreNoJobs ==
    /\ Heads = {"runnablejobs", "scheduledjobs"} /\ "runnablejobs" # "scheduledjobs"
    /\ \A h \in Heads : h \notin Jobs /\ h # None
    /\ \A j \in Jobs : j # None
  BY LmicSchedAssumption DEF Heads

LEMMA KeptJobs ==
    ASSUME Types, Lists
    PROVE  JobsAreKept
<1> USE DEF Types, Queues, Lists, Cell
<1>1. ASSUME NEW h \in Heads
      PROVE  Cells(h) = {h, link[h], IF link[h] = None THEN None ELSE link[link[h]]} \ {None}
  <2>1. \A n \in DOMAIN CellAt(h) : n \in {0, 1, 2}
    BY WalkedCells
  <2>2. 0 \in DOMAIN CellAt(h) /\ 1 \in DOMAIN CellAt(h) /\ 2 \in DOMAIN CellAt(h)
    BY WalkedCells
  <2> QED BY <2>1, <2>2, WalkedCells, HeadsAreNoJobs DEF Cells
<1>2. {j \in Jobs : Queued(j)} = wanted
  <2>1. ASSUME NEW j \in Jobs, Queued(j) PROVE j \in wanted
    <3>1. PICK h \in Heads : j \in Cells(h)
      BY <2>1 DEF Queued
    <3>2. j # None /\ j # h /\ h \in Cell
      BY HeadsAreNoJobs
    <3>3. j = link[h] \/ (link[h] # None /\ j = link[link[h]])
      BY <1>1, <3>1, <3>2
    <3>4. link[h] \in wanted \cup {None}
      BY <3>2
    <3>5. link[h] \in wanted => link[link[h]] \in wanted \cup {None}
      OBVIOUS
    <3> QED BY <3>2, <3>3, <3>4, <3>5
  <2>2. ASSUME NEW j \in wanted PROVE j \in Jobs /\ Queued(j)
    <3>1. PICK h \in Heads : link[h] = j \/ (link[h] \in wanted /\ link[link[h]] = j)
      BY DEF Lists
    <3>2. j \in Jobs /\ link[h] # None /\ j # None
      BY <3>1, HeadsAreNoJobs
    <3>3. j \in Cells(h)
      BY <1>1, <3>1, <3>2
    <3> QED BY <3>2, <3>3 DEF Queued
  <2> QED BY <2>1, <2>2
<1>3. ASSUME NEW c \in Cells("runnablejobs"), c \in Cells("scheduledjobs") PROVE FALSE
  <2> DEFINE r == "runnablejobs"
             s == "scheduledjobs"
  <2>1. r \in Heads /\ s \in Heads /\ r # s /\ c # None
    BY <1>1, <1>3, HeadsAreNoJobs
  <2>2. \A h \in Heads : h \notin wanted
    BY HeadsAreNoJobs
  <2>3. /\ c = r \/ c = link[r] \/ (link[r] # None /\ c = link[link[r]])
        /\ c = s \/ c = link[s] \/ (link[s] # None /\ c = link[link[s]])
    BY <1>1, <1>3, <2>1
  <2>4. c # r /\ c # s
    BY <2>1, <2>2, <2>3
  <2>5. c \in wanted /\ link[r] \in wanted \cup {None} /\ link[s] \in wanted \cup {None}
    BY <2>1, <2>3, <2>4
  <2> QED BY <2>1, <2>2, <2>3, <2>4, <2>5
<1> QED BY <1>2, <1>3 DEF JobsAreKept

\* A job that is in a list has one cell before it, and is not its own next.
LEMMA OneBefore ==
    ASSUME Types, Lists, NEW j \in wanted
    PROVE  /\ link[j] # j
           /\ \E p \in Cell : p # j /\ link[p] = j /\ \A c \in Cell : link[c] = j => c = p
<1> USE DEF Types, Queues, Cell
<1>1. PICK h \in Heads : link[h] = j \/ (link[h] \in wanted /\ link[link[h]] = j)
  BY DEF Lists
<1>2. j # None /\ j \in Jobs /\ h \notin wanted
  BY HeadsAreNoJobs
<1>3. \A c, d \in Cell : link[c] = j /\ link[d] = j => c = d
  BY <1>2 DEF Lists
<1>4. link[j] # j
  <2>1. CASE link[h] = j
    BY <1>2, <1>3, <2>1
  <2>2. CASE link[h] \in wanted /\ link[link[h]] = j
    BY <1>2, <1>3, <2>2
  <2> QED BY <1>1, <2>1, <2>2
<1>5. \E p \in Cell : link[p] = j
  BY <1>1
<1> QED BY <1>3, <1>4, <1>5

\* To unlink a job: what was before it leads to what was after it.
LEMMA Unlinked ==
    ASSUME Types, Lists, NEW j \in Jobs, wanted' = wanted \ {j},
           \A c \in Cell \ {j} : link'[c] = IF link[c] = j THEN link[j] ELSE link[c]
    PROVE  Lists'
<1> USE DEF Types, Queues, Cell
<1>0. PICK k \in Jobs : Jobs = {j, k} /\ j # k
  BY TwoJobs
<1>1. Cell' = Cell \ {j} /\ j # None
  BY HeadsAreNoJobs
<1>2. CASE j \notin wanted
  <2>1. wanted' = wanted /\ Cell' = Cell
    BY <1>1, <1>2, HeadsAreNoJobs
  <2>2. \A c \in Cell : link'[c] = link[c]
    BY <1>1, <1>2, <2>1 DEF Lists
  <2> QED BY <2>1, <2>2 DEF Lists
<1>3. CASE j \in wanted
  <2>1. PICK p \in Cell : p # j /\ link[p] = j /\ \A c \in Cell : link[c] = j => c = p
    BY <1>3, OneBefore
  <2>2. link[j] # j /\ link[j] \in wanted \cup {None}
    BY <1>3, OneBefore DEF Lists
  <2>3. \A c \in Cell' : link'[c] = IF c = p THEN link[j] ELSE link[c]
    BY <1>1, <2>1
  <2>4. \A c \in Cell' : link'[c] \in wanted' \cup {None}
    BY <1>1, <2>1, <2>2, <2>3 DEF Lists
  <2>5. \A c, d \in Cell' : link'[c] = link'[d] /\ link'[c] # None => c = d
    <3>1. \A c \in Cell : link[c] = link[j] /\ link[c] # None => c = j
      BY <1>3 DEF Lists
    <3>2. \A c, d \in Cell : link[c] = link[d] /\ link[c] # None => c = d
      BY DEF Lists
    <3> QED BY <1>1, <2>3, <3>1, <3>2
  <2>6. ASSUME NEW i \in wanted'
        PROVE  \E h \in Heads : link'[h] = i \/ (link'[h] \in wanted' /\ link'[link'[h]] = i)
    <3>1. i = k /\ k \in wanted
      BY <1>0, <2>6
    <3>2. PICK h \in Heads : link[h] = k \/ (link[h] \in wanted /\ link[link[h]] = k)
      BY <3>1 DEF Lists
    <3>3. h \in Cell' /\ h # j
      BY <1>1, HeadsAreNoJobs
    <3>4. CASE link[h] = k
      BY <1>0, <2>1, <2>3, <3>1, <3>3, <3>4
    <3>5. CASE link[h] # k
      <4>1. link[h] = j /\ link[j] = k
        <5>1. link[k] # k
          BY <3>1, OneBefore
        <5> QED BY <1>0, <3>2, <3>5, <5>1
      <4> QED BY <2>1, <2>3, <3>1, <3>3, <4>1
    <3> QED BY <3>4, <3>5
  <2> QED BY <2>4, <2>5, <2>6 DEF Lists
<1> QED BY <1>2, <1>3

\* To store a job in a cell: it comes before what the cell led to.
LEMMA Stored ==
    ASSUME Types, Lists, NEW j \in Jobs, NEW p \in Cell, j \notin wanted,
           link[j] = link[p], link' = [link EXCEPT ![p] = j], wanted' = wanted \cup {j}
    PROVE  Lists'
<1> USE DEF Types, Queues, Cell
<1>0. PICK k \in Jobs : Jobs = {j, k} /\ j # k
  BY TwoJobs
<1>1. /\ Cell' = Cell \cup {j} /\ j \notin Cell /\ j # None /\ p # j
      /\ \A c \in Cell : link[c] # j
  BY HeadsAreNoJobs DEF Lists
<1>2. \A c \in Cell' : link'[c] = IF c = p THEN j ELSE link[c]
  BY <1>1
<1>3. \A c \in Cell' : link'[c] \in wanted' \cup {None}
  BY <1>1, <1>2 DEF Lists
<1>4. \A c, d \in Cell' : link'[c] = link'[d] /\ link'[c] # None => c = d
  <2>1. \A c, d \in Cell : link[c] = link[d] /\ link[c] # None => c = d
    BY DEF Lists
  <2>2. \A c \in Cell : link[c] = link[j] /\ link[c] # None => c = p
    BY <2>1
  <2> QED BY <1>1, <1>2, <2>1, <2>2
<1>5. ASSUME NEW i \in wanted'
      PROVE  \E h \in Heads : link'[h] = i \/ (link'[h] \in wanted' /\ link'[link'[h]] = i)
  <2>1. \A h \in Heads : h \in Cell' /\ h \in Cell
    BY <1>1
  <2>2. k \in wanted => \E h \in Heads : link[h] = k
    <3>1. ASSUME k \in wanted PROVE link[k] # k
      BY <3>1, OneBefore
    <3> QED BY <1>0, <3>1 DEF Lists
  <2>3. CASE i = j
    <3>1. CASE p \in Heads
      BY <1>2, <2>1, <2>3, <3>1
    <3>2. CASE p \notin Heads
      <4>1. p = k /\ k \in wanted
        BY <1>0, <1>1, <3>2
      <4>2. PICK h \in Heads : link[h] = k
        BY <2>2, <4>1
      <4>3. h # p /\ link'[h] = k /\ link'[k] = j
        BY <1>1, <1>2, <2>1, <3>2, <4>1, <4>2
      <4> QED BY <2>3, <4>1, <4>3
    <3> QED BY <3>1, <3>2
  <2>4. CASE i # j
    <3>1. i = k /\ k \in wanted
      BY <1>0, <1>5, <2>4
    <3>2. PICK h \in Heads : link[h] = k
      BY <2>2, <3>1
    <3>3. CASE h = p
      <4>1. link'[h] = j /\ link'[j] = k
        BY <1>1, <1>2, <2>1, <3>2, <3>3
      <4> QED BY <3>1, <4>1
    <3>4. CASE h # p
      BY <1>2, <2>1, <3>1, <3>2, <3>4
    <3> QED BY <3>3, <3>4
  <2> QED BY <2>3, <2>4
<1> QED BY <1>3, <1>4, <1>5 DEF Lists

\* A step that is no step on the queues, and leads to none but the first.
LEMMA KeptOutside ==
    ASSUME Types, Kept, UNCHANGED <<link, wanted, slot, cur>>, NEW a \in Actors,
           NEW where \in Places \ {"walk", "store", "pop"}, pc' = [pc EXCEPT ![a] = where],
           \A b \in Actors : b # a => op'[b] = op[b]
    PROVE  Kept'
<1>1. \A b \in Actors : pc'[b] = IF b = a THEN where ELSE pc[b]
  BY DEF Types, Actions
<1>2. Lists'
  BY DEF Kept, Lists, Cell
<1>3. Found'
  BY <1>1, ActorsAreFinite DEF Kept, Found, Cell
<1> QED BY <1>2, <1>3 DEF Kept

\* What an actor found is not changed by another: it is alone.
LEMMA KeptInside ==
    ASSUME SectionsAreExclusive, NEW a \in Actors, Inside(a)
    PROVE  \A b \in Actors : b # a => pc[b] \notin {"unlink", "walk", "store", "take", "pop"}
  BY DEF SectionsAreExclusive, Inside

LEMMA QueueKept ==
    ASSUME Types, SectionsAreExclusive, Kept, NEW a \in Actors, Unlink(a) \/ Walk(a) \/ Store(a)
    PROVE  Kept'
<1> USE DEF Types, Actions
<1>1. /\ pc[a] \in {"unlink", "walk", "store"} /\ op' = op /\ cur' = cur
      /\ \A b \in Actors : b # a => pc'[b] = pc[b] /\ pc'[b] \notin {"walk", "store", "pop"}
  <2>1. pc[a] \in {"unlink", "walk", "store"} /\ op' = op /\ cur' = cur
        /\ \A b \in Actors : b # a => pc'[b] = pc[b]
    BY DEF Unlink, Walk, Store, At, Go
  <2>2. Inside(a)
    BY <2>1 DEF Inside
  <2> QED BY <2>1, <2>2, KeptInside
<1>2. op[a].job \in Jobs /\ op[a].job # None /\ op[a].job \notin Heads
  BY HeadsAreNoJobs DEF OpTypes
<1>3. CASE Unlink(a)
  <2> DEFINE j == op[a].job
  <2>1. wanted' = wanted \ {j} /\ pc'[a] \in {"enable", "walk"}
    BY <1>3 DEF Unlink, Go
  <2>2. \A c \in Cell \ {j} : link'[c] = IF link[c] = j THEN link[j] ELSE link[c]
    <3>1. \A c \in Cell : c \in DOMAIN link
      BY DEF Cell, Queues
    <3> QED BY <1>3, <3>1 DEF Unlink
  <2>3. Lists'
    BY <1>2, <2>1, <2>2, Unlinked DEF Kept
  <2>4. Found'
    BY <1>1, <2>1, ActorsAreFinite DEF Found
  <2> QED BY <2>3, <2>4 DEF Kept
<1>4. CASE Walk(a)
  <2> DEFINE j == op[a].job
             head == IF op[a].kind = "timed" THEN "scheduledjobs" ELSE "runnablejobs"
  <2>1. PICK n \in DOMAIN CellAt(head) :
           /\ CellAt(head)[n] # None
           /\ slot' = [slot EXCEPT ![a] = CellAt(head)[n]]
           /\ link' = [link EXCEPT ![j] = link[CellAt(head)[n]]]
    BY <1>4 DEF Walk
  <2> DEFINE cell == CellAt(head)[n]
  <2>2. cell \in Cell
    <3>1. head \in Heads
      BY DEF Heads
    <3> HIDE DEF head
    <3>2. n \in {0, 1, 2}
      BY <3>1, WalkedCells
    <3>3. head \in Cell /\ link[head] \in wanted \cup {None} /\ head # None
      BY <3>1, HeadsAreNoJobs DEF Kept, Lists, Cell
    <3>4. link[head] # None => link[head] \in Cell /\ link[link[head]] \in wanted \cup {None}
      BY <3>3 DEF Kept, Lists, Cell
    <3> QED BY <2>1, <3>1, <3>2, <3>3, <3>4, WalkedCells DEF Cell
  <2> HIDE DEF cell
  <2>3. /\ slot' = [slot EXCEPT ![a] = cell] /\ link' = [link EXCEPT ![j] = link[cell]]
    BY <2>1 DEF cell
  <2>4. wanted' = wanted /\ pc'[a] = "store" /\ j \notin wanted
    BY <1>4 DEF Walk, At, Go, Kept, Found
  <2>5. /\ \A c \in Cell : link'[c] = link[c]
        /\ link'[j] = link[cell]
    BY <1>2, <2>3, <2>4 DEF Cell, Queues
  <2>6. Lists'
    <3>1. Cell' = Cell /\ Heads \subseteq Cell /\ wanted \subseteq Cell
      BY <2>4 DEF Cell
    <3> QED BY <2>4, <2>5, <3>1 DEF Kept, Lists
  <2>7. Found'
    BY <1>1, <2>2, <2>3, <2>4, <2>5, ActorsAreFinite DEF Found, Cell
  <2> QED BY <2>6, <2>7 DEF Kept
<1>5. CASE Store(a)
  <2> DEFINE j == op[a].job
  <2>1. /\ link' = [link EXCEPT ![slot[a]] = j] /\ wanted' = wanted \cup {j}
        /\ pc[a] = "store" /\ pc'[a] = "enable"
    BY <1>5 DEF Store, At, Go
  <2>2. j \notin wanted /\ slot[a] \in Cell /\ link[j] = link[slot[a]]
    BY <2>1 DEF Kept, Found
  <2>3. Lists'
    BY <1>2, <2>1, <2>2, Stored DEF Kept
  <2>4. Found'
    BY <1>1, <2>1, ActorsAreFinite DEF Found
  <2> QED BY <2>3, <2>4 DEF Kept
<1> QED BY <1>3, <1>4, <1>5

LEMMA LoopKept ==
    ASSUME Types, SectionsAreExclusive, Kept, Take \/ Pop
    PROVE  Kept'
<1> USE DEF Types, Actions
<1>0. Loop \in Actors
  BY ActorsAreFinite
<1>1. /\ pc[Loop] \in {"take", "pop"} /\ op' = op
      /\ \A b \in Actors : b # Loop => pc'[b] = pc[b] /\ pc'[b] \notin {"walk", "store", "pop"}
  <2>1. pc[Loop] \in {"take", "pop"} /\ op' = op
        /\ \A b \in Actors : b # Loop => pc'[b] = pc[b]
    BY <1>0 DEF Take, Pop, At, Go
  <2>2. Inside(Loop)
    BY <2>1 DEF Inside
  <2> QED BY <1>0, <2>1, <2>2, KeptInside
<1>2. CASE Take
  <2>1. PICK h \in Heads :
           /\ cur' = link[h] /\ slot' = [slot EXCEPT ![Loop] = h]
           /\ pc' = [pc EXCEPT ![Loop] = IF link[h] = None THEN "enable" ELSE "pop"]
           /\ link' = link /\ wanted' = wanted
    BY <1>2 DEF Take, Go, Heads, queueVars
  <2>2. link[h] \in wanted \cup {None}
    BY DEF Kept, Lists, Cell
  <2>3. Lists'
    BY <2>1 DEF Kept, Lists, Cell
  <2>4. Found'
    BY <1>0, <1>1, <2>1, <2>2 DEF Found
  <2> QED BY <2>3, <2>4 DEF Kept
<1>3. CASE Pop
  <2>1. /\ link' = [link EXCEPT ![slot[Loop]] = link[cur]] /\ wanted' = wanted \ {cur}
        /\ pc[Loop] = "pop" /\ pc'[Loop] = "enable"
    BY <1>0, <1>3 DEF Pop, At, Go
  <2>2. slot[Loop] \in Heads /\ cur = link[slot[Loop]] /\ cur \in wanted /\ cur \in Jobs
    BY <2>1 DEF Kept, Found
  <2>3. \A c \in Cell : link[c] = cur => c = slot[Loop]
    BY <2>2, HeadsAreNoJobs DEF Kept, Lists, Cell
  <2>4. \A c \in Cell \ {cur} : link'[c] = IF link[c] = cur THEN link[cur] ELSE link[c]
    BY <2>1, <2>2, <2>3 DEF Queues, Cell
  <2>5. Lists'
    BY <2>1, <2>2, <2>4, Unlinked DEF Kept
  <2>6. Found'
    BY <1>0, <1>1, <2>1 DEF Found
  <2> QED BY <2>5, <2>6 DEF Kept
<1> QED BY <1>2, <1>3

LEMMA KeptStep == Types /\ SectionsAreExclusive /\ Kept /\ [Next]_vars => Kept'
<1> SUFFICES ASSUME Types, SectionsAreExclusive, Kept, [Next]_vars PROVE Kept'
  OBVIOUS
<1> USE DEF Go, queueVars, halVars, lmicVars
<1>1. ASSUME NEW a \in Actors,
             Disable(a) \/ Mask(a) \/ Enable(a) \/ Unmask(a) \/ Resume(a) \/ Wake(a)
      PROVE  Kept'
  <2>1. \E where \in Places \ {"walk", "store", "pop"} : pc' = [pc EXCEPT ![a] = where]
    <3>1. Body(a) \in {"take", "unlink"} /\ After(a) \in {"check", "run", "idle", "resume"}
          /\ Home(a) \in {"run", "idle"}
      BY DEF Body, After, Home
    <3> QED BY <1>1, <3>1 DEF Disable, Mask, Enable, Unmask, Resume, Wake, Places
  <2>2. UNCHANGED <<link, wanted, slot, cur, op>>
    BY <1>1 DEF Disable, Mask, Enable, Unmask, Resume, Wake
  <2> QED BY <2>1, <2>2, KeptOutside
<1>2. ASSUME NEW a \in Actors, Begin(a) PROVE Kept'
  <2>1. /\ pc' = [pc EXCEPT ![a] = "disable"] /\ UNCHANGED <<link, wanted, slot, cur>>
        /\ \A b \in Actors : b # a => op'[b] = op[b]
    BY <1>2 DEF Begin
  <2>2. "disable" \in Places \ {"walk", "store", "pop"}
    BY DEF Places
  <2> QED BY <2>1, <2>2, KeptOutside
<1>3. CASE Ran \/ Check \/ Sleep \/ Awake
  <2>1. \E where \in Places \ {"walk", "store", "pop"} : pc' = [pc EXCEPT ![Loop] = where]
    BY <1>3 DEF Ran, Check, Sleep, Awake, Again, Places
  <2>2. /\ UNCHANGED <<link, wanted>> /\ \A b \in Actors : b # Loop => op'[b] = op[b]
    BY <1>3 DEF Ran, Check, Sleep, Awake, Again, Types, Actions
  <2>3. pc[Loop] # "pop" /\ pc'[Loop] # "pop" /\ slot' = slot
    BY <1>3, <2>1, ActorsAreFinite DEF Ran, Check, Sleep, Awake, At, Types, Actions
  <2>4. Lists'
    BY <2>2 DEF Kept, Lists, Cell
  <2>5. Found'
    BY <2>1, <2>2, <2>3, ActorsAreFinite DEF Kept, Found, Cell, Types, Actions
  <2> QED BY <2>4, <2>5 DEF Kept
<1>4. CASE RadioOn \/ Report \/ Tick \/ UNCHANGED vars
  <2>1. UNCHANGED <<link, wanted, slot, cur, op, pc>>
    BY <1>4 DEF RadioOn, Report, Tick, vars
  <2> QED BY <2>1 DEF Kept, Lists, Found, Cell
<1>5. ASSUME NEW a \in Actors, Step(a) PROVE Kept'
  BY <1>1, <1>5, QueueKept DEF Step
<1> QED BY <1>2, <1>3, <1>4, <1>5, LoopKept, ActorsAreFinite DEF Next, LoopStep, Actors

LEMMA InitKept == Init => Kept
<1> SUFFICES ASSUME Init PROVE Kept
  OBVIOUS
<1>1. wanted = {} /\ \A c \in Heads : link[c] = None
  BY DEF Init
<1>2. \A a \in Actors : pc[a] \in {"disable", "idle"}
  BY DEF Init
<1> QED BY <1>1, <1>2, ActorsAreFinite DEF Kept, Lists, Found, Cell

\* Whatever the cores: as long as sections exclude each other, the queues hold the
\* jobs that were set, each in one place, however the calls of actors follow.
THEOREM ExclusionKeepsJobs ==
    Init /\ [][Next]_vars /\ []SectionsAreExclusive => []JobsAreKept
<1>1. Kept /\ Types => JobsAreKept
  BY KeptJobs DEF Kept
<1> QED BY <1>1, InitTypes, TypesStep, InitKept, KeptStep, PTL

\* On one core no job is lost, and none that was taken or cleared is left in a queue.
THEOREM JobsKept == (\E dio \in Others : OneCore(dio)) => (Spec => []JobsAreKept)
<1> SUFFICES ASSUME NEW dio \in Others, OneCore(dio) PROVE Spec => []JobsAreKept
  OBVIOUS
<1>1. Spec => []SectionsAreExclusive
  BY AloneInvariance, PTL
<1> QED BY <1>1, ExclusionKeepsJobs, PTL DEF Spec
=============================================================================
