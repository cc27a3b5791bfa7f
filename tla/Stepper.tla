------------------------------ MODULE Stepper ------------------------------
(***************************************************************************)
(* The stepper driver, drivers/stepper.c: tasks attach, move and start     *)
(* steppers, and the handler of the timer's interrupt makes the steps.     *)
(* One binary semaphore is both the lock of the table and the completion   *)
(* of every movement.                                                      *)
(*                                                                         *)
(* The frequencies are left out: which of the started units make their     *)
(* step in one interrupt is any choice.  That stands for units slower than *)
(* STEPPER_HZ / 2; a unit at STEPPER_HZ repeats its last step in one       *)
(* interrupt for ever (stepper.c:158).  A unit that was never moved has no *)
(* period, and makes a step when its count of ticks wraps.  The handler    *)
(* and the tasks that start run on one core, so that their masks of start  *)
(* do not interleave.                                                      *)
(***************************************************************************)
EXTENDS Integers, FiniteSetsExt

CONSTANTS
    Users,       \* tasks
    NSTEP,       \* units of the table
    StepsLimit,  \* values of a uint32_t, the type of steps: 2^32
    MaxSteps,    \* bound: steps of a movement
    MaxCalls     \* bound: calls of stepper_move and stepper_start

Units == 0 .. NSTEP - 1

VARIABLES
    at,        \* where each task is
    sem,       \* count of the semaphore in stepper_mutex
    setup,     \* the units that are set up
    steps,     \* steps a unit has left
    start,     \* the started units
    awaits,    \* the units a task started and that have not made all steps since
    asked,     \* how many steps the last stepper_move of a unit asked for
    made,      \* how many clock pulses it has had since then
    calls,     \* calls of stepper_move and stepper_start
    proper,    \* every mask was one unit that had steps to make
    blank      \* some mask had no unit that was told to make steps

vars == <<at, sem, setup, steps, start, awaits, asked, made, calls, proper, blank>>

Init ==
    /\ at = [t \in Users |-> "idle"]
    /\ sem = 1
    /\ setup = {} /\ start = {}
    /\ steps = [u \in Units |-> 0]
    /\ awaits = [t \in Users |-> {}]
    /\ asked = [u \in Units |-> 0] /\ made = [u \in Units |-> 0]
    /\ calls = 0 /\ proper = TRUE /\ blank = FALSE

Go(t, from, to) == at[t] = from /\ at' = [at EXCEPT ![t] = to]

\* stepper_setup holds stepper_mutex throughout and gives it on each return.
\* With no free unit the check lets the call through (i > NSTEP), and unit
\* keeps what the caller put there: lstepper_attach put 0.
Attach_PastTable(t) ==
    /\ at[t] = "idle" /\ sem = 1
    /\ setup' = setup \cup {Min((0 .. NSTEP) \ setup)}
    /\ UNCHANGED <<at, sem, steps, start, awaits, asked, made, calls, proper, blank>>
Attach(t) ==
    /\ at[t] = "idle" /\ sem = 1
    /\ setup' = setup \cup {IF Units \subseteq setup THEN 0 ELSE Min(Units \ setup)}
    /\ UNCHANGED <<at, sem, steps, start, awaits, asked, made, calls, proper, blank>>

\* stepper_move: the unit may be moving, and nothing refuses a movement of no
\* steps, which s:move(0) asks for.
Move(t, u, n) ==
    /\ at[t] = "idle" /\ sem = 1 /\ u \in setup
    /\ calls < MaxCalls
    /\ steps' = [steps EXCEPT ![u] = n]
    /\ asked' = [asked EXCEPT ![u] = n]
    /\ made' = [made EXCEPT ![u] = 0]
    /\ calls' = calls + 1
    /\ UNCHANGED <<at, sem, setup, start, awaits, proper, blank>>

\* Units that were told to make steps, and those that have not made them all.
Told == {u \in setup : asked[u] > 0}
Pending == {u \in Told : made[u] < asked[u]}

\* What a call of stepper_start is, for the properties.
Note(t, units) ==
    /\ calls < MaxCalls /\ calls' = calls + 1
    /\ awaits' = [awaits EXCEPT ![t] = units]
    /\ proper' = (proper /\ \E u \in Pending : units = {u})
    /\ blank' = (blank \/ units \cap Told = {})

\* The first mtx_lock of stepper_start, and the units it adds to start: any that
\* are attached, or none.
Start_Unlocked(t, units) ==
    /\ Go(t, "idle", "wait")
    /\ start' = start \cup units
    /\ Note(t, units)
    /\ UNCHANGED <<sem, setup, steps, asked, made>>
Start(t, units) ==
    /\ Go(t, "idle", "wait")
    /\ sem = 1 /\ sem' = 0
    /\ start' = start \cup units
    /\ Note(t, units)
    /\ UNCHANGED <<setup, steps, asked, made>>

\* The second mtx_lock gets what the handler gave, and the mtx_unlock.
StartTaken(t) ==
    /\ Go(t, "wait", "done")
    /\ sem = 1 /\ sem' = 0
    /\ UNCHANGED <<setup, steps, start, awaits, asked, made, calls, proper, blank>>
StartReturn_Locked(t) ==
    /\ Go(t, "done", "idle")
    /\ awaits' = [awaits EXCEPT ![t] = {}]
    /\ UNCHANGED <<sem, setup, steps, start, asked, made, calls, proper, blank>>
StartReturn(t) ==
    /\ Go(t, "done", "idle")
    /\ sem' = 1
    /\ awaits' = [awaits EXCEPT ![t] = {}]
    /\ UNCHANGED <<setup, steps, start, asked, made, calls, proper, blank>>

Less(n) == IF n = 0 THEN StepsLimit - 1 ELSE n - 1

\* stepper_isr, for the units whose step is due: those at their last step stop
\* and keep it in steps, so that starting such a unit again makes one step more,
\* and one mtx_unlock tells of all of them.  A unit with no steps wraps.
Isr_StopsAtZero(due) ==
    LET stopped == {u \in due : steps[u] = 0} IN
    /\ due # {} /\ due \subseteq start
    /\ made' = [u \in Units |-> IF u \in due THEN made[u] + 1 ELSE made[u]]
    /\ steps' = [u \in Units |-> IF u \in due \ stopped THEN Less(steps[u]) ELSE steps[u]]
    /\ start' = start \ stopped
    /\ sem' = IF stopped # {} THEN 1 ELSE sem
    /\ awaits' = [t \in Users |-> awaits[t] \ {u \in stopped : made'[u] = asked[u]}]
    /\ UNCHANGED <<at, setup, asked, calls, proper, blank>>
Isr(due) ==
    LET stopped == {u \in due : steps[u] = 1} IN
    /\ due # {} /\ due \subseteq start
    /\ made' = [u \in Units |-> IF u \in due THEN made[u] + 1 ELSE made[u]]
    /\ steps' = [u \in Units |-> IF u \in due \ stopped THEN Less(steps[u]) ELSE steps[u]]
    /\ start' = start \ stopped
    /\ sem' = IF stopped # {} THEN 1 ELSE sem
    /\ awaits' = [t \in Users |-> awaits[t] \ {u \in stopped : made'[u] = asked[u]}]
    /\ UNCHANGED <<at, setup, asked, calls, proper, blank>>

Started(t) == StartTaken(t) \/ StartReturn(t)
Makes(u) == \E due \in SUBSET Units : u \in due /\ Isr(due)

Next ==
    \/ \E t \in Users :
          \/ Attach(t)
          \/ \E u \in Units, n \in 0 .. MaxSteps : Move(t, u, n)
          \/ \E units \in SUBSET setup : Start(t, units)
          \/ Started(t)
    \/ \E u \in Units : Makes(u)

Spec == Init /\ [][Next]_vars

TypeOK ==
    /\ at \in [Users -> {"idle", "wait", "done"}]
    /\ sem \in {0, 1}
    /\ setup \subseteq Units /\ start \subseteq setup
    /\ steps \in [Units -> 0 .. StepsLimit - 1]
    /\ awaits \in [Users -> SUBSET setup]
    /\ asked \in [Units -> Nat] /\ made \in [Units -> Nat]
    /\ calls \in Nat /\ proper \in BOOLEAN /\ blank \in BOOLEAN

\* stepper_start returns when the unit of its mask has made all the steps it was
\* asked for, and no more, whoever else starts and moves; but only as long as
\* nobody starts two units at once, of which the first to stop ends the wait and
\* lets others move and start the second, or a unit that has nothing to do.
StepperMovesAreWhole == proper => \A t \in Users : at[t] = "done" => awaits[t] = {}

\* Every stepper_start returns, although the semaphore of its wait is also the
\* lock of the others and keeps one of two ends that come together; but not after
\* a start of no unit that was told to make steps: no unit at all (stepper.start()
\* keeps the semaphore for good), units never moved, or moved by no steps, which
\* makes StepsLimit of them.
StepperStartsReturn == \A t \in Users : at[t] = "wait" ~> (at[t] = "idle" \/ blank)
=============================================================================
