----------------------------- MODULE LmicSched -----------------------------
(***************************************************************************)
(* The job queues of lmic/oslmic.c, and what lmic_hal.c gives them: the    *)
(* nested disabling of interrupts and the sleep of os_runloop.             *)
(*                                                                         *)
(* An actor is the run loop, a task that calls the LMIC library (there is  *)
(* one at a time: it holds lora_mtx), or the interrupt handler of the DIO  *)
(* lines.  Actors run on the cores of the ESP32: on one core the ready     *)
(* actor of the highest priority runs, and interrupts that one actor has   *)
(* disabled keep the others of ITS core, and of no other, from running.    *)
(*                                                                         *)
(* A statement on a queue is a step.  The changes of nested and resumed    *)
(* are one step each: they are made under lmic_hal_mtx.  os_clearCallback  *)
(* is inlined in its callers; its own disable and enable count up and down *)
(* inside theirs and change nothing.  sleeped is left out: only os_runloop *)
(* sleeps.                                                                 *)
(***************************************************************************)
EXTENDS Integers, FiniteSets

CONSTANTS
    Loop,      \* the task of os_runloop
    Others,    \* the other actors: the caller of the library, the DIO handler
    Setup,     \* the one of them that calls lora_setup
    Core,      \* the core each actor runs on
    Priority,  \* its priority there
    InitJob,   \* &initjob, set by lora_setup
    OsJob,     \* &LMIC.osjob, set by everything else
    None,      \* NULL
    Calls,     \* the kinds of calls each actor makes on OsJob
    Waits,     \* TRUE: Setup calls when the library has ended its last call only
    MaxCalls,  \* bound: such calls
    MaxTime    \* bound: what hal_ticks counts to

Actors == Others \cup {Loop}
Jobs == {InitJob, OsJob}
Heads == {"runnablejobs", "scheduledjobs"}
Kinds == {"set", "timed", "clear"}

ASSUME LmicSchedAssumption ==
    /\ IsFiniteSet(Others)
    /\ Setup \in Others /\ Loop \notin Others
    /\ InitJob # OsJob /\ None \notin Jobs /\ Heads \cap (Jobs \cup {None}) = {}
    /\ Calls \in [Actors -> SUBSET Kinds]
    /\ Waits \in BOOLEAN
    /\ MaxCalls \in Nat /\ MaxTime \in Nat

VARIABLES
    link,      \* the cells of the queues: the two heads, and next of each job
    deadline,  \* of each job
    now,       \* hal_ticks()
    nested,    \* how often interrupts were disabled, over all actors
    masked,    \* the actors that have disabled the interrupts of their core
    resumed,   \* whether os_runloop has been resumed since it last slept
    woken,     \* the bit evLMIC_SLEEP of lmicSleepEvent
    pc,        \* where each actor is
    op,        \* the call each actor makes
    slot,      \* the cell it will write
    cur,       \* the job os_runloop took, or None
    calls,     \* how many calls on OsJob were begun
    busy,      \* whether the library works on a call of Setup
    radio,     \* whether the radio is on, and the DIO lines will change
    wanted     \* ghost: the jobs that were set, and neither taken nor cleared

vars == <<link, deadline, now, nested, masked, resumed, woken, pc, op, slot,
          cur, calls, busy, radio, wanted>>
lmicVars == <<calls, busy, radio>>
queueVars == <<link, deadline, wanted>>
halVars == <<nested, masked, resumed, woken>>

Call(kind, job, time) == [kind |-> kind, job |-> job, time |-> time]

\* lora_setup has started the run loop and calls os_setCallback(&initjob).
Init ==
    /\ link = [c \in Heads \cup Jobs |-> None]
    /\ deadline = [j \in Jobs |-> 0]
    /\ now = 0
    /\ nested = 0
    /\ masked = {}
    /\ resumed = FALSE
    /\ woken = FALSE
    /\ pc = [a \in Actors |-> IF a \in {Setup, Loop} THEN "disable" ELSE "idle"]
    /\ op = [a \in Actors |-> Call(IF a = Loop THEN "loop" ELSE "set", InitJob, 0)]
    /\ slot = [a \in Actors |-> "runnablejobs"]
    /\ cur = None
    /\ calls = 0
    /\ busy = TRUE
    /\ radio = FALSE
    /\ wanted = {}

(***************************************************************************)
(* Scheduling                                                              *)
(***************************************************************************)
Ready(a) == pc[a] # "idle" /\ (pc[a] = "sleep" => woken)

MayRun(a) ==
    \A b \in Actors \ {a} : Core[b] = Core[a] /\ Ready(b) =>
        b \notin masked /\ Priority[b] <= Priority[a]

At(a, where) == pc[a] = where /\ MayRun(a)
Go(a, where) == pc' = [pc EXCEPT ![a] = where]
Home(a) == IF a = Loop THEN "run" ELSE "idle"

\* Where an actor goes from hal_disableIRQs, and from hal_enableIRQs.
Body(a) == IF op[a].kind = "loop" THEN "take" ELSE "unlink"
After(a) ==
    CASE op[a].kind = "loop" -> IF cur = None THEN "check" ELSE "run"
      [] op[a].kind = "clear" -> Home(a)
      [] OTHER -> "resume"

(***************************************************************************)
(* hal_disableIRQs and hal_enableIRQs                                      *)
(***************************************************************************)
Disable(a) ==
    /\ At(a, "disable")
    /\ nested' = nested + 1
    /\ Go(a, IF nested = 0 THEN "mask" ELSE Body(a))
    /\ UNCHANGED <<queueVars, now, masked, resumed, woken, op, slot, cur, lmicVars>>

Mask_Nothing(a) ==
    /\ At(a, "mask")
    /\ Go(a, Body(a))
    /\ UNCHANGED <<queueVars, now, halVars, op, slot, cur, lmicVars>>
Mask(a) ==
    /\ At(a, "mask")
    /\ masked' = masked \cup {a}
    /\ Go(a, Body(a))
    /\ UNCHANGED <<queueVars, now, nested, resumed, woken, op, slot, cur, lmicVars>>

Enable_Twice(a) ==
    /\ At(a, "enable")
    /\ nested' = nested - 2
    /\ Go(a, IF nested = 1 THEN "unmask" ELSE After(a))
    /\ UNCHANGED <<queueVars, now, masked, resumed, woken, op, slot, cur, lmicVars>>
Enable_NotLast(a) ==
    /\ At(a, "enable")
    /\ nested' = nested - 1
    /\ Go(a, IF nested = 0 THEN "unmask" ELSE After(a))
    /\ UNCHANGED <<queueVars, now, masked, resumed, woken, op, slot, cur, lmicVars>>
Enable(a) ==
    /\ At(a, "enable")
    /\ nested' = nested - 1
    /\ Go(a, IF nested = 1 THEN "unmask" ELSE After(a))
    /\ UNCHANGED <<queueVars, now, masked, resumed, woken, op, slot, cur, lmicVars>>

Unmask(a) ==
    /\ At(a, "unmask")
    /\ masked' = masked \ {a}
    /\ Go(a, After(a))
    /\ UNCHANGED <<queueVars, now, nested, resumed, woken, op, slot, cur, lmicVars>>

(***************************************************************************)
(* os_setCallback, os_setTimedCallback, os_clearCallback                   *)
(***************************************************************************)
\* The cells of a queue: its head, and the jobs met from there.
CellAt(h) ==
    LET f[n \in 0 .. Cardinality(Jobs)] ==
            IF n = 0 THEN h ELSE IF f[n-1] = None THEN None ELSE link[f[n-1]]
    IN  f
Cells(h) == {CellAt(h)[n] : n \in DOMAIN CellAt(h)} \ {None}
Queued(j) == \E h \in Heads : j \in Cells(h)

\* A call from Lua, from a job that os_runloop runs, or from the DIO handler,
\* when the radio is on.  lora_join and lora_tx return when a job has reported
\* the end of what they began, but after EV_JOIN_FAILED the library goes on.
MayCall(a) ==
    CASE a = Setup -> Waits => ~busy
      [] a = Loop -> busy
      [] OTHER -> radio

Begin(a) ==
    /\ At(a, Home(a))
    /\ calls < MaxCalls
    /\ MayCall(a)
    /\ calls' = calls + 1
    /\ busy' = (busy \/ a = Setup)
    /\ radio' = (radio /\ a \in {Setup, Loop})
    /\ \E kind \in Calls[a], time \in 0 .. MaxTime :
        op' = [op EXCEPT ![a] = Call(kind, OsJob, IF kind = "timed" THEN time ELSE 0)]
    /\ Go(a, "disable")
    /\ UNCHANGED <<queueVars, now, halVars, slot, cur>>

\* The job is unlinked from the queue it is in; a new next is NULL.
Unlink_NotScheduled(a) ==
    LET job == op[a].job
    IN  /\ At(a, "unlink")
        /\ link' = [c \in DOMAIN link |->
                        IF c = "runnablejobs" /\ link[c] = job THEN link[job]
                        ELSE IF c = job /\ op[a].kind # "clear" THEN None ELSE link[c]]
        /\ wanted' = wanted \ {job}
        /\ Go(a, IF op[a].kind = "clear" THEN "enable" ELSE "walk")
        /\ UNCHANGED <<deadline, now, halVars, op, slot, cur, lmicVars>>
Unlink(a) ==
    LET job == op[a].job
    IN  /\ At(a, "unlink")
        /\ link' = [c \in DOMAIN link |->
                        IF c # job THEN IF link[c] = job THEN link[job] ELSE link[c]
                        ELSE IF op[a].kind = "clear" THEN link[c] ELSE None]
        /\ wanted' = wanted \ {job}
        /\ Go(a, IF op[a].kind = "clear" THEN "enable" ELSE "walk")
        /\ UNCHANGED <<deadline, now, halVars, op, slot, cur, lmicVars>>

\* The end of the run queue, or the place in the schedule, is looked for.  The
\* difference of two deadlines is unsigned: it is positive unless it is zero.
IsPlace(c, call) ==
    link[c] # None => call.kind = "timed" /\ deadline[link[c]] # call.time

Walk(a) ==
    LET call == op[a]
        head == IF call.kind = "timed" THEN "scheduledjobs" ELSE "runnablejobs"
        cell == CellAt(head)
    IN  /\ At(a, "walk")
        /\ \E n \in DOMAIN cell :
            /\ cell[n] # None /\ IsPlace(cell[n], call)
            /\ \A m \in 0 .. n - 1 : ~IsPlace(cell[m], call)
            /\ slot' = [slot EXCEPT ![a] = cell[n]]
            /\ link' = [link EXCEPT ![call.job] = link[cell[n]]]
        /\ deadline' = IF call.kind = "timed"
                       THEN [deadline EXCEPT ![call.job] = call.time] ELSE deadline
        /\ Go(a, "store")
        /\ UNCHANGED <<now, halVars, op, cur, lmicVars, wanted>>

Store(a) ==
    /\ At(a, "store")
    /\ link' = [link EXCEPT ![slot[a]] = op[a].job]
    /\ wanted' = wanted \cup {op[a].job}
    /\ Go(a, "enable")
    /\ UNCHANGED <<deadline, now, halVars, op, slot, cur, lmicVars>>

\* hal_resume: resumed is tested and set, then the bit is set.  From the handler
\* that goes through a queue of FreeRTOS, which is taken to have room.
Resume(a) ==
    /\ At(a, "resume")
    /\ resumed' = TRUE
    /\ Go(a, IF resumed THEN Home(a) ELSE "wake")
    /\ UNCHANGED <<queueVars, now, nested, masked, woken, op, slot, cur, lmicVars>>

Wake(a) ==
    /\ At(a, "wake")
    /\ woken' = TRUE
    /\ Go(a, Home(a))
    /\ UNCHANGED <<queueVars, now, nested, masked, resumed, op, slot, cur, lmicVars>>

(***************************************************************************)
(* os_runloop and hal_sleep                                                *)
(***************************************************************************)
\* j = OS.runnablejobs, or j = OS.scheduledjobs when its deadline has come.
Take ==
    LET due == link["scheduledjobs"] # None /\ deadline[link["scheduledjobs"]] <= now
        head == IF link["runnablejobs"] # None \/ ~due
                THEN "runnablejobs" ELSE "scheduledjobs"
    IN  /\ At(Loop, "take")
        /\ cur' = link[head]
        /\ slot' = [slot EXCEPT ![Loop] = head]
        /\ Go(Loop, IF link[head] = None THEN "enable" ELSE "pop")
        /\ UNCHANGED <<queueVars, now, halVars, op, lmicVars>>

Pop ==
    /\ At(Loop, "pop")
    /\ link' = [link EXCEPT ![slot[Loop]] = link[cur]]
    /\ wanted' = wanted \ {cur}
    /\ Go(Loop, "enable")
    /\ UNCHANGED <<deadline, now, halVars, op, slot, cur, lmicVars>>

Again ==
    /\ op' = [op EXCEPT ![Loop] = Call("loop", InitJob, 0)]
    /\ cur' = None
    /\ Go(Loop, "disable")

\* The job calls os_radio, or onEvent with the end of what Setup began.
RadioOn ==
    /\ At(Loop, "run") /\ busy
    /\ radio' = TRUE
    /\ UNCHANGED <<queueVars, now, halVars, pc, op, slot, cur, calls, busy>>

Report ==
    /\ At(Loop, "run") /\ ~radio /\ OsJob \notin wanted
    /\ busy' = FALSE
    /\ UNCHANGED <<queueVars, now, halVars, pc, op, slot, cur, calls, radio>>

\* j->func(j) returns.
Ran ==
    /\ At(Loop, "run")
    /\ Again
    /\ UNCHANGED <<queueVars, now, halVars, slot, lmicVars>>

\* No job was taken: the loop goes on when one is scheduled, or sleeps.
Check ==
    /\ At(Loop, "check")
    /\ IF link["scheduledjobs"] # None
       THEN Again
       ELSE Go(Loop, "sleep") /\ UNCHANGED <<op, cur>>
    /\ UNCHANGED <<queueVars, now, halVars, slot, lmicVars>>

Sleep ==
    /\ At(Loop, "sleep") /\ woken
    /\ woken' = FALSE
    /\ Go(Loop, "awake")
    /\ UNCHANGED <<queueVars, now, nested, masked, resumed, op, slot, cur, lmicVars>>

Awake_KeepsResumed ==
    /\ At(Loop, "awake")
    /\ Again
    /\ UNCHANGED <<queueVars, now, halVars, slot, lmicVars>>
Awake ==
    /\ At(Loop, "awake")
    /\ resumed' = FALSE
    /\ Again
    /\ UNCHANGED <<queueVars, now, nested, masked, woken, slot, lmicVars>>

Tick ==
    /\ now < MaxTime
    /\ now' = now + 1
    /\ UNCHANGED <<queueVars, halVars, pc, op, slot, cur, lmicVars>>

\* The steps of an actor that does not begin a call.
Step(a) ==
    \/ Disable(a) \/ Mask(a) \/ Enable(a) \/ Unmask(a)
    \/ Unlink(a) \/ Walk(a) \/ Store(a) \/ Resume(a) \/ Wake(a)

LoopStep == Step(Loop) \/ Take \/ Pop \/ Ran \/ Check \/ Sleep \/ Awake

Next == (\E a \in Actors : Begin(a)) \/ (\E a \in Others : Step(a))
        \/ LoopStep \/ RadioOn \/ Report \/ Tick

\* Actors that may run do, and time passes; nobody has to make a call.
Fairness ==
    /\ \A a \in Others : WF_vars(Step(a))
    /\ WF_vars(LoopStep)
    /\ WF_vars(Tick)

Spec == Init /\ [][Next]_vars /\ Fairness

(***************************************************************************)
(* Properties                                                              *)
(***************************************************************************)
Places == {"idle", "run", "disable", "mask", "enable", "unmask", "unlink", "walk",
           "store", "resume", "wake", "take", "pop", "check", "sleep", "awake"}
Inside(a) == pc[a] \in {"unlink", "walk", "store", "take", "pop"}

\* Every variable of oslmic.c and lmic_hal.c has its type: nested, which every
\* actor changes, never counts below zero or above the actors there are.
TypeOK ==
    /\ link \in [Heads \cup Jobs -> Jobs \cup {None}]
    /\ deadline \in [Jobs -> 0 .. MaxTime]
    /\ now \in 0 .. MaxTime
    /\ nested \in 0 .. Cardinality(Actors)
    /\ masked \subseteq Actors
    /\ resumed \in BOOLEAN /\ woken \in BOOLEAN
    /\ pc \in [Actors -> Places]
    /\ op \in [Actors -> [kind : Kinds \cup {"loop"}, job : Jobs, time : 0 .. MaxTime]]
    /\ slot \in [Actors -> Heads \cup Jobs]
    /\ cur \in Jobs \cup {None}
    /\ calls \in 0 .. MaxCalls
    /\ busy \in BOOLEAN /\ radio \in BOOLEAN
    /\ wanted \subseteq Jobs

\* Between hal_disableIRQs and hal_enableIRQs an actor is alone with the queues.
SectionsAreExclusive ==
    \A a, b \in Actors : Inside(a) /\ Inside(b) => a = b

\* Whoever has left hal_enableIRQs, however the actors' calls of hal_disableIRQs
\* and hal_enableIRQs were interleaved, has its interrupts back (hal.h:54 "disable
\* all CPU interrupts ... will be followed by matching call to hal_enableIRQs()").
InterruptsComeBack ==
    \A a \in Actors :
        pc[a] \in {"idle", "run", "resume", "wake", "check", "sleep", "awake"}
            => a \notin masked

\* The queues hold the jobs that were set (oslmic.c:106 "schedule immediately
\* runnable job"), each in one place: no job is lost when others are set, taken or
\* cleared at the same time, and none that was taken or cleared is left.
JobsAreKept ==
    (\A a \in Actors : ~Inside(a)) =>
        /\ {j \in Jobs : Queued(j)} = wanted
        /\ Cells("runnablejobs") \cap Cells("scheduledjobs") = {}

\* The run loop never sleeps through a job: what is in a queue is taken from it,
\* although the queue is looked at, and the bit waited for, in separate steps.
QueuedJobsAreTaken == \A j \in Jobs : Queued(j) ~> ~Queued(j)
=============================================================================
