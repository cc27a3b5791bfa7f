----------------------------- MODULE DriverLock -----------------------------
(***************************************************************************)
(* driver_lock (sys/driver.c) and the setups of the drivers that call it.  *)
(*                                                                         *)
(* A unit of a driver (uart 1, spi 2, stepper 0) owns the pins it drives.  *)
(* Setting a unit up claims its pins one by one: each claim is a call of   *)
(* driver_lock, which takes driver_mtx, looks at the lock of the pin and   *)
(* grants it when it is free or already this unit's.  Nothing ever frees a *)
(* lock.  A setup that is refused returns its error, and keeps the pins it *)
(* was granted before.  Several tasks set units up at the same time.       *)
(*                                                                         *)
(* The error is allocated, and NULL, which says that all is well, when     *)
(* there is no memory for it.  A lock function (i2c_lock_resources) then   *)
(* returns without its other claims and the setup configures the unit at   *)
(* pins it was refused (LockLost).  A setup that makes its claims itself   *)
(* (stepper_setup) answers success with nothing configured: here that is   *)
(* like a refusal.  An allocation that fails inside driver_lock halts the  *)
(* machine (panic) and is left out.                                        *)
(*                                                                         *)
(* A driver without a lock array grants every claim on it.  The branch for *)
(* a target with a lock_resources function is left out: no caller of       *)
(* driver_lock names such a target, only gpio and adc, which have none.    *)
(*                                                                         *)
(* An operator whose name has an underscore and a suffix (Enter_Unlocked)  *)
(* is the operator after it with a mistake in it, which the properties     *)
(* must notice; PROJECT.json lists them.  The other modules have such      *)
(* operators too.                                                          *)
(***************************************************************************)
EXTENDS Integers, Sequences

CONSTANTS
    Tasks,      \* tasks that call setup functions
    Nobody,     \* not a task: the mutex is free
    Drivers,    \* drivers that own pins
    Inline,     \* those whose setup makes its claims itself
    NoDriver,   \* not a driver: the NULL owner of a free lock
    Pins,       \* units with a lock in the lock array of their driver (GPIO)
    Open,       \* units of drivers without lock array (ADC)
    Setups      \* the setups that tasks run: sequences of claims

\* must is FALSE when the setup goes on after a refusal, as adc_setup does.
Claim == [driver : Drivers, unit : Nat, target : Pins \cup Open, must : BOOLEAN]

ASSUME DriverLockAssumption ==
    /\ Nobody \notin Tasks
    /\ NoDriver \notin Drivers
    /\ Inline \subseteq Drivers
    /\ Pins \cap Open = {}
    /\ Setups \subseteq Seq(Claim)

VARIABLES
    lock,        \* the lock arrays: owner and unit of each pin
    driver_mtx,  \* the task in the critical section of driver_lock, or Nobody
    pc,          \* where each task is
    setup,       \* the setup each task runs
    claims,      \* the claims of it still to be made
    granted,     \* the claims on pins it was granted
    unheard,     \* the claims of it whose refusal was lost, or that it skipped
    configured,  \* the setups that configured their unit, with what they were
                 \* granted and what was unheard
    refused      \* the claims that were refused

vars == <<lock, driver_mtx, pc, setup, claims, granted, unheard, configured,
          refused>>

Free_Unassigned == [owner |-> NoDriver, unit |-> -1]
Free == [owner |-> NoDriver, unit |-> 0]

Init ==
    /\ lock = [p \in Pins |-> Free]
    /\ driver_mtx = Nobody
    /\ pc = [t \in Tasks |-> "idle"]
    /\ setup = [t \in Tasks |-> << >>]
    /\ claims = [t \in Tasks |-> << >>]
    /\ granted = [t \in Tasks |-> {}]
    /\ unheard = [t \in Tasks |-> {}]
    /\ configured = {}
    /\ refused = {}

\* A task calls the setup function of a driver.
Begin(t, s) ==
    /\ pc[t] = "idle"
    /\ pc' = [pc EXCEPT ![t] = "claim"]
    /\ setup' = [setup EXCEPT ![t] = s]
    /\ claims' = [claims EXCEPT ![t] = s]
    /\ granted' = [granted EXCEPT ![t] = {}]
    /\ unheard' = [unheard EXCEPT ![t] = {}]
    /\ UNCHANGED <<lock, driver_mtx, configured, refused>>

\* mtx_lock(&driver_mtx)
Enter_Unlocked(t) ==
    /\ pc[t] = "claim"
    /\ claims[t] # << >>
    /\ driver_mtx' = t
    /\ pc' = [pc EXCEPT ![t] = "inside"]
    /\ UNCHANGED <<lock, setup, claims, granted, unheard, configured,
                   refused>>
Enter(t) ==
    /\ pc[t] = "claim"
    /\ claims[t] # << >>
    /\ driver_mtx = Nobody
    /\ driver_mtx' = t
    /\ pc' = [pc EXCEPT ![t] = "inside"]
    /\ UNCHANGED <<lock, setup, claims, granted, unheard, configured,
                   refused>>

\* mtx_unlock, and the setup goes on with the claims that are left.
Leave(t) ==
    /\ driver_mtx' = Nobody
    /\ pc' = [pc EXCEPT ![t] = "claim"]
    /\ claims' = [claims EXCEPT ![t] = Tail(@)]

\* The claim was refused: mtx_unlock, and the setup returns the error.
Abandon_KeepsMutex(t) ==
    /\ pc' = [pc EXCEPT ![t] = "idle"]
    /\ setup' = [setup EXCEPT ![t] = << >>]
    /\ claims' = [claims EXCEPT ![t] = << >>]
    /\ granted' = [granted EXCEPT ![t] = {}]
    /\ unheard' = [unheard EXCEPT ![t] = {}]
    /\ UNCHANGED driver_mtx
Abandon(t) ==
    /\ driver_mtx' = Nobody
    /\ pc' = [pc EXCEPT ![t] = "idle"]
    /\ setup' = [setup EXCEPT ![t] = << >>]
    /\ claims' = [claims EXCEPT ![t] = << >>]
    /\ granted' = [granted EXCEPT ![t] = {}]
    /\ unheard' = [unheard EXCEPT ![t] = {}]

\* The target driver has no lock control: the claim is granted.
LockOpen(t) ==
    /\ pc[t] = "inside"
    /\ Head(claims[t]).target \in Open
    /\ Leave(t)
    /\ UNCHANGED <<lock, setup, granted, unheard, configured, refused>>

\* The pin is locked by the unit itself, or by another.
IsMine(c) == lock[c.target] = [owner |-> c.driver, unit |-> c.unit]
IsTaken_OwnToo(c) == lock[c.target].owner # NoDriver
IsTaken(c) == lock[c.target].owner # NoDriver /\ ~IsMine(c)

LockAgain(t) ==
    LET c == Head(claims[t])
    IN  /\ pc[t] = "inside"
        /\ c.target \in Pins
        /\ IsMine(c)
        /\ granted' = [granted EXCEPT ![t] = @ \cup {c}]
        /\ Leave(t)
        /\ UNCHANGED <<lock, setup, unheard, configured, refused>>

LockRevoked(t) ==
    LET c == Head(claims[t])
    IN  /\ pc[t] = "inside"
        /\ c.target \in Pins
        /\ IsTaken(c)
        /\ c.must
        /\ refused' = refused \cup {c}
        /\ Abandon(t)
        /\ UNCHANGED <<lock, configured>>

\* The claim was refused and driver_lock_error has no memory for the error: the
\* lock function returns NULL without the n - 1 claims after it, and the setup
\* goes on.
LockLost(t) ==
    LET c == Head(claims[t])
    IN  /\ pc[t] = "inside"
        /\ c.target \in Pins
        /\ IsTaken(c)
        /\ c.must
        /\ c.driver \notin Inline
        /\ refused' = refused \cup {c}
        /\ driver_mtx' = Nobody
        /\ pc' = [pc EXCEPT ![t] = "claim"]
        /\ \E n \in 1 .. Len(claims[t]) :
            /\ \A i \in 1 .. n : claims[t][i].driver = c.driver
            /\ n < Len(claims[t]) => claims[t][n + 1].driver # c.driver
            /\ claims' = [claims EXCEPT ![t] = SubSeq(@, n + 1, Len(@))]
            /\ unheard' = [unheard EXCEPT ![t] = @ \cup {claims[t][i] : i \in 1 .. n}]
        /\ UNCHANGED <<lock, setup, granted, configured>>

\* The caller of the setup drops the error and goes on.
LockIgnored_Always(t) ==
    LET c == Head(claims[t])
    IN  /\ pc[t] = "inside"
        /\ c.target \in Pins
        /\ IsTaken(c)
        /\ refused' = refused \cup {c}
        /\ Leave(t)
        /\ UNCHANGED <<lock, setup, granted, unheard, configured>>
LockIgnored(t) ==
    LET c == Head(claims[t])
    IN  /\ pc[t] = "inside"
        /\ c.target \in Pins
        /\ IsTaken(c)
        /\ ~c.must
        /\ refused' = refused \cup {c}
        /\ Leave(t)
        /\ UNCHANGED <<lock, setup, granted, unheard, configured>>

\* The pin is seen free; the owner is written, then the unit.
LockFree_Blindly(t) ==
    /\ pc[t] = "inside"
    /\ Head(claims[t]).target \in Pins
    /\ pc' = [pc EXCEPT ![t] = "owner"]
    /\ UNCHANGED <<lock, driver_mtx, setup, claims, granted, unheard, configured,
                   refused>>
LockFree(t) ==
    /\ pc[t] = "inside"
    /\ Head(claims[t]).target \in Pins
    /\ lock[Head(claims[t]).target].owner = NoDriver
    /\ pc' = [pc EXCEPT ![t] = "owner"]
    /\ UNCHANGED <<lock, driver_mtx, setup, claims, granted, unheard, configured,
                   refused>>

LockOwner(t) ==
    LET c == Head(claims[t])
    IN  /\ pc[t] = "owner"
        /\ lock' = [lock EXCEPT ![c.target].owner = c.driver]
        /\ pc' = [pc EXCEPT ![t] = "unit"]
        /\ UNCHANGED <<driver_mtx, setup, claims, granted, unheard, configured,
                       refused>>

LockUnit(t) ==
    LET c == Head(claims[t])
    IN  /\ pc[t] = "unit"
        /\ lock' = [lock EXCEPT ![c.target].unit = c.unit]
        /\ granted' = [granted EXCEPT ![t] = @ \cup {c}]
        /\ Leave(t)
        /\ UNCHANGED <<setup, unheard, configured, refused>>

\* Every claim was made: the setup configures the hardware and succeeds.
Configure(t) ==
    /\ pc[t] = "claim"
    /\ claims[t] = << >>
    /\ configured' = configured \cup
          {[setup |-> setup[t], granted |-> granted[t], unheard |-> unheard[t]]}
    /\ pc' = [pc EXCEPT ![t] = "idle"]
    /\ setup' = [setup EXCEPT ![t] = << >>]
    /\ granted' = [granted EXCEPT ![t] = {}]
    /\ unheard' = [unheard EXCEPT ![t] = {}]
    /\ UNCHANGED <<lock, driver_mtx, claims, refused>>

Next ==
    \E t \in Tasks :
        \/ \E s \in Setups : Begin(t, s)
        \/ Enter(t)
        \/ LockOpen(t)
        \/ LockAgain(t)
        \/ LockRevoked(t)
        \/ LockLost(t)
        \/ LockIgnored(t)
        \/ LockFree(t)
        \/ LockOwner(t)
        \/ LockUnit(t)
        \/ Configure(t)

\* The steps of a setup that a task has begun, the wait for the mutex apart.
Run(t) ==
    \/ LockOpen(t) \/ LockAgain(t) \/ LockRevoked(t) \/ LockLost(t)
    \/ LockIgnored(t) \/ LockFree(t) \/ LockOwner(t) \/ LockUnit(t) \/ Configure(t)

\* A task that can run does run, and the semaphore serves its waiters in turn:
\* FreeRTOS wakes the longest waiter of the highest priority, and the tasks
\* that set drivers up have the same one.
Fairness == \A t \in Tasks : WF_vars(Run(t)) /\ SF_vars(Enter(t))

Spec == Init /\ [][Next]_vars /\ Fairness

(***************************************************************************)
(* Properties                                                              *)
(***************************************************************************)
LockValue == [owner : Drivers \cup {NoDriver}, unit : Nat]

\* Every variable of driver_lock and of the setups has its type.
TypeOK ==
    /\ lock \in [Pins -> LockValue]
    /\ driver_mtx \in Tasks \cup {Nobody}
    /\ pc \in [Tasks -> {"idle", "claim", "inside", "owner", "unit"}]
    /\ setup \in [Tasks -> Seq(Claim)]
    /\ claims \in [Tasks -> Seq(Claim)]
    /\ granted \in [Tasks -> SUBSET Claim]
    /\ unheard \in [Tasks -> SUBSET Claim]
    /\ configured \subseteq
          [setup : Seq(Claim), granted : SUBSET Claim, unheard : SUBSET Claim]
    /\ refused \subseteq Claim

\* The lock of a pin, unless a task is between the two writes of driver_lock.
Settled(p) ==
    /\ lock[p].owner # NoDriver
    /\ \A t \in Tasks : pc[t] = "unit" => Head(claims[t]).target # p

\* driver_lock never takes a pin away from its unit: not for another setup, a
\* second setup of the same unit, nor after a setup that failed half way.
LocksAreKept ==
    [][\A p \in Pins : Settled(p) => lock'[p] = lock[p]]_vars

\* Two units that are both configured were never granted the same pin, in
\* whatever order their setups were interleaved.
PinsAreExclusive ==
    \A s, r \in configured : \A c \in s.granted, d \in r.granted :
        c.target = d.target => c.driver = d.driver /\ c.unit = d.unit

\* A setup is refused a pin only when another unit holds it for good: no claim
\* is lost to a lock seen half written, or to another claim of its own unit.
RefusalsAreJustified ==
    \A c \in refused :
        /\ Settled(c.target)
        /\ lock[c.target] # [owner |-> c.driver, unit |-> c.unit]

\* A configured unit holds the lock of every pin it drives, from then on.  Two
\* exceptions: the pin of an ADC channel, whose refusal adc_setup drops, and the
\* pins unheard of, because there was no memory for the error.
UsedPinsAreHeld ==
    \A s \in configured : \A i \in DOMAIN s.setup :
        LET c == s.setup[i]
        IN  c.target \in Pins =>
                \/ Settled(c.target) /\ IsMine(c)
                \/ ~c.must
                \/ c \in s.unheard

\* Every setup ends, configured or refused: driver_mtx is always given back.
SetupsEnd == \A t \in Tasks : pc[t] # "idle" ~> pc[t] = "idle"
=============================================================================
