-------------------------------- MODULE I2c --------------------------------
(***************************************************************************)
(* The I2C driver, drivers/i2c.c, for one unit.  A task builds a command,  *)
(* which the list transactions holds, in calls that each lock the unit,    *)
(* and the bus carries it out when it is stopped or flushed.  Each task    *)
(* has a transaction of its own, and the unit is a master.                 *)
(*                                                                         *)
(* Of a command only its being there matters: i2c_write_address, i2c_write *)
(* and i2c_read are one operation, "add".                                  *)
(***************************************************************************)
EXTENDS Integers, FiniteSets

CONSTANT Users  \* tasks with a transaction of the unit

VARIABLES
    at,            \* where each task is
    op,            \* the operation it is in
    sem,           \* count of the semaphore in the unit's mtx
    setup,         \* i2c[unit].setup
    transactions,  \* the tasks whose transaction is in the list
    loosened       \* a task gave the mutex without holding it, or used no mutex

vars == <<at, op, sem, setup, transactions, loosened>>

Init ==
    /\ at = [t \in Users |-> "idle"] /\ op = [t \in Users |-> "none"]
    /\ sem = 1 /\ setup = FALSE
    /\ transactions = {} /\ loosened = FALSE

Go(t, from, to) == at[t] = from /\ at' = [at EXCEPT ![t] = to]

\* The checks that come before the lock; i2c_flush makes none and locks nothing.
Call(t, o) ==
    /\ Go(t, "idle", "lock")
    /\ o # "setup" => setup
    /\ op' = [op EXCEPT ![t] = o]
    /\ UNCHANGED <<sem, setup, transactions, loosened>>

Enter(t) ==
    /\ Go(t, "lock", "in")
    /\ sem = 1 /\ sem' = 0
    /\ UNCHANGED <<op, setup, transactions, loosened>>

\* mtx_unlock before a return.
Leave(t, from) == Go(t, from, "idle") /\ sem' = 1

(***************************************************************************)
(* Errors: the function below unlocks, and so does its caller.             *)
(***************************************************************************)
\* i2c_create_or_get_command and i2c_flush_internal, when they fail.
Fail(t, from) == Go(t, from, "failed") /\ sem' = 1

\* The mtx_unlock of i2c_start, i2c_stop or i2c_flush after that.
LeaveAgain(t) ==
    /\ Leave(t, "failed")
    /\ loosened' = TRUE
    /\ UNCHANGED <<op, setup, transactions>>

(***************************************************************************)
(* The operations                                                          *)
(***************************************************************************)
\* i2c_setup: the driver is taken off and, unless a pin is refused, put on.
Setup_Kept(t, granted) ==
    /\ op[t] = "setup"
    /\ setup' = granted
    /\ IF granted THEN Leave(t, "in") ELSE (Go(t, "in", "idle") /\ UNCHANGED sem)
    /\ UNCHANGED <<op, transactions, loosened>>
Setup(t, granted) ==
    /\ op[t] = "setup"
    /\ setup' = granted
    /\ Leave(t, "in")
    /\ UNCHANGED <<op, transactions, loosened>>

\* i2c_start: the command is there, is created, or there is no memory for it.
StartDone(t) ==
    /\ op[t] = "start"
    /\ transactions' = transactions \cup {t}
    /\ Leave(t, "in")
    /\ UNCHANGED <<op, setup, loosened>>
StartFails(t) ==
    /\ op[t] = "start" /\ t \notin transactions
    /\ Fail(t, "in")
    /\ UNCHANGED <<op, setup, transactions, loosened>>

\* i2c_write_address, i2c_write, i2c_read: a command is added, or the
\* transaction is invalid; i2c_stop ends here when it is invalid.
Add_Keeps(t) ==
    /\ op[t] = "add" \/ (op[t] = "stop" /\ t \notin transactions)
    /\ IF t \in transactions THEN Leave(t, "in") ELSE (Go(t, "in", "idle") /\ UNCHANGED sem)
    /\ UNCHANGED <<op, setup, transactions, loosened>>
Add(t) ==
    /\ op[t] = "add" \/ (op[t] = "stop" /\ t \notin transactions)
    /\ Leave(t, "in")
    /\ UNCHANGED <<op, setup, transactions, loosened>>

\* i2c_stop goes on to i2c_flush_internal.
Stop_Unlocks(t) ==
    /\ op[t] = "stop" /\ t \in transactions
    /\ Go(t, "in", "bus") /\ sem' = 1
    /\ UNCHANGED <<op, setup, transactions, loosened>>
Stop(t) ==
    /\ op[t] = "stop" /\ t \in transactions
    /\ Go(t, "in", "bus")
    /\ UNCHANGED <<op, sem, setup, transactions, loosened>>

\* i2c_flush: i2c_get_command gives the mutex when there is no transaction.
FlushInvalid(t) ==
    /\ at[t] = "idle" /\ t \notin transactions
    /\ sem' = 1
    /\ loosened' = TRUE
    /\ UNCHANGED <<at, op, setup, transactions>>
Flush(t) ==
    /\ Go(t, "idle", "bus") /\ t \in transactions
    /\ op' = [op EXCEPT ![t] = "flush"]
    /\ loosened' = TRUE
    /\ UNCHANGED <<sem, setup, transactions>>

\* i2c_master_cmd_begin returns and the command is deleted.  Any result but
\* ESP_FAIL and ESP_ERR_TIMEOUT counts as success.
BusDone(t) ==
    /\ IF op[t] = "stop" THEN Leave(t, "bus") ELSE (Go(t, "bus", "flushed") /\ UNCHANGED sem)
    /\ transactions' = transactions \ {t}
    /\ UNCHANGED <<op, setup, loosened>>
BusFails(t) ==
    /\ IF op[t] = "stop" THEN Fail(t, "bus") ELSE Leave(t, "bus")
    /\ transactions' = transactions \ {t}
    /\ UNCHANGED <<op, setup, loosened>>

\* i2c_flush without new_transaction, and with it: then another command is
\* created, or not.
FlushReturns(t) ==
    /\ Go(t, "flushed", "idle")
    /\ UNCHANGED <<op, sem, setup, transactions, loosened>>
Renew(t) ==
    /\ Go(t, "flushed", "idle")
    /\ transactions' = transactions \cup {t}
    /\ UNCHANGED <<op, sem, setup, loosened>>
RenewFails(t) ==
    /\ Fail(t, "flushed")
    /\ UNCHANGED <<op, setup, transactions, loosened>>

Inside(t) ==
    \/ Setup(t, TRUE) \/ Setup(t, FALSE)
    \/ StartDone(t) \/ StartFails(t) \/ Add(t) \/ Stop(t)
    \/ BusDone(t) \/ BusFails(t) \/ FlushReturns(t) \/ Renew(t) \/ RenewFails(t) \/ LeaveAgain(t)

Next == \E t \in Users :
    \/ \E o \in {"setup", "start", "add", "stop"} : Call(t, o)
    \/ Enter(t) \/ Inside(t) \/ FlushInvalid(t) \/ Flush(t)

Spec == Init /\ [][Next]_vars

TypeOK ==
    /\ at \in [Users -> {"idle", "lock", "in", "bus", "failed", "flushed"}]
    /\ op \in [Users -> {"none", "setup", "start", "add", "stop", "flush"}]
    /\ sem \in {0, 1} /\ setup \in BOOLEAN
    /\ transactions \subseteq Users /\ loosened \in BOOLEAN

\* Whoever holds the unit between its mtx_lock and its mtx_unlock.
Holds(t) == at[t] = "in" \/ (at[t] = "bus" /\ op[t] = "stop")

\* Whatever fails, and however often the mutex was given for one lock, the unit
\* comes back: only a task that is inside an operation keeps it from the others.
I2cUnitComesBack == sem = 0 => \E t \in Users : Holds(t)

\* One task at a time works with the unit and its driver; this lasts until the
\* first error path that unlocks twice (no memory for a command in i2c_start, no
\* acknowledgement or no end of the bus in i2c_stop) or the first i2c_flush,
\* which is what i2c_read of the Lua module ends with.
I2cUnitIsExclusive == ~loosened =>
    \A t, u \in Users : Holds(t) /\ Holds(u) => t = u
=============================================================================
