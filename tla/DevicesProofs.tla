--------------------------- MODULE DevicesProofs ---------------------------
(***************************************************************************)
(* Theorems about the stepper driver, a unit of the I2C driver, a transfer *)
(* with Ymodem and the current directory, for any number of tasks, units,  *)
(* movements and blocks, and any directories.  Each of the four has an     *)
(* invariant of its own.                                                   *)
(***************************************************************************)
EXTENDS Devices, FiniteSetTheorems, SequenceTheorems, TLAPS

(***************************************************************************)
(* Stepper: the inductive invariant                                        *)
(***************************************************************************)
\* The pulses that a unit has had and the steps it has left make up the steps it
\* was asked for, until the last pulse.
Counting ==
    \A u \in Stepper!Units : made[u] < asked[u] => made[u] + steps[u] = asked[u]

\* With masks of one unit that has steps to make, a movement is one task's: its
\* unit is the only one that moves and keeps the semaphore, and has steps left;
\* and what a task awaits is moving.
Alone == proper =>
    /\ \A u \in start : made[u] < asked[u]
    /\ start # {} => stSem = 0 /\ \A t \in Users : stAt[t] # "done"
    /\ \A u, v \in start : u = v
    /\ \A t \in Users : awaits[t] \subseteq start

\* The task that has the semaphore after its wait has it alone.
Taken == proper => \A t \in Users : stAt[t] = "done" =>
    stSem = 0 /\ \A s \in Users : stAt[s] = "done" => s = t

StepperInv == Stepper!TypeOK /\ Counting /\ Alone /\ Taken

(***************************************************************************)
(* Stepper: sets of units                                                  *)
(***************************************************************************)
\* The first free unit of stepper_setup's loop is there.
LEMMA LeastNatural ==
    ASSUME NEW T \in SUBSET Nat, T # {}
    PROVE  \E x \in T : \A y \in T : x <= y
<1> DEFINE R == StrictSubsetOrdering(Nat)
           F == FiniteSubsetsOf(Nat)
           Below == {1 .. n : n \in T}
<1>1. IsWellFoundedOn(R, F)
  BY FS_StrictSubsetOrderingWellFounded
<1>2. Below \subseteq F /\ Below # {}
  <2>1. \A n \in T : 1 .. n \in SUBSET Nat
    OBVIOUS
  <2>2. \A n \in T : IsFiniteSet(1 .. n)
    BY FS_Interval
  <2> QED BY <2>1, <2>2 DEF FiniteSubsetsOf
<1>3. \A x, y \in Nat : y < x => <<1 .. y, 1 .. x>> \in R
  <2> SUFFICES ASSUME NEW x \in Nat, NEW y \in Nat, y < x
               PROVE  <<1 .. y, 1 .. x>> \in R
    OBVIOUS
  <2>1. x \in 1 .. x /\ x \notin 1 .. y /\ 1 .. y \subseteq 1 .. x /\ 1 .. x \subseteq Nat
    OBVIOUS
  <2> QED BY <2>1 DEF StrictSubsetOrdering
<1> HIDE DEF R, F
<1>4. \E x \in Below : \A y \in Below : ~ (<<y, x>> \in R)
  <2> HIDE DEF Below
  <2> QED BY <1>1, <1>2, WFMin
<1>5. PICK x \in T : \A y \in T : ~ (<<1 .. y, 1 .. x>> \in R)
  BY <1>4
<1>6. \A y \in T : ~ (y < x)
  BY <1>3, <1>5
<1> QED BY <1>6

LEMMA FirstFree ==
    ASSUME NEW S \in SUBSET Nat, S # {}
    PROVE  Stepper!Min(S) \in S
  BY LeastNatural DEF Stepper!Min

(***************************************************************************)
(* Stepper: types                                                          *)
(***************************************************************************)
LEMMA LessIsSteps ==
    ASSUME NEW n \in 0 .. StepsLimit - 1 PROVE Stepper!Less(n) \in 0 .. StepsLimit - 1
  BY DevicesAssumption DEF Stepper!Less

LEMMA TypeStep == ASSUME Stepper!TypeOK, [Stepper!Next]_stepperVars PROVE Stepper!TypeOK'
<1> USE DEF Stepper!TypeOK
<1>1. ASSUME NEW t \in Users, Stepper!Attach(t) PROVE Stepper!TypeOK'
  <2>0. Stepper!Units \ stSetup \in SUBSET Nat
    BY DevicesAssumption DEF Stepper!Units
  <2>1. ~(Stepper!Units \subseteq stSetup) => Stepper!Min(Stepper!Units \ stSetup) \in Stepper!Units \ stSetup
    BY <2>0, FirstFree
  <2>2. 0 \in Stepper!Units
    BY DevicesAssumption DEF Stepper!Units
  <2>3. stSetup \subseteq stSetup' /\ stSetup' \subseteq Stepper!Units
    BY <1>1, <2>1, <2>2 DEF Stepper!Attach
  <2> QED BY <1>1, <2>3 DEF Stepper!Attach
<1>2. ASSUME NEW t \in Users, NEW u \in Stepper!Units, NEW n \in 0 .. MaxSteps, Stepper!Move(t, u, n)
      PROVE  Stepper!TypeOK'
  BY <1>2, DevicesAssumption DEF Stepper!Move
<1>3. ASSUME NEW t \in Users, NEW units \in SUBSET stSetup, Stepper!Start(t, units)
      PROVE  Stepper!TypeOK'
  <2>1. proper' \in BOOLEAN /\ blank' \in BOOLEAN /\ calls' \in Nat
    BY <1>3 DEF Stepper!Start, Stepper!Note
  <2> QED BY <1>3, <2>1 DEF Stepper!Start, Stepper!Note, Stepper!Go
<1>4. ASSUME NEW t \in Users, Stepper!Started(t) PROVE Stepper!TypeOK'
  BY <1>4 DEF Stepper!Started, Stepper!StartTaken, Stepper!StartReturn, Stepper!Go
<1>5. ASSUME NEW due \in SUBSET Stepper!Units, Stepper!Isr(due) PROVE Stepper!TypeOK'
  <2>1. \A u \in Stepper!Units : Stepper!Less(steps[u]) \in 0 .. StepsLimit - 1
    BY LessIsSteps
  <2>2. steps' \in [Stepper!Units -> 0 .. StepsLimit - 1] /\ made' \in [Stepper!Units -> Nat]
    BY <1>5, <2>1 DEF Stepper!Isr
  <2> QED BY <1>5, <2>2 DEF Stepper!Isr
<1>6. CASE UNCHANGED stepperVars
  BY <1>6 DEF stepperVars
<1> QED BY <1>1, <1>2, <1>3, <1>4, <1>5, <1>6 DEF Stepper!Next, Stepper!Makes

(***************************************************************************)
(* Stepper: counting                                                       *)
(***************************************************************************)
\* One interrupt, for a unit that has steps to make.
LEMMA OnePulse ==
    ASSUME Stepper!TypeOK, Counting, NEW due \in SUBSET Stepper!Units, Stepper!Isr(due),
           NEW u \in due, made[u] < asked[u]
    PROVE  IF steps[u] = 1
           THEN made'[u] = asked[u]
           ELSE made'[u] + steps'[u] = asked[u] /\ made'[u] < asked[u]
<1>1. /\ made' = [v \in Stepper!Units |-> IF v \in due THEN made[v] + 1 ELSE made[v]]
      /\ steps' = [v \in Stepper!Units |->
            IF v \in due \ {w \in due : steps[w] = 1} THEN Stepper!Less(steps[v]) ELSE steps[v]]
  BY DEF Stepper!Isr
<1>2. made[u] \in Nat /\ asked[u] \in Nat /\ steps[u] \in Nat /\ made[u] + steps[u] = asked[u]
  BY DevicesAssumption DEF Stepper!TypeOK, Counting
<1>3. made'[u] = made[u] + 1 /\ (steps[u] # 1 => steps'[u] = Stepper!Less(steps[u]))
  BY <1>1
<1>4. steps[u] # 0
  BY <1>2
<1> QED BY <1>2, <1>3, <1>4 DEF Stepper!Less

LEMMA CountingStep == ASSUME Stepper!TypeOK, Counting, [Stepper!Next]_stepperVars PROVE Counting'
<1> USE DEF Stepper!TypeOK, Counting
<1>1. ASSUME NEW t \in Users, NEW u \in Stepper!Units, NEW n \in 0 .. MaxSteps, Stepper!Move(t, u, n)
      PROVE  Counting'
  BY <1>1, DevicesAssumption DEF Stepper!Move
<1>2. ASSUME NEW due \in SUBSET Stepper!Units, Stepper!Isr(due) PROVE Counting'
  <2> SUFFICES ASSUME NEW u \in Stepper!Units, made'[u] < asked'[u]
               PROVE  made'[u] + steps'[u] = asked'[u]
    OBVIOUS
  <2>1. asked' = asked /\ made[u] \in Nat /\ asked[u] \in Nat
    BY <1>2 DEF Stepper!Isr
  <2>2. CASE u \in due
    <3>1. made'[u] = made[u] + 1
      BY <1>2, <2>2 DEF Stepper!Isr
    <3>2. made[u] < asked[u]
      BY <2>1, <3>1
    <3> QED BY <1>2, <2>1, <2>2, <3>2, OnePulse
  <2>3. CASE u \notin due
    BY <1>2, <2>1, <2>3 DEF Stepper!Isr
  <2> QED BY <2>2, <2>3
<1>3. ASSUME UNCHANGED <<steps, asked, made>> PROVE Counting'
  BY <1>3
<1> QED BY <1>1, <1>2, <1>3
     DEF Stepper!Next, Stepper!Makes, Stepper!Attach, Stepper!Start, Stepper!Started, Stepper!StartTaken, Stepper!StartReturn, stepperVars

(***************************************************************************)
(* Stepper: the semaphore                                                  *)
(***************************************************************************)
LEMMA AloneStep ==
    ASSUME StepperInv, [Stepper!Next]_stepperVars PROVE Alone' /\ Taken'
<1> USE DEF StepperInv, Stepper!TypeOK, Alone, Taken
<1> SUFFICES ASSUME proper' PROVE Alone' /\ Taken'
  OBVIOUS
<1>1. ASSUME NEW t \in Users, Stepper!Attach(t) PROVE Alone' /\ Taken'
  BY <1>1 DEF Stepper!Attach
<1>2. ASSUME NEW t \in Users, NEW u \in Stepper!Units, NEW n \in 0 .. MaxSteps, Stepper!Move(t, u, n)
      PROVE  Alone' /\ Taken'
  <2>1. start = {}
    BY <1>2 DEF Stepper!Move
  <2> QED BY <1>2, <2>1 DEF Stepper!Move
<1>3. ASSUME NEW t \in Users, NEW units \in SUBSET stSetup, Stepper!Start(t, units)
      PROVE  Alone' /\ Taken'
  <2>1. proper /\ \E u \in Stepper!Pending : units = {u}
    BY <1>3 DEF Stepper!Start, Stepper!Note
  <2>2. PICK u \in Stepper!Pending : units = {u}
    BY <2>1
  <2>3. /\ stSem = 1 /\ stSem' = 0 /\ stAt' = [stAt EXCEPT ![t] = "wait"]
        /\ start' = start \cup units /\ awaits' = [awaits EXCEPT ![t] = units]
        /\ UNCHANGED <<made, asked>>
    BY <1>3 DEF Stepper!Start, Stepper!Note, Stepper!Go
  <2>4. start = {} /\ (\A s \in Users : awaits[s] = {} /\ stAt[s] # "done")
    BY <2>1, <2>3
  <2>5. made[u] < asked[u]
    BY DEF Stepper!Pending
  <2>7. (\A s \in Users : stAt'[s] # "done") /\ start' = {u} /\ \A s \in Users : awaits'[s] \subseteq {u}
    BY <2>2, <2>3, <2>4
  <2> QED BY <2>3, <2>5, <2>7
<1>4. ASSUME NEW t \in Users, Stepper!StartTaken(t) PROVE Alone' /\ Taken'
  <2>1. /\ stSem = 1 /\ stSem' = 0 /\ stAt' = [stAt EXCEPT ![t] = "done"] /\ UNCHANGED <<start, awaits, proper>>
    BY <1>4 DEF Stepper!StartTaken, Stepper!Go
  <2>2. start = {} /\ (\A s \in Users : stAt[s] # "done")
    BY <2>1
  <2>3. \A s \in Users : stAt'[s] = "done" => s = t
    BY <2>1, <2>2
  <2> QED BY <2>1, <2>2, <2>3
<1>5. ASSUME NEW t \in Users, Stepper!StartReturn(t) PROVE Alone' /\ Taken'
  <2>1. /\ stAt[t] = "done" /\ stAt' = [stAt EXCEPT ![t] = "idle"]
        /\ awaits' = [awaits EXCEPT ![t] = {}] /\ UNCHANGED <<start, proper>>
    BY <1>5 DEF Stepper!StartReturn, Stepper!Go
  <2>2. start = {}
    BY <2>1
  <2>3. \A s \in Users : stAt'[s] # "done" /\ awaits'[s] = {}
    BY <2>1, <2>2
  <2> QED BY <2>1, <2>2, <2>3
<1>6. ASSUME NEW due \in SUBSET Stepper!Units, Stepper!Isr(due) PROVE Alone' /\ Taken'
  <2> DEFINE stopped == {u \in due : steps[u] = 1}
  <2>1. /\ due # {} /\ due \subseteq start /\ start' = start \ stopped
        /\ stSem' = (IF stopped # {} THEN 1 ELSE stSem)
        /\ awaits' = [t \in Users |-> awaits[t] \ {u \in stopped : made'[u] = asked[u]}]
        /\ stAt' = stAt /\ proper' = proper /\ asked' = asked
    BY <1>6 DEF Stepper!Isr
  <2>2. \A u \in due : made[u] < asked[u]
    BY <2>1
  <2>3. (\A u \in stopped : made'[u] = asked[u]) /\ \A u \in due \ stopped : made'[u] < asked[u]
    BY <1>6, <2>2, OnePulse
  <2>4. \A u \in start' : made'[u] < asked'[u]
    <3> SUFFICES ASSUME NEW u \in start' PROVE made'[u] < asked'[u]
      OBVIOUS
    <3>1. CASE u \in due
      BY <2>1, <2>3, <3>1
    <3>2. CASE u \notin due
      <4>1. made'[u] = made[u]
        BY <1>6, <2>1, <3>2 DEF Stepper!Isr
      <4> QED BY <2>1, <4>1
    <3> QED BY <3>1, <3>2
  <2>5. \A t \in Users : awaits'[t] \subseteq start'
    BY <2>1, <2>3
  <2>6. \A t \in Users : stAt'[t] # "done"
    BY <2>1
  <2>7. start' # {} => stopped = {}
    BY <2>1
  <2> QED BY <2>1, <2>4, <2>5, <2>6, <2>7
<1>7. CASE UNCHANGED stepperVars
  BY <1>7 DEF stepperVars
<1> QED BY <1>1, <1>2, <1>3, <1>4, <1>5, <1>6, <1>7 DEF Stepper!Next, Stepper!Started, Stepper!Makes

(***************************************************************************)
(* I2c: the inductive invariant                                            *)
(***************************************************************************)
\* Until something loosens the mutex, the bus is used with it, and whoever holds
\* the unit has taken it.
I2cStrict == ~loosened =>
    /\ \A t \in Users : i2cAt[t] # "flushed" /\ (i2cAt[t] = "bus" => i2cOp[t] = "stop")
    /\ \A t \in Users : I2c!Holds(t) => i2cSem = 0

I2cInv == I2c!TypeOK /\ I2cUnitComesBack /\ I2cStrict /\ I2cUnitIsExclusive

(***************************************************************************)
(* I2c: steps                                                              *)
(***************************************************************************)
\* A step of one task does not make another a holder or take the unit from it.
LEMMA OtherUsers ==
    ASSUME I2c!TypeOK, NEW t \in Users,
           \E where : i2cAt' = [i2cAt EXCEPT ![t] = where],
           i2cOp' = i2cOp \/ \E o : i2cOp' = [i2cOp EXCEPT ![t] = o]
    PROVE  \A u \in Users : u # t => i2cAt'[u] = i2cAt[u] /\ i2cOp'[u] = i2cOp[u] /\ (I2c!Holds(u)' <=> I2c!Holds(u))
  BY DEF I2c!TypeOK, I2c!Holds

\* An operation that ends, or fails: the mutex is free, and nobody holds the unit
\* as long as it is strict.
LEMMA UnitGiven ==
    ASSUME I2cInv, NEW t \in Users, I2c!Holds(t) \/ loosened',
           NEW where \in {"idle", "failed"}, i2cAt' = [i2cAt EXCEPT ![t] = where],
           i2cOp' = i2cOp, i2cSem' = 1, loosened' = loosened \/ loosened' = TRUE
    PROVE  I2cUnitComesBack' /\ I2cStrict' /\ I2cUnitIsExclusive'
<1>1. i2cAt'[t] = where /\ ~I2c!Holds(t)'
  BY DEF I2cInv, I2c!TypeOK, I2c!Holds
<1>2. \A u \in Users : u # t => i2cAt'[u] = i2cAt[u] /\ i2cOp'[u] = i2cOp[u] /\ (I2c!Holds(u)' <=> I2c!Holds(u))
  BY OtherUsers DEF I2cInv
<1>3. ~loosened' => \A u \in Users : ~I2c!Holds(u)'
  BY <1>1, <1>2 DEF I2cInv, I2cUnitIsExclusive, I2c!I2cUnitIsExclusive
<1>4. ~loosened' => \A u \in Users : i2cAt'[u] # "flushed" /\ (i2cAt'[u] = "bus" => i2cOp'[u] = "stop")
  BY <1>1, <1>2 DEF I2cInv, I2cStrict
<1> QED BY <1>3, <1>4 DEF I2cUnitComesBack, I2c!I2cUnitComesBack, I2cStrict, I2cUnitIsExclusive, I2c!I2cUnitIsExclusive

LEMMA I2cStep == I2cInv /\ [I2c!Next]_i2cVars => I2cInv'
<1> SUFFICES ASSUME I2cInv, [I2c!Next]_i2cVars PROVE I2cInv'
  OBVIOUS
<1> USE DEF I2c!Go, I2c!Leave, I2c!Fail
<1>1. ASSUME NEW t \in Users, NEW o \in {"setup", "start", "add", "stop"}, I2c!Call(t, o)
      PROVE  I2cInv'
  <2>1. \A u \in Users : u # t => i2cAt'[u] = i2cAt[u] /\ i2cOp'[u] = i2cOp[u] /\ (I2c!Holds(u)' <=> I2c!Holds(u))
    BY <1>1, OtherUsers DEF I2c!Call, I2cInv
  <2>2. i2cAt[t] = "idle" /\ i2cAt'[t] = "lock" /\ ~I2c!Holds(t) /\ ~I2c!Holds(t)' /\ UNCHANGED <<i2cSem, loosened>>
    BY <1>1 DEF I2c!Call, I2cInv, I2c!TypeOK, I2c!Holds
  <2>3. I2c!TypeOK'
    BY <1>1 DEF I2c!Call, I2cInv, I2c!TypeOK
  <2> QED BY <2>1, <2>2, <2>3 DEF I2cInv, I2cUnitComesBack, I2c!I2cUnitComesBack, I2cStrict, I2cUnitIsExclusive, I2c!I2cUnitIsExclusive
<1>2. ASSUME NEW t \in Users, I2c!Enter(t) PROVE I2cInv'
  <2>1. \A u \in Users : u # t => i2cAt'[u] = i2cAt[u] /\ i2cOp'[u] = i2cOp[u] /\ (I2c!Holds(u)' <=> I2c!Holds(u))
    BY <1>2, OtherUsers DEF I2c!Enter, I2cInv
  <2>2. i2cAt'[t] = "in" /\ I2c!Holds(t)' /\ i2cSem = 1 /\ i2cSem' = 0 /\ loosened' = loosened
    BY <1>2 DEF I2c!Enter, I2cInv, I2c!TypeOK, I2c!Holds
  <2>3. I2c!TypeOK'
    BY <1>2 DEF I2c!Enter, I2cInv, I2c!TypeOK
  <2> QED BY <2>1, <2>2, <2>3 DEF I2cInv, I2cUnitComesBack, I2c!I2cUnitComesBack, I2cStrict, I2cUnitIsExclusive, I2c!I2cUnitIsExclusive
<1>3. ASSUME NEW t \in Users, I2c!Setup(t, TRUE) \/ I2c!Setup(t, FALSE) \/ I2c!StartDone(t) \/ I2c!StartFails(t) \/ I2c!Add(t)
      PROVE I2cInv'
  <2>1. I2c!TypeOK'
    BY <1>3 DEF I2c!Setup, I2c!StartDone, I2c!StartFails, I2c!Add, I2cInv, I2c!TypeOK
  <2> QED BY <1>3, <2>1, UnitGiven DEF I2c!Setup, I2c!StartDone, I2c!StartFails, I2c!Add, I2cInv, I2c!Holds
<1>4. ASSUME NEW t \in Users, I2c!Stop(t) PROVE I2cInv'
  <2>1. \A u \in Users : u # t => i2cAt'[u] = i2cAt[u] /\ i2cOp'[u] = i2cOp[u] /\ (I2c!Holds(u)' <=> I2c!Holds(u))
    BY <1>4, OtherUsers DEF I2c!Stop, I2cInv
  <2>2. I2c!Holds(t) /\ I2c!Holds(t)' /\ i2cAt'[t] = "bus" /\ i2cOp'[t] = "stop" /\ UNCHANGED <<i2cSem, loosened>>
    BY <1>4 DEF I2c!Stop, I2cInv, I2c!TypeOK, I2c!Holds
  <2>3. I2c!TypeOK'
    BY <1>4 DEF I2c!Stop, I2cInv, I2c!TypeOK
  <2> QED BY <2>1, <2>2, <2>3 DEF I2cInv, I2cUnitComesBack, I2c!I2cUnitComesBack, I2cStrict, I2cUnitIsExclusive, I2c!I2cUnitIsExclusive
<1>5. ASSUME NEW t \in Users, I2c!FlushInvalid(t) PROVE I2cInv'
  BY <1>5 DEF I2c!FlushInvalid, I2cInv, I2c!TypeOK, I2cUnitComesBack, I2c!I2cUnitComesBack, I2cStrict, I2cUnitIsExclusive, I2c!I2cUnitIsExclusive
<1>6. ASSUME NEW t \in Users, loosened',
             I2c!Flush(t) \/ I2c!FlushReturns(t) \/ I2c!Renew(t) \/ (I2c!BusDone(t) /\ i2cOp[t] # "stop")
      PROVE  I2cInv'
  <2>1. \A u \in Users : u # t => i2cAt'[u] = i2cAt[u] /\ i2cOp'[u] = i2cOp[u] /\ (I2c!Holds(u)' <=> I2c!Holds(u))
    BY <1>6, OtherUsers DEF I2c!Flush, I2c!FlushReturns, I2c!Renew, I2c!BusDone, I2cInv
  <2>2. ~I2c!Holds(t) /\ i2cSem' = i2cSem
    BY <1>6 DEF I2c!Flush, I2c!FlushReturns, I2c!Renew, I2c!BusDone, I2cInv, I2c!TypeOK, I2c!Holds
  <2>3. I2c!TypeOK'
    BY <1>6 DEF I2c!Flush, I2c!FlushReturns, I2c!Renew, I2c!BusDone, I2cInv, I2c!TypeOK
  <2> QED BY <1>6, <2>1, <2>2, <2>3 DEF I2cInv, I2cUnitComesBack, I2c!I2cUnitComesBack, I2cStrict, I2cUnitIsExclusive, I2c!I2cUnitIsExclusive
<1>7. ASSUME NEW t \in Users, I2c!LeaveAgain(t) \/ I2c!RenewFails(t) \/ I2c!BusFails(t) \/ (I2c!BusDone(t) /\ i2cOp[t] = "stop")
      PROVE  I2cInv'
  <2>1. I2c!TypeOK'
    BY <1>7 DEF I2c!LeaveAgain, I2c!RenewFails, I2c!BusFails, I2c!BusDone, I2cInv, I2c!TypeOK
  <2>2. I2c!Holds(t) \/ loosened'
    BY <1>7 DEF I2c!LeaveAgain, I2c!RenewFails, I2c!BusFails, I2c!BusDone, I2cInv, I2cStrict, I2c!Holds
  <2> QED BY <1>7, <2>1, <2>2, UnitGiven DEF I2c!LeaveAgain, I2c!RenewFails, I2c!BusFails, I2c!BusDone, I2cInv
<1>8. ASSUME NEW t \in Users, I2c!FlushReturns(t) \/ I2c!Renew(t) \/ (I2c!BusDone(t) /\ i2cOp[t] # "stop")
      PROVE  loosened'
  BY <1>8 DEF I2c!FlushReturns, I2c!Renew, I2c!BusDone, I2cInv, I2cStrict
<1>9. CASE UNCHANGED i2cVars
  BY <1>9 DEF i2cVars, I2cInv, I2c!TypeOK, I2cUnitComesBack, I2c!I2cUnitComesBack, I2cStrict, I2cUnitIsExclusive, I2c!I2cUnitIsExclusive, I2c!Holds
<1> QED BY <1>1, <1>2, <1>3, <1>4, <1>5, <1>6, <1>7, <1>8, <1>9 DEF I2c!Next, I2c!Inside, I2c!Flush

(***************************************************************************)
(* Ymodem: the inductive invariant                                         *)
(***************************************************************************)
\* No message of these kinds is on the line, or at most one; all are in a set.
NoneOf(line, kinds) == \A i \in 1 .. Len(line) : line[i][1] \notin kinds
OneOf(line, kinds) == \A i, j \in 1 .. Len(line) :
    line[i][1] \in kinds /\ line[j][1] \in kinds => i = j
Among(line, set) == \A i \in 1 .. Len(line) : line[i] \in set

Frame == {"packet", "last", "bad", "EOT"}
Reply == {"ACK", "NAK"}

\* What the sender sends and, after a NAK, sends again.
Due == CASE sender \in {"name", "block"} -> Ymodem!Packet(sent)
         [] sender = "eot" -> Ymodem!Byte("EOT")
         [] sender = "last" -> Ymodem!Last
         [] OTHER -> Ymodem!Byte("C")

\* Where the sender expects no answer to a frame.
Quiet == {"hello", "nameC", "eotC", "done"}

\* Where all blocks have been sent and acknowledged.
Ending == {"eot", "eotC", "last", "done"}

YmodemTypes ==
    /\ sender \in Quiet \cup Ending \cup {"name", "block", "failed"}
    /\ sent \in 0 .. Blocks /\ tries \in 0 .. MAX_ERRORS
    /\ sender = "name" => sent = 0
    /\ toReceiver \in Seq(Ymodem!Messages) /\ toSender \in Seq(Ymodem!Answers)
    /\ receiver \in {"runs", "file", "failed"}
    /\ packets_received \in 0 .. Blocks + 1 /\ eof_cnt \in 0 .. 2 /\ errors \in Nat

\* Until the sender fails, one frame or one answer to it is under way, and the
\* frame is the one that is due.
Alternating == sender # "failed" =>
    /\ Among(toReceiver, {Ymodem!Byte("C"), Ymodem!Byte("junk"), Ymodem!Bad, Due})
    /\ OneOf(toReceiver, Frame) /\ OneOf(toSender, Reply)
    /\ NoneOf(toReceiver, Frame) \/ NoneOf(toSender, Reply)
    /\ sender \in Quiet => NoneOf(toReceiver, Frame) /\ NoneOf(toSender, Reply)

\* The ACK of a packet says that it was taken.
Acked ==
    sender \in {"name", "block"} /\ ~NoneOf(toSender, {"ACK"}) => packets_received = sent + 1

\* The end of the file is sent, and read, only when all packets have been taken.
Over ==
    /\ sender \in Ending \/ ~NoneOf(toReceiver, {"EOT", "last"}) \/ eof_cnt > 0
           => packets_received = Blocks + 1
    /\ eof_cnt > 0 => sender \in Ending \cup {"failed"}
    /\ receiver = "file" => eof_cnt > 1

\* The file has the blocks of the packets that were taken, in order.
Writing ==
    /\ written \in Seq(1 .. Blocks)
    /\ Len(written) = IF packets_received = 0 THEN 0 ELSE packets_received - 1
    /\ \A i \in 1 .. Len(written) : written[i] = i

YmodemInv == YmodemTypes /\ Alternating /\ Acked /\ Over /\ Writing

(***************************************************************************)
(* Ymodem: the line                                                        *)
(***************************************************************************)
\* A message is read, or with it all that has come.
LEMMA LineReads ==
    ASSUME NEW S, NEW line \in Seq(S), NEW rest,
           rest = line \/ rest = << >> \/ (line # << >> /\ rest = Tail(line))
    PROVE  /\ rest \in Seq(S)
           /\ \A k : NoneOf(line, k) => NoneOf(rest, k)
           /\ \A k : OneOf(line, k) => OneOf(rest, k)
           /\ \A T : Among(line, T) => Among(rest, T)
<1>1. CASE rest = line
  BY <1>1
<1>2. CASE rest = << >>
  BY <1>2 DEF NoneOf, OneOf, Among
<1>3. CASE line # << >> /\ rest = Tail(line)
  <2>1. rest \in Seq(S) /\ Len(rest) = Len(line) - 1 /\ Len(line) \in Nat
    BY <1>3
  <2>2. \A i \in 1 .. Len(Tail(line)) :
            i + 1 \in 1 .. Len(line) /\ Tail(line)[i] = line[i + 1]
    <3>1. line # << >> /\ Len(Tail(line)) = Len(line) - 1 /\ Len(line) \in Nat
      BY <1>3
    <3> QED BY <3>1
  <2>3. \A i, j \in 1 .. Len(rest) : i + 1 = j + 1 => i = j
    OBVIOUS
  <2>4. \A i \in 1 .. Len(rest) : i + 1 \in 1 .. Len(line) /\ rest[i] = line[i + 1]
    BY <1>3, <2>2
  <2>5. \A k : NoneOf(line, k) => NoneOf(rest, k)
    BY <2>4 DEF NoneOf
  <2>6. \A k : OneOf(line, k) => OneOf(rest, k)
    BY <2>3, <2>4 DEF OneOf
  <2>7. \A T : Among(line, T) => Among(rest, T)
    BY <2>4 DEF Among
  <2> QED BY <2>1, <2>5, <2>6, <2>7
<1> QED BY <1>1, <1>2, <1>3

\* When the only message of some kinds is read, none is left.
LEMMA LineReadsOnly ==
    ASSUME NEW S, NEW line \in Seq(S), line # << >>, NEW k, OneOf(line, k), Head(line)[1] \in k
    PROVE  NoneOf(Tail(line), k)
<1>1. Len(Tail(line)) = Len(line) - 1 /\ Len(line) \in Nat /\ 1 \in 1 .. Len(line)
  OBVIOUS
<1>2. \A i \in 1 .. Len(Tail(line)) :
          i + 1 \in 1 .. Len(line) /\ Tail(line)[i] = line[i + 1] /\ i + 1 # 1
  BY <1>1
<1>3. Head(line) = line[1]
  OBVIOUS
<1> QED BY <1>1, <1>2, <1>3 DEF OneOf, NoneOf

\* What a message may become on the line.
Garbled(m) == IF m[1] \in {"packet", "last"} THEN Ymodem!Bad ELSE Ymodem!Byte("junk")

\* A message is carried: it arrives, is lost or is garbled.
LEMMA LineCarries ==
    ASSUME NEW S, NEW line \in Seq(S), NEW m \in S, Garbled(m) \in S,
           NEW a \in Ymodem!Arrivals(m), NEW new, new = line \o a
    PROVE  /\ new \in Seq(S)
           /\ \A k : NoneOf(line, k) /\ m[1] \notin k /\ Garbled(m)[1] \notin k => NoneOf(new, k)
           /\ \A k : OneOf(line, k) /\ m[1] \notin k /\ Garbled(m)[1] \notin k => OneOf(new, k)
           /\ \A k : NoneOf(line, k) => OneOf(new, k)
           /\ \A T : Among(line, T) /\ m \in T /\ Garbled(m) \in T => Among(new, T)
<1>1. CASE a = << >>
  <2>1. new = line
    BY <1>1
  <2> QED BY <2>1 DEF NoneOf, OneOf
<1>2. CASE \E x \in {m, Garbled(m)} : a = <<x>>
  <2>1. PICK x \in {m, Garbled(m)} : a = <<x>>
    BY <1>2
  <2>2. new \in Seq(S) /\ Len(new) = Len(line) + 1 /\ Len(line) \in Nat
    BY <2>1
  <2>3. \A i \in 1 .. Len(new) :
            (i \in 1 .. Len(line) /\ new[i] = line[i]) \/ (i = Len(line) + 1 /\ new[i] = x)
    BY <2>1, <2>2
  <2>4. Len(line) + 1 \notin 1 .. Len(line)
    BY <2>2
  <2> HIDE DEF Garbled
  <2> QED BY <2>2, <2>3, <2>4 DEF NoneOf, OneOf, Among
<1>3. a \in {<<m>>, << >>, <<Garbled(m)>>}
  BY DEF Ymodem!Arrivals, Garbled
<1> QED BY <1>1, <1>2, <1>3
\* What the kinds of messages say of the messages.
LEMMA MessageKinds ==
    ASSUME NEW h \in Ymodem!Messages
    PROVE  /\ h[1] = "packet" => \E n \in 0 .. Blocks : h = Ymodem!Packet(n) /\ h[2] = n
           /\ h[1] = "last" => h = Ymodem!Last /\ h[2] = 0
           /\ h[1] = "EOT" <=> h = Ymodem!Byte("EOT")
           /\ h[1] = "bad" <=> h = Ymodem!Bad
           /\ h[1] = "CA" <=> h = Ymodem!Byte("CA")
  BY DEF Ymodem!Messages, Ymodem!Packet, Ymodem!Last, Ymodem!Byte, Ymodem!Bad

\* A line without frames carries bytes only.
LEMMA NoFrames ==
    ASSUME NEW line, NoneOf(line, Frame),
           Among(line, {Ymodem!Byte("C"), Ymodem!Byte("junk"), Ymodem!Bad, Due})
    PROVE  Among(line, {Ymodem!Byte("C"), Ymodem!Byte("junk")})
<1>1. Due[1] \in Frame \/ Due = Ymodem!Byte("C")
  BY DEF Due, Frame, Ymodem!Packet, Ymodem!Byte, Ymodem!Last
<1>2. Ymodem!Bad[1] \in Frame
  BY DEF Frame, Ymodem!Bad
<1> HIDE DEF Due, Frame
<1> QED BY <1>1, <1>2 DEF NoneOf, Among

(***************************************************************************)
(* Ymodem: steps of the sender                                             *)
(***************************************************************************)
\* The sender gives up.
LEMMA SenderFails ==
    ASSUME YmodemInv, Ymodem!Transmit(Ymodem!Byte("CA")), sender' = "failed",
           toSender' = toSender \/ (toSender # << >> /\ toSender' = Tail(toSender)),
           UNCHANGED <<sent, tries, receiver, packets_received, errors, eof_cnt, written>>
    PROVE  YmodemInv'
<1> DEFINE m == Ymodem!Byte("CA")
<1>1. /\ m \in Ymodem!Messages /\ Garbled(m) \in Ymodem!Messages
      /\ m[1] \notin {"EOT", "last"} /\ Garbled(m)[1] \notin {"EOT", "last"}
  BY DEF Ymodem!Messages, Garbled, Ymodem!Byte
<1>2. PICK a \in Ymodem!Arrivals(m) : toReceiver' = toReceiver \o a
  BY DEF Ymodem!Transmit
<1> HIDE DEF m
<1>3. toReceiver \in Seq(Ymodem!Messages) /\ toSender \in Seq(Ymodem!Answers)
  BY DEF YmodemInv, YmodemTypes
<1>4. toReceiver' \in Seq(Ymodem!Messages)
  BY <1>1, <1>2, <1>3, LineCarries
<1>5. NoneOf(toReceiver, {"EOT", "last"}) => NoneOf(toReceiver', {"EOT", "last"})
  <2> DEFINE k == {"EOT", "last"}
  <2>1. m[1] \notin k /\ Garbled(m)[1] \notin k
    BY <1>1
  <2> HIDE DEF k
  <2>2. NoneOf(toReceiver, k) => NoneOf(toReceiver', k)
    BY <1>1, <1>2, <1>3, <2>1, LineCarries
  <2> QED BY <2>2 DEF k
<1>6. toSender' \in Seq(Ymodem!Answers)
  BY <1>3, LineReads
<1>7. YmodemTypes'
  BY <1>4, <1>6 DEF YmodemInv, YmodemTypes, Quiet, Ending
<1>8. Alternating' /\ Acked'
  BY DEF Alternating, Acked
<1>9. Over' /\ Writing'
  BY <1>5 DEF YmodemInv, Over, Writing, Ending
<1> QED BY <1>7, <1>8, <1>9 DEF YmodemInv

Waiting == {"name", "block", "eot", "last"}

\* The sender sends a frame, with nothing of its exchange left under way.
LEMMA SenderFrame ==
    ASSUME YmodemInv, sender # "failed",
           NoneOf(toReceiver, Frame), NoneOf(toSender', Reply), toSender' \in Seq(Ymodem!Answers),
           sender' \in Waiting, Ymodem!Transmit(Due'),
           sent' \in 0 .. Blocks, sender' = "name" => sent' = 0,
           sender' \in Ending => packets_received = Blocks + 1,
           eof_cnt > 0 => sender' \in Ending,
           UNCHANGED <<tries, receiver, packets_received, errors, eof_cnt, written>>
    PROVE  YmodemInv'
<1> DEFINE Bytes == {Ymodem!Byte("C"), Ymodem!Byte("junk")}
<1>1. /\ Due' \in Ymodem!Messages /\ Garbled(Due') \in Ymodem!Messages
      /\ Garbled(Due') \in {Ymodem!Bad, Ymodem!Byte("junk")}
      /\ Garbled(Due')[1] \notin {"EOT", "last"}
      /\ sender' \notin Ending => Due'[1] \notin {"EOT", "last"}
  BY DEF Due, Waiting, Ending, Ymodem!Messages, Garbled, Ymodem!Byte, Ymodem!Packet, Ymodem!Last, Ymodem!Bad
<1>2. PICK a \in Ymodem!Arrivals(Due') : toReceiver' = toReceiver \o a
  BY DEF Ymodem!Transmit
<1>3. toReceiver \in Seq(Ymodem!Messages)
  BY DEF YmodemInv, YmodemTypes
<1>4. toReceiver' \in Seq(Ymodem!Messages) /\ OneOf(toReceiver', Frame)
  BY <1>1, <1>2, <1>3, LineCarries
<1>5. Among(toReceiver, Bytes)
  BY NoFrames DEF YmodemInv, Alternating
<1>6. Among(toReceiver, {Ymodem!Byte("C"), Ymodem!Byte("junk"), Ymodem!Bad, Due'})
  <2> HIDE DEF Due
  <2> QED BY <1>5 DEF Among
<1>7. Among(toReceiver', {Ymodem!Byte("C"), Ymodem!Byte("junk"), Ymodem!Bad, Due'})
  <2> HIDE DEF Due, Garbled
  <2> DEFINE T == {Ymodem!Byte("C"), Ymodem!Byte("junk"), Ymodem!Bad, Due'}
  <2>1. Garbled(Due') \in T /\ Due' \in T /\ Among(toReceiver, T)
    BY <1>1, <1>6
  <2> HIDE DEF T
  <2>2. Among(toReceiver', T)
    BY <2>1, <1>1, <1>2, <1>3, LineCarries
  <2> QED BY <2>2 DEF T
<1>8. NoneOf(toReceiver, {"EOT", "last"}) /\ NoneOf(toSender', {"ACK"})
  BY DEF NoneOf, Frame, Reply
<1>9. sender' \notin Ending => NoneOf(toReceiver', {"EOT", "last"})
  <2> HIDE DEF Due, Garbled
  <2> DEFINE k == {"EOT", "last"}
  <2>1. NoneOf(toReceiver, k) /\ Garbled(Due')[1] \notin k
        /\ (sender' \notin Ending => Due'[1] \notin k)
    BY <1>1, <1>8
  <2> HIDE DEF k
  <2>2. sender' \notin Ending => NoneOf(toReceiver', k)
    BY <1>1, <1>2, <1>3, <2>1, LineCarries
  <2> QED BY <2>2 DEF k
<1>10. YmodemTypes'
  BY <1>4 DEF YmodemInv, YmodemTypes, Waiting, Ending
<1>11. OneOf(toSender', Reply)
  BY DEF NoneOf, OneOf
<1>12. Alternating'
  BY <1>4, <1>7, <1>11 DEF Alternating, Waiting, Quiet
<1>13. Acked' /\ Writing'
  BY <1>8 DEF YmodemInv, Acked, Writing
<1>14. Over'
  BY <1>9 DEF YmodemInv, Over
<1> QED BY <1>10, <1>12, <1>13, <1>14 DEF YmodemInv

\* The sender waits for a C, asks for it, or has done.
LEMMA SenderQuiet ==
    ASSUME YmodemInv, sender # "failed",
           NoneOf(toReceiver, Frame), NoneOf(toSender', Reply), toSender' \in Seq(Ymodem!Answers),
           sender' \in Quiet, tries' \in 0 .. MAX_ERRORS,
           toReceiver' = toReceiver \/ Ymodem!Transmit(Ymodem!Byte("C")),
           sender' \in Ending => packets_received = Blocks + 1,
           eof_cnt > 0 => sender' \in Ending,
           UNCHANGED <<sent, receiver, packets_received, errors, eof_cnt, written>>
    PROVE  YmodemInv'
<1> DEFINE m == Ymodem!Byte("C")
           T == {Ymodem!Byte("C"), Ymodem!Byte("junk")}
<1>1. /\ m \in Ymodem!Messages /\ Garbled(m) \in Ymodem!Messages /\ m \in T /\ Garbled(m) \in T
      /\ m[1] \notin Frame /\ Garbled(m)[1] \notin Frame
  BY DEF Ymodem!Messages, Garbled, Frame, Ymodem!Byte
<1>2. toReceiver \in Seq(Ymodem!Messages) /\ Among(toReceiver, T)
  BY NoFrames DEF YmodemInv, YmodemTypes, Alternating
<1>3. toReceiver' \in Seq(Ymodem!Messages) /\ NoneOf(toReceiver', Frame) /\ Among(toReceiver', T)
  <2>1. CASE toReceiver' = toReceiver
    BY <1>2, <2>1
  <2>2. CASE Ymodem!Transmit(m)
    <3>1. PICK a \in Ymodem!Arrivals(m) : toReceiver' = toReceiver \o a
      BY <2>2 DEF Ymodem!Transmit
    <3> HIDE DEF m, T, Garbled
    <3> QED BY <1>1, <1>2, <3>1, LineCarries
  <2> QED BY <2>1, <2>2
<1>4. NoneOf(toReceiver', {"EOT", "last"}) /\ NoneOf(toSender', {"ACK"})
  BY <1>3 DEF NoneOf, Frame, Reply
<1>5. YmodemTypes'
  BY <1>3 DEF YmodemInv, YmodemTypes, Quiet
<1>6. Alternating'
  <2>1. OneOf(toReceiver', Frame) /\ OneOf(toSender', Reply)
    BY <1>3 DEF NoneOf, OneOf
  <2>2. Among(toReceiver', {Ymodem!Byte("C"), Ymodem!Byte("junk"), Ymodem!Bad, Due'})
    <3> HIDE DEF Due
    <3> QED BY <1>3 DEF Among
  <2> QED BY <1>3, <2>1, <2>2 DEF Alternating
<1>7. Acked' /\ Writing'
  BY <1>4 DEF YmodemInv, Acked, Writing
<1>8. Over'
  BY <1>4 DEF YmodemInv, Over
<1> QED BY <1>5, <1>6, <1>7, <1>8 DEF YmodemInv

\* When the sender reads an answer to its frame, nothing else is under way.
LEMMA SenderAnswered ==
    ASSUME YmodemInv, sender # "failed", toSender # << >>, Head(toSender)[1] \in Reply,
           toSender' = Tail(toSender)
    PROVE  /\ NoneOf(toReceiver, Frame) /\ NoneOf(toSender', Reply)
           /\ sender \notin Quiet
           /\ Head(toSender)[1] = "ACK" => ~NoneOf(toSender, {"ACK"})
<1>1. toSender \in Seq(Ymodem!Answers)
  BY DEF YmodemInv, YmodemTypes
<1>2. 1 \in 1 .. Len(toSender) /\ Head(toSender) = toSender[1]
  BY <1>1
<1>3. ~NoneOf(toSender, Reply) /\ (Head(toSender)[1] = "ACK" => ~NoneOf(toSender, {"ACK"}))
  BY <1>2 DEF NoneOf
<1>4. NoneOf(toSender', Reply)
  BY <1>1, LineReadsOnly DEF YmodemInv, Alternating
<1> QED BY <1>3, <1>4 DEF YmodemInv, Alternating

LEMMA SenderStep == ASSUME YmodemInv, Ymodem!Sending PROVE YmodemInv'
<1>1. ASSUME Ymodem!HelloAgain PROVE YmodemInv'
  <2>1. /\ sender = "hello" /\ sender' = "hello" /\ toSender' = toSender
        /\ tries < MAX_ERRORS /\ tries' = tries + 1
        /\ Ymodem!Transmit(Ymodem!Byte("C"))
        /\ UNCHANGED <<sent, receiver, packets_received, errors, eof_cnt, written>>
    BY <1>1 DEF Ymodem!HelloAgain, Ymodem!Sends, Ymodem!receiverVars
  <2>2. tries' \in 0 .. MAX_ERRORS
    BY <2>1, DevicesAssumption DEF YmodemInv, YmodemTypes
  <2>3. NoneOf(toReceiver, Frame) /\ NoneOf(toSender', Reply) /\ toSender' \in Seq(Ymodem!Answers)
    BY <2>1 DEF YmodemInv, YmodemTypes, Alternating, Quiet
  <2>4. sender \in Quiet /\ sender # "failed" /\ eof_cnt > 0 => sender' \in Ending
    BY <2>1 DEF YmodemInv, Over, Quiet
  <2>5. sender' \in Quiet /\ sender' \notin Ending /\ sender # "failed"
    BY <2>1 DEF Quiet, Ending
  <2> QED BY <2>1, <2>2, <2>3, <2>4, <2>5, SenderQuiet
<1>2. ASSUME Ymodem!SenderTimeout PROVE YmodemInv'
  BY <1>2, SenderFails DEF Ymodem!SenderTimeout, Ymodem!Sends, Ymodem!receiverVars
<1>3. ASSUME Ymodem!SenderReads PROVE YmodemInv'
  <2> DEFINE h == Head(toSender)
  <2>1. /\ sender \notin {"done", "failed"} /\ toSender # << >> /\ toSender' = Tail(toSender)
        /\ UNCHANGED <<tries, receiver, packets_received, errors, eof_cnt, written>>
    BY <1>3 DEF Ymodem!SenderReads, Ymodem!receiverVars
  <2>2. toSender \in Seq(Ymodem!Answers) /\ toSender' \in Seq(Ymodem!Answers)
    BY <2>1, LineReads DEF YmodemInv, YmodemTypes
  <2>3. CASE h = Ymodem!Waited /\ Ymodem!Proceed
    <3>1. sender \in Quiet => NoneOf(toReceiver, Frame) /\ NoneOf(toSender', Reply)
      <4>1. NoneOf(toSender, Reply) => NoneOf(toSender', Reply)
        BY <2>1, <2>2, LineReads
      <4> QED BY <2>1, <4>1 DEF YmodemInv, Alternating
    <3>2. sender \notin Quiet => h = Ymodem!Byte("ACK")
      BY <2>1, <2>3 DEF Quiet, Ymodem!Waited
    <3>3. sender \notin Quiet =>
              /\ NoneOf(toReceiver, Frame) /\ NoneOf(toSender', Reply)
              /\ ~NoneOf(toSender, {"ACK"})
      <4>1. Ymodem!Byte("ACK")[1] = "ACK" /\ "ACK" \in Reply
        BY DEF Ymodem!Byte, Reply
      <4> QED BY <2>1, <3>2, <4>1, SenderAnswered
    <3>4. /\ sender \in {"name", "block"} => packets_received = sent + 1
          /\ sender \in Ending => packets_received = Blocks + 1
          /\ eof_cnt > 0 => sender \in Ending
      BY <2>1, <3>3 DEF YmodemInv, Acked, Over, Quiet
    <3>5. /\ sender \in Quiet \cup Ending \cup {"name", "block"}
          /\ sent \in 0 .. Blocks /\ tries \in 0 .. MAX_ERRORS
          /\ 0 \in 0 .. Blocks /\ 1 \in 0 .. Blocks
          /\ sent < Blocks => sent + 1 \in 0 .. Blocks
      BY <2>1, DevicesAssumption DEF YmodemInv, YmodemTypes
    <3>6. CASE sender = "hello"
      <4>1. sender' = "name" /\ sent' = 0 /\ Ymodem!Transmit(Ymodem!Packet(0))
        BY <2>3, <3>6 DEF Ymodem!Proceed, Ymodem!Sends
      <4>2. Due' = Ymodem!Packet(0)
        BY <4>1 DEF Due
      <4> QED BY <2>1, <2>2, <3>1, <3>4, <3>5, <3>6, <4>1, <4>2, SenderFrame
           DEF Quiet, Waiting, Ending
    <3>7. CASE sender = "name" \/ sender = "eot" \/ sender = "last"
      <4>1. UNCHANGED <<sent, toReceiver>>
        BY <2>3, <3>7 DEF Ymodem!Proceed
      <4>2. /\ sender' = CASE sender = "name" -> "nameC" [] sender = "eot" -> "eotC"
                           [] sender = "last" -> "done"
        BY <2>3, <3>7 DEF Ymodem!Proceed
      <4> QED BY <2>1, <2>2, <3>3, <3>4, <3>5, <3>7, <4>1, <4>2, SenderQuiet DEF Quiet, Ending
    <3>8. CASE sender = "nameC"
      <4>1. sender' = "block" /\ sent' = 1 /\ Ymodem!Transmit(Ymodem!Packet(1))
        BY <2>3, <3>8 DEF Ymodem!Proceed, Ymodem!Sends
      <4>2. Due' = Ymodem!Packet(1)
        BY <4>1 DEF Due
      <4> QED BY <2>1, <2>2, <3>1, <3>4, <3>5, <3>8, <4>1, <4>2, SenderFrame
           DEF Quiet, Waiting, Ending
    <3>9. CASE sender = "block" /\ sent < Blocks
      <4>1. sender' = "block" /\ sent' = sent + 1 /\ Ymodem!Transmit(Ymodem!Packet(sent + 1))
        <5>1. sent # Blocks
          BY <3>5, <3>9, DevicesAssumption
        <5> QED BY <2>3, <3>9, <5>1 DEF Ymodem!Proceed, Ymodem!Sends
      <4>2. Due' = Ymodem!Packet(sent + 1)
        BY <4>1 DEF Due
      <4> QED BY <2>1, <2>2, <3>3, <3>4, <3>5, <3>9, <4>1, <4>2, SenderFrame
           DEF Quiet, Waiting, Ending
    <3>10. CASE sender = "block" /\ ~(sent < Blocks)
      <4>1. sent = Blocks
        BY <3>5, <3>10, DevicesAssumption
      <4>2. sender' = "eot" /\ sent' = sent /\ Ymodem!Transmit(Ymodem!Byte("EOT"))
        BY <2>3, <3>10, <4>1 DEF Ymodem!Proceed, Ymodem!Sends
      <4>3. Due' = Ymodem!Byte("EOT")
        BY <4>2 DEF Due
      <4>4. packets_received = Blocks + 1
        BY <3>4, <3>10, <4>1
      <4> QED BY <2>1, <2>2, <3>3, <3>5, <3>10, <4>2, <4>3, <4>4, SenderFrame
           DEF Quiet, Waiting, Ending
    <3>11. CASE sender = "eotC"
      <4>1. sender' = "last" /\ sent' = sent /\ Ymodem!Transmit(Ymodem!Last)
        BY <2>3, <3>11 DEF Ymodem!Proceed, Ymodem!Sends
      <4>2. Due' = Ymodem!Last
        BY <4>1 DEF Due
      <4> QED BY <2>1, <2>2, <3>1, <3>4, <3>5, <3>11, <4>1, <4>2, SenderFrame
           DEF Quiet, Waiting, Ending
    <3> QED BY <2>1, <3>5, <3>6, <3>7, <3>8, <3>9, <3>10, <3>11 DEF Quiet, Ending
  <2>4. CASE h = Ymodem!Byte("NAK") /\ Ymodem!Resend /\ sent' = sent
    <3>1. h[1] = "NAK" /\ h[1] \in Reply
      BY <2>4 DEF Ymodem!Byte, Reply
    <3>2. NoneOf(toReceiver, Frame) /\ NoneOf(toSender', Reply) /\ sender \notin Quiet
      BY <2>1, <3>1, SenderAnswered
    <3>3. sender \in Waiting
      BY <2>1, <3>2 DEF YmodemInv, YmodemTypes, Quiet, Ending, Waiting
    <3>4. sender' = sender /\ Ymodem!Transmit(Due)
      BY <2>4, <3>3 DEF Ymodem!Resend, Ymodem!Sends, Waiting, Due
    <3>5. Due' = Due
      BY <2>4, <3>4 DEF Due
    <3>6. /\ sent' \in 0 .. Blocks /\ (sender' = "name" => sent' = 0)
          /\ sender' \in Ending => packets_received = Blocks + 1
          /\ eof_cnt > 0 => sender' \in Ending
      BY <2>1, <2>4, <3>4 DEF YmodemInv, YmodemTypes, Over
    <3> QED BY <2>1, <2>2, <3>2, <3>3, <3>4, <3>5, <3>6, SenderFrame
  <2>5. CASE Ymodem!Sends(Ymodem!Byte("CA"), "failed") /\ sent' = sent
    BY <2>1, <2>5, SenderFails DEF Ymodem!Sends
  <2> QED BY <1>3, <2>3, <2>4, <2>5 DEF Ymodem!SenderReads, Ymodem!Response
<1> QED BY <1>1, <1>2, <1>3 DEF Ymodem!Sending

(***************************************************************************)
(* Ymodem: steps of the receiver                                           *)
(***************************************************************************)
\* What the receiver answers, but for replies to frames, is no reply; what it has
\* read is gone.
LEMMA ReceiverQuiet ==
    ASSUME YmodemInv,
           toReceiver' = toReceiver \/ toReceiver' = << >>
               \/ (toReceiver # << >> /\ toReceiver' = Tail(toReceiver)),
           toSender' = toSender \/ \E b \in {"C", "CA"} : Ymodem!Answer(Ymodem!Byte(b)),
           receiver' \in {receiver, "failed"} \/ (receiver' = "file" /\ eof_cnt > 1),
           errors' \in Nat,
           UNCHANGED <<sender, sent, tries, packets_received, eof_cnt, written>>
    PROVE  YmodemInv'
<1>1. toReceiver \in Seq(Ymodem!Messages) /\ toSender \in Seq(Ymodem!Answers)
  BY DEF YmodemInv, YmodemTypes
<1>2. /\ toReceiver' \in Seq(Ymodem!Messages)
      /\ \A k : NoneOf(toReceiver, k) => NoneOf(toReceiver', k)
      /\ \A k : OneOf(toReceiver, k) => OneOf(toReceiver', k)
      /\ \A T : Among(toReceiver, T) => Among(toReceiver', T)
  BY <1>1, LineReads
<1>3. /\ toSender' \in Seq(Ymodem!Answers)
      /\ NoneOf(toSender, Reply) => NoneOf(toSender', Reply)
      /\ OneOf(toSender, Reply) => OneOf(toSender', Reply)
      /\ NoneOf(toSender, {"ACK"}) => NoneOf(toSender', {"ACK"})
  <2>1. CASE toSender' = toSender
    BY <1>1, <2>1
  <2>2. ASSUME NEW b \in {"C", "CA"}, Ymodem!Answer(Ymodem!Byte(b)) PROVE <1>3!:
    <3> DEFINE m == Ymodem!Byte(b)
    <3>1. /\ m \in Ymodem!Answers /\ Garbled(m) \in Ymodem!Answers
          /\ m[1] \notin Reply /\ Garbled(m)[1] \notin Reply
          /\ m[1] \notin {"ACK"} /\ Garbled(m)[1] \notin {"ACK"}
      BY <2>2 DEF Ymodem!Answers, Garbled, Reply, Ymodem!Byte
    <3>2. PICK a \in Ymodem!Arrivals(m) : toSender' = toSender \o a
      BY <2>2 DEF Ymodem!Answer
    <3> HIDE DEF m, Garbled
    <3> QED BY <1>1, <3>1, <3>2, LineCarries
  <2> QED BY <2>1, <2>2
<1>4. Due' = Due
  BY DEF Due
<1>5. YmodemTypes'
  BY <1>2, <1>3 DEF YmodemInv, YmodemTypes
<1>6. Alternating'
  <2> HIDE DEF Due
  <2> QED BY <1>2, <1>3, <1>4 DEF YmodemInv, Alternating
<1>7. Acked' /\ Writing'
  BY <1>3 DEF YmodemInv, Acked, Writing
<1>8. Over'
  BY <1>2 DEF YmodemInv, Over
<1> QED BY <1>5, <1>6, <1>7, <1>8 DEF YmodemInv

\* The receiver reads a frame, and replies once.
LEMMA ReceiverReplies ==
    ASSUME YmodemInv, toReceiver # << >>, Head(toReceiver)[1] \in Frame,
           toReceiver' = Tail(toReceiver),
           \/ \E b \in Reply : Ymodem!Answer(Ymodem!Byte(b))
           \/ Ymodem!AnswerTwo(Ymodem!Byte("ACK"), Ymodem!Byte("C")),
           UNCHANGED <<sender, sent, tries>>
    PROVE  /\ toReceiver' \in Seq(Ymodem!Messages) /\ toSender' \in Seq(Ymodem!Answers)
           /\ Alternating'
           /\ NoneOf(toReceiver, {"EOT", "last"}) => NoneOf(toReceiver', {"EOT", "last"})
<1>1. toReceiver \in Seq(Ymodem!Messages) /\ toSender \in Seq(Ymodem!Answers)
  BY DEF YmodemInv, YmodemTypes
<1>2. /\ toReceiver' \in Seq(Ymodem!Messages)
      /\ \A k : NoneOf(toReceiver, k) => NoneOf(toReceiver', k)
      /\ \A T : Among(toReceiver, T) => Among(toReceiver', T)
  BY <1>1, LineReads
<1>3. ASSUME NEW b \in Reply \cup {"C"}
      PROVE  Ymodem!Byte(b) \in Ymodem!Answers /\ Garbled(Ymodem!Byte(b)) \in Ymodem!Answers
  BY DEF Ymodem!Answers, Garbled, Reply, Ymodem!Byte
<1>4. Ymodem!Byte("C")[1] \notin Reply /\ Garbled(Ymodem!Byte("C"))[1] \notin Reply
  BY DEF Garbled, Reply, Ymodem!Byte
<1>5. toSender' \in Seq(Ymodem!Answers) /\ (NoneOf(toSender, Reply) => OneOf(toSender', Reply))
  <2>1. ASSUME NEW b \in Reply, Ymodem!Answer(Ymodem!Byte(b)) PROVE <1>5!:
    <3> DEFINE m == Ymodem!Byte(b)
    <3>1. PICK a \in Ymodem!Arrivals(m) : toSender' = toSender \o a
      BY <2>1 DEF Ymodem!Answer
    <3>2. m \in Ymodem!Answers /\ Garbled(m) \in Ymodem!Answers
      BY <1>3
    <3> HIDE DEF m, Garbled
    <3> QED BY <1>1, <3>1, <3>2, LineCarries
  <2>2. CASE Ymodem!AnswerTwo(Ymodem!Byte("ACK"), Ymodem!Byte("C"))
    <3> DEFINE m == Ymodem!Byte("ACK")
               n == Ymodem!Byte("C")
    <3>1. PICK a \in Ymodem!Arrivals(m), b \in Ymodem!Arrivals(n) : toSender' = toSender \o a \o b
      BY <2>2 DEF Ymodem!AnswerTwo
    <3> DEFINE mid == toSender \o a
    <3>2. m \in Ymodem!Answers /\ Garbled(m) \in Ymodem!Answers
      BY <1>3 DEF Reply
    <3>3. n \in Ymodem!Answers /\ Garbled(n) \in Ymodem!Answers /\ n[1] \notin Reply /\ Garbled(n)[1] \notin Reply
      BY <1>3, <1>4
    <3> HIDE DEF m, n, Garbled
    <3>4. mid \in Seq(Ymodem!Answers) /\ (NoneOf(toSender, Reply) => OneOf(mid, Reply))
      BY <1>1, <3>2, LineCarries
    <3>5. toSender' = mid \o b
      BY <3>1
    <3> HIDE DEF mid
    <3> QED BY <3>3, <3>4, <3>5, LineCarries
  <2> QED BY <2>1, <2>2
<1>6. 1 \in 1 .. Len(toReceiver) /\ Head(toReceiver) = toReceiver[1]
  BY <1>1
<1>7. ~NoneOf(toReceiver, Frame)
  BY <1>6 DEF NoneOf
<1>8. Due' = Due
  BY DEF Due
<1>9. (OneOf(toReceiver', Frame) /\ NoneOf(toReceiver', Frame)) \/ sender = "failed"
  <2>1. sender # "failed" => NoneOf(toReceiver', Frame)
    BY <1>1, LineReadsOnly DEF YmodemInv, Alternating
  <2>2. NoneOf(toReceiver', Frame) => OneOf(toReceiver', Frame)
    BY DEF NoneOf, OneOf
  <2> QED BY <2>1, <2>2
<1>10. Alternating'
  <2> HIDE DEF Due
  <2> QED BY <1>2, <1>5, <1>7, <1>8, <1>9 DEF YmodemInv, Alternating
<1> QED BY <1>2, <1>5, <1>10

\* A frame that is read from a sender that has not failed is the one that is due,
\* or a bad one.
LEMMA FrameIsDue ==
    ASSUME YmodemInv, sender # "failed", toReceiver # << >>
    PROVE  Head(toReceiver) \in {Ymodem!Byte("C"), Ymodem!Byte("junk"), Ymodem!Bad, Due}
<1>1. toReceiver \in Seq(Ymodem!Messages)
  BY DEF YmodemInv, YmodemTypes
<1>2. 1 \in 1 .. Len(toReceiver) /\ Head(toReceiver) = toReceiver[1]
  BY <1>1
<1> HIDE DEF Due
<1> QED BY <1>2 DEF YmodemInv, Alternating, Among

\* What is read was on the line.
LEMMA FrameIsThere ==
    ASSUME YmodemInv, toReceiver # << >>, NEW k, Head(toReceiver)[1] \in k
    PROVE  ~NoneOf(toReceiver, k)
<1>1. toReceiver \in Seq(Ymodem!Messages)
  BY DEF YmodemInv, YmodemTypes
<1>2. 1 \in 1 .. Len(toReceiver) /\ Head(toReceiver) = toReceiver[1]
  BY <1>1
<1> QED BY <1>2 DEF NoneOf

\* With a NAK no ACK comes that was not under way.
LEMMA ReceiverNaks ==
    ASSUME YmodemInv, Ymodem!Answer(Ymodem!Byte("NAK")), NoneOf(toSender, {"ACK"})
    PROVE  NoneOf(toSender', {"ACK"})
<1> DEFINE m == Ymodem!Byte("NAK")
<1>1. /\ m \in Ymodem!Answers /\ Garbled(m) \in Ymodem!Answers
      /\ m[1] \notin {"ACK"} /\ Garbled(m)[1] \notin {"ACK"}
  BY DEF Ymodem!Answers, Garbled, Ymodem!Byte
<1>2. PICK a \in Ymodem!Arrivals(m) : toSender' = toSender \o a
  BY DEF Ymodem!Answer
<1> HIDE DEF m, Garbled
<1> QED BY <1>1, <1>2, LineCarries DEF YmodemInv, YmodemTypes

\* An error of the receiver, after a frame that does not end the file.
LEMMA ReceiverRefuses ==
    ASSUME YmodemInv, toReceiver # << >>, Head(toReceiver)[1] \in Frame,
           toReceiver' = Tail(toReceiver), Ymodem!Refuse, UNCHANGED <<sender, sent, tries>>
    PROVE  YmodemInv'
<1>1. CASE /\ errors' = errors + 1 /\ Ymodem!Answer(Ymodem!Byte("NAK"))
           /\ UNCHANGED <<receiver, packets_received, eof_cnt, written>>
  <2>1. /\ toReceiver' \in Seq(Ymodem!Messages) /\ toSender' \in Seq(Ymodem!Answers) /\ Alternating'
        /\ NoneOf(toReceiver, {"EOT", "last"}) => NoneOf(toReceiver', {"EOT", "last"})
    <3>1. "NAK" \in Reply
      BY DEF Reply
    <3> QED BY <1>1, <3>1, ReceiverReplies
  <2>2. YmodemTypes'
    BY <1>1, <2>1 DEF YmodemInv, YmodemTypes
  <2>3. Acked'
    BY <1>1, ReceiverNaks DEF YmodemInv, Acked
  <2>4. Over' /\ Writing'
    BY <1>1, <2>1 DEF YmodemInv, Over, Writing
  <2> QED BY <2>1, <2>2, <2>3, <2>4 DEF YmodemInv
<1>2. CASE Ymodem!Ends("failed") /\ Ymodem!Answer(Ymodem!Byte("CA"))
  <2>1. errors' \in Nat
    BY <1>2 DEF Ymodem!Ends, YmodemInv, YmodemTypes
  <2> QED BY <1>2, <2>1, ReceiverQuiet DEF Ymodem!Ends
<1> QED BY <1>1, <1>2 DEF Ymodem!Refuse

LEMMA ReceiverEot ==
    ASSUME YmodemInv, toReceiver # << >>, Head(toReceiver) = Ymodem!Byte("EOT"),
           toReceiver' = Tail(toReceiver), Ymodem!Eot, UNCHANGED <<sender, sent, tries>>
    PROVE  YmodemInv'
<1>1. Head(toReceiver)[1] \in Frame /\ Head(toReceiver)[1] \in {"EOT", "last"}
  BY DEF Frame, Ymodem!Byte
<1>2. /\ eof_cnt' = IF eof_cnt < 2 THEN eof_cnt + 1 ELSE eof_cnt
      /\ Ymodem!Answer(Ymodem!Byte("NAK")) \/ Ymodem!AnswerTwo(Ymodem!Byte("ACK"), Ymodem!Byte("C"))
      /\ UNCHANGED <<receiver, packets_received, errors, written>>
  BY DEF Ymodem!Eot
<1>3. /\ toReceiver' \in Seq(Ymodem!Messages) /\ toSender' \in Seq(Ymodem!Answers) /\ Alternating'
      /\ NoneOf(toReceiver, {"EOT", "last"}) => NoneOf(toReceiver', {"EOT", "last"})
  <2>1. "NAK" \in Reply
    BY DEF Reply
  <2> QED BY <1>1, <1>2, <2>1, ReceiverReplies
<1>4. packets_received = Blocks + 1
  BY <1>1, FrameIsThere DEF YmodemInv, Over
<1>5. sender = "eot" \/ sender = "failed"
  <2>1. sender # "failed" => Ymodem!Byte("EOT") \in {Ymodem!Byte("C"), Ymodem!Byte("junk"), Ymodem!Bad, Due}
    BY FrameIsDue
  <2>2. Ymodem!Byte("EOT") \notin {Ymodem!Byte("C"), Ymodem!Byte("junk"), Ymodem!Bad}
    BY DEF Ymodem!Byte, Ymodem!Bad
  <2>3. Due = Ymodem!Byte("EOT") => sender = "eot"
    BY DEF Due, Ymodem!Byte, Ymodem!Packet, Ymodem!Last
  <2> QED BY <2>1, <2>2, <2>3
<1>6. YmodemTypes'
  BY <1>2, <1>3 DEF YmodemInv, YmodemTypes
<1>7. Acked' /\ Writing'
  BY <1>2, <1>5 DEF YmodemInv, Acked, Writing
<1>8. Over'
  <2>1. eof_cnt > 1 => eof_cnt' > 1
    BY <1>2 DEF YmodemInv, YmodemTypes
  <2> QED BY <1>2, <1>4, <1>5, <2>1 DEF YmodemInv, Over, Ending
<1> QED BY <1>3, <1>6, <1>7, <1>8 DEF YmodemInv

\* A frame whose number is read: a packet, or the last one.
LEMMA ReceiverNumbered ==
    ASSUME YmodemInv, toReceiver # << >>, Head(toReceiver)[1] \in {"packet", "last"},
           toReceiver' = Tail(toReceiver), Ymodem!Numbered(Head(toReceiver)[2]),
           UNCHANGED <<sender, sent, tries>>
    PROVE  YmodemInv'
<1> DEFINE h == Head(toReceiver)
           n == h[2]
<1>1. h[1] \in Frame
  BY DEF Frame
<1>2. h \in Ymodem!Messages /\ toReceiver \in Seq(Ymodem!Messages)
  BY DEF YmodemInv, YmodemTypes
<1>3. eof_cnt \in 0 .. 2 /\ packets_received \in 0 .. Blocks + 1 /\ errors \in Nat
  BY DEF YmodemInv, YmodemTypes
<1>4. ASSUME eof_cnt > 1, Ymodem!Answer(Ymodem!Byte("ACK")),
             UNCHANGED <<receiver, packets_received, errors, eof_cnt, written>>
      PROVE  YmodemInv'
  <2>1. /\ toReceiver' \in Seq(Ymodem!Messages) /\ toSender' \in Seq(Ymodem!Answers) /\ Alternating'
        /\ NoneOf(toReceiver, {"EOT", "last"}) => NoneOf(toReceiver', {"EOT", "last"})
    <3>1. "ACK" \in Reply
      BY DEF Reply
    <3> QED BY <1>1, <1>4, <3>1, ReceiverReplies
  <2>2. sender \notin {"name", "block"}
    <3>1. eof_cnt > 0
      BY <1>3, <1>4
    <3> QED BY <3>1 DEF YmodemInv, Over, Ending
  <2>3. YmodemTypes'
    BY <1>4, <2>1 DEF YmodemInv, YmodemTypes
  <2>4. Acked' /\ Over' /\ Writing'
    BY <1>4, <2>1, <2>2 DEF YmodemInv, Acked, Over, Writing
  <2> QED BY <2>1, <2>3, <2>4 DEF YmodemInv
<1>5. ASSUME Ymodem!Ends("failed"), Ymodem!Answer(Ymodem!Byte("CA")) PROVE YmodemInv'
  <2>1. errors' \in Nat
    BY <1>3, <1>5 DEF Ymodem!Ends
  <2> QED BY <1>5, <2>1, ReceiverQuiet DEF Ymodem!Ends
<1>6. ASSUME eof_cnt <= 1, n = packets_received,
             Ymodem!Answer(Ymodem!Byte("ACK")) \/ Ymodem!AnswerTwo(Ymodem!Byte("ACK"), Ymodem!Byte("C")),
             packets_received' = n + 1, errors' = 0,
             written' = IF n = 0 THEN written ELSE Append(written, n),
             UNCHANGED <<receiver, eof_cnt>>
      PROVE  YmodemInv'
  <2>1. /\ toReceiver' \in Seq(Ymodem!Messages) /\ toSender' \in Seq(Ymodem!Answers) /\ Alternating'
        /\ NoneOf(toReceiver, {"EOT", "last"}) => NoneOf(toReceiver', {"EOT", "last"})
    <3>1. "ACK" \in Reply
      BY DEF Reply
    <3> QED BY <1>1, <1>6, <3>1, ReceiverReplies
  <2>2. h[1] = "packet"
    <3>1. SUFFICES ASSUME h[1] = "last" PROVE FALSE
      OBVIOUS
    <3>2. n = 0
      BY <1>2, <3>1, MessageKinds
    <3>3. packets_received = Blocks + 1
      BY <3>1, FrameIsThere DEF YmodemInv, Over
    <3> QED BY <1>6, <3>2, <3>3, DevicesAssumption
  <2>3. n \in 0 .. Blocks /\ h = Ymodem!Packet(n)
    BY <1>2, <2>2, MessageKinds
  <2>4. packets_received # Blocks + 1
    BY <1>6, <2>3, DevicesAssumption
  <2>5. sender \in {"name", "block"} => sent = n
    <3>1. sender # "failed" => h \in {Ymodem!Byte("C"), Ymodem!Byte("junk"), Ymodem!Bad, Due}
      BY FrameIsDue
    <3>2. Ymodem!Packet(n) \notin {Ymodem!Byte("C"), Ymodem!Byte("junk"), Ymodem!Bad}
      BY DEF Ymodem!Packet, Ymodem!Byte, Ymodem!Bad
    <3>3. sender \in {"name", "block"} => Due = Ymodem!Packet(sent)
      BY DEF Due
    <3>4. Ymodem!Packet(n) = Ymodem!Packet(sent) => n = sent
      BY DEF Ymodem!Packet
    <3> HIDE DEF h, n, Due
    <3> QED BY <2>3, <3>1, <3>2, <3>3, <3>4
  <2>6. YmodemTypes'
    <3>1. packets_received' \in 0 .. Blocks + 1 /\ errors' \in Nat
      BY <1>6, <2>3, DevicesAssumption
    <3> QED BY <1>6, <2>1, <3>1 DEF YmodemInv, YmodemTypes
  <2>7. Acked'
    BY <1>6, <2>5 DEF Acked
  <2>8. Over'
    BY <1>6, <2>1, <2>4 DEF YmodemInv, Over
  <2>9. Writing'
    <3> HIDE DEF n
    <3>1. CASE n = 0
      BY <1>6, <3>1 DEF YmodemInv, Writing
    <3>2. CASE n # 0
      <4>1. /\ written \in Seq(1 .. Blocks) /\ Len(written) = n - 1
            /\ \A i \in 1 .. Len(written) : written[i] = i
        BY <1>6, <3>2 DEF YmodemInv, Writing
      <4>2. n \in 1 .. Blocks /\ n \in Int
        BY <2>3, <3>2
      <4>3. written' = Append(written, n)
        BY <1>6, <3>2
      <4>4. written' \in Seq(1 .. Blocks) /\ Len(written') = n
        BY <4>1, <4>2, <4>3
      <4>5. \A i \in 1 .. n : written'[i] = IF i = n THEN n ELSE written[i]
        BY <4>1, <4>2, <4>3
      <4>6. \A i \in 1 .. n : i # n => i \in 1 .. Len(written)
        BY <4>1, <4>2
      <4>7. packets_received' # 0 /\ packets_received' - 1 = n
        BY <1>6, <4>2
      <4>8. \A i \in 1 .. n : written'[i] = i
        BY <4>1, <4>5, <4>6
      <4> QED BY <4>4, <4>7, <4>8 DEF Writing
    <3> QED BY <3>1, <3>2
  <2> QED BY <2>1, <2>6, <2>7, <2>8, <2>9 DEF YmodemInv
<1>7. ASSUME eof_cnt <= 1, n = packets_received,
             IF n = 0 THEN Ymodem!Name ELSE Ymodem!Block(n)
      PROVE  YmodemInv'
  <2>1. CASE Ymodem!Ends("failed") /\ Ymodem!Answer(Ymodem!Byte("CA"))
    BY <1>5, <2>1
  <2> HIDE DEF n
  <2>2. CASE n = 0 /\ ~(Ymodem!Ends("failed") /\ Ymodem!Answer(Ymodem!Byte("CA")))
    BY <1>6, <1>7, <2>2 DEF Ymodem!Name
  <2>3. CASE n # 0 /\ ~(Ymodem!Ends("failed") /\ Ymodem!Answer(Ymodem!Byte("CA")))
    BY <1>6, <1>7, <2>3 DEF Ymodem!Block
  <2> QED BY <2>1, <2>2, <2>3
<1>8. ASSUME Ymodem!Refuse PROVE YmodemInv'
  BY <1>1, <1>8, ReceiverRefuses
<1>9. eof_cnt > 1 \/ (eof_cnt <= 1 /\ n # packets_received) \/ (eof_cnt <= 1 /\ n = packets_received)
  BY <1>3
<1>10. ~(eof_cnt > 1 /\ eof_cnt <= 1)
  BY <1>3
<1> HIDE DEF n
<1>11. Ymodem!Numbered(n)
  BY DEF n
<1> QED BY <1>4, <1>7, <1>8, <1>9, <1>10, <1>11 DEF Ymodem!Numbered, Ymodem!receiverVars

LEMMA ReceiverStep ==
    ASSUME YmodemInv, Ymodem!Receiving \/ Ymodem!UserAborts PROVE YmodemInv'
<1>1. errors \in Nat
  BY DEF YmodemInv, YmodemTypes
<1>2. ASSUME Ymodem!Timeout, UNCHANGED <<sender, sent, tries>>,
             toReceiver' = toReceiver \/ toReceiver' = << >>
               \/ (toReceiver # << >> /\ toReceiver' = Tail(toReceiver))
      PROVE  YmodemInv'
  <2>1. CASE Ymodem!Ends("file") /\ UNCHANGED toSender /\ eof_cnt > 1
    BY <1>1, <1>2, <2>1, ReceiverQuiet DEF Ymodem!Ends
  <2>2. CASE /\ errors' = errors + 1 /\ Ymodem!Answer(Ymodem!Byte("C"))
             /\ UNCHANGED <<receiver, packets_received, eof_cnt, written>>
    <3>1. errors' \in Nat
      BY <1>1, <2>2
    <3> QED BY <1>2, <2>2, <3>1, ReceiverQuiet
  <2>3. CASE Ymodem!Ends("failed") /\ Ymodem!Answer(Ymodem!Byte("CA"))
    BY <1>1, <1>2, <2>3, ReceiverQuiet DEF Ymodem!Ends
  <2> QED BY <1>2, <2>1, <2>2, <2>3 DEF Ymodem!Timeout
<1>3. ASSUME Ymodem!ReceiverReads PROVE YmodemInv'
  <2> DEFINE h == Head(toReceiver)
  <2>1. /\ toReceiver # << >> /\ Ymodem!Receive(h) /\ UNCHANGED <<sender, sent, tries>>
        /\ toReceiver' = IF Ymodem!Known(h) THEN Tail(toReceiver) ELSE << >>
    BY <1>3 DEF Ymodem!ReceiverReads, Ymodem!senderVars
  <2>2. h \in Ymodem!Messages
    BY <2>1 DEF YmodemInv, YmodemTypes
  <2>3. h[1] \in Frame \cup {"CA"} => toReceiver' = Tail(toReceiver)
    BY <2>1 DEF Ymodem!Known, Frame
  <2>4. CASE h[1] \in {"packet", "last"} /\ Ymodem!Numbered(h[2])
    <3>1. toReceiver' = Tail(toReceiver)
      BY <2>3, <2>4 DEF Frame
    <3> QED BY <2>1, <2>4, <3>1, ReceiverNumbered
  <2>5. CASE h = Ymodem!Bad /\ Ymodem!Refuse
    <3>1. h[1] \in Frame
      BY <2>5 DEF Frame, Ymodem!Bad
    <3> QED BY <2>1, <2>3, <2>5, <3>1, ReceiverRefuses
  <2>6. CASE h = Ymodem!Byte("EOT") /\ Ymodem!Eot
    <3>1. h[1] \in Frame
      BY <2>6 DEF Frame, Ymodem!Byte
    <3> QED BY <2>1, <2>3, <2>6, <3>1, ReceiverEot
  <2>7. CASE /\ h = Ymodem!Byte("CA") /\ Ymodem!Ends("failed")
             /\ Ymodem!Answer(Ymodem!Byte("ACK"))
    <3>1. h[1] = "CA" /\ toReceiver' = Tail(toReceiver)
      BY <2>3, <2>7 DEF Ymodem!Byte
    <3>2. sender = "failed"
      <4>1. sender # "failed" => h \in {Ymodem!Byte("C"), Ymodem!Byte("junk"), Ymodem!Bad, Due}
        BY <2>1, FrameIsDue
      <4>2. h \notin {Ymodem!Byte("C"), Ymodem!Byte("junk"), Ymodem!Bad, Due}
        BY <2>7 DEF Due, Ymodem!Byte, Ymodem!Bad, Ymodem!Packet, Ymodem!Last
      <4> QED BY <4>1, <4>2
    <3>3. toReceiver \in Seq(Ymodem!Messages) /\ toSender \in Seq(Ymodem!Answers)
      BY DEF YmodemInv, YmodemTypes
    <3>4. /\ toReceiver' \in Seq(Ymodem!Messages)
          /\ NoneOf(toReceiver, {"EOT", "last"}) => NoneOf(toReceiver', {"EOT", "last"})
      BY <2>1, <3>1, <3>3, LineReads
    <3>5. toSender' \in Seq(Ymodem!Answers)
      <4> DEFINE m == Ymodem!Byte("ACK")
      <4>1. m \in Ymodem!Answers /\ Garbled(m) \in Ymodem!Answers
        BY DEF Ymodem!Answers, Garbled, Ymodem!Byte
      <4>2. PICK a \in Ymodem!Arrivals(m) : toSender' = toSender \o a
        BY <2>7 DEF Ymodem!Answer
      <4> HIDE DEF m, Garbled
      <4> QED BY <3>3, <4>1, <4>2, LineCarries
    <3>6. YmodemTypes'
      BY <2>1, <2>7, <3>4, <3>5 DEF YmodemInv, YmodemTypes, Ymodem!Ends
    <3>7. Alternating' /\ Acked'
      BY <2>1, <3>2 DEF Alternating, Acked
    <3>8. Over' /\ Writing'
      BY <2>1, <2>7, <3>4 DEF YmodemInv, Over, Writing, Ymodem!Ends
    <3> QED BY <3>6, <3>7, <3>8 DEF YmodemInv
  <2>8. CASE Ymodem!Timeout
    BY <1>2, <2>1, <2>8
  <2> QED BY <2>1, <2>4, <2>5, <2>6, <2>7, <2>8 DEF Ymodem!Receive
<1>4. ASSUME Ymodem!ReceiverTimeout PROVE YmodemInv'
  BY <1>2, <1>4 DEF Ymodem!ReceiverTimeout, Ymodem!senderVars
<1>5. ASSUME Ymodem!UserAborts PROVE YmodemInv'
  BY <1>1, <1>5, ReceiverQuiet DEF Ymodem!UserAborts, Ymodem!Ends, Ymodem!senderVars
<1> QED BY <1>3, <1>4, <1>5 DEF Ymodem!Receiving

LEMMA YmodemStep == YmodemInv /\ [Ymodem!Next]_ymodemVars => YmodemInv'
<1>1. CASE UNCHANGED ymodemVars
  <2>1. Due' = Due
    BY <1>1 DEF ymodemVars, Due
  <2> HIDE DEF Due
  <2> QED BY <1>1, <2>1
       DEF ymodemVars, YmodemInv, YmodemTypes, Alternating, Acked, Over, Writing
<1> QED BY <1>1, SenderStep, ReceiverStep DEF Ymodem!Next

(***************************************************************************)
(* Paths: what mount_normalize_path answers                                *)
(***************************************************************************)
\* What the loop over the first n elements of a path has built, after each, when
\* here and up are the elements that stay and go up.
Loop(f, path, n, here, up) == f = [k \in 0 .. n |->
    IF k = 0 THEN << >> ELSE Paths!Enter(f[k - 1], path[k], here, up)]

LEMMA LoopExists ==
    ASSUME NEW path, NEW n \in Nat, NEW here, NEW up PROVE \E f : Loop(f, path, n, here, up)
<1> DEFINE T == {m \in 0 .. n : ~ \E f : Loop(f, path, m, here, up)}
<1>1. ASSUME T # {} PROVE FALSE
  <2>1. T \in SUBSET Nat
    OBVIOUS
  <2>2. PICK x \in T : \A y \in T : x <= y
    <3> HIDE DEF T
    <3> QED BY <1>1, <2>1, LeastNatural
  <2>3. x \in 0 .. n /\ ~ \E f : Loop(f, path, x, here, up)
    BY <2>2
  <2>4. CASE x = 0
    <3> DEFINE g == [k \in 0 .. 0 |-> << >>]
    <3>1. \A k \in 0 .. 0 : k = 0
      OBVIOUS
    <3>2. Loop(g, path, 0, here, up)
      BY <3>1 DEF Loop
    <3> QED BY <2>3, <2>4, <3>2
  <2>5. CASE x # 0
    <3>1. x - 1 \in 0 .. n /\ ~(x <= x - 1) /\ x \in 0 .. x /\ x - 1 \in 0 .. x
      BY <2>3, <2>5
    <3>2. x - 1 \notin T
      <4> HIDE DEF T
      <4> QED BY <2>2, <3>1
    <3>3. PICK f : Loop(f, path, x - 1, here, up)
      BY <3>1, <3>2
    <3> DEFINE g == [k \in 0 .. x |-> IF k = x THEN Paths!Enter(f[x - 1], path[x], here, up) ELSE f[k]]
    <3>4. \A k \in 0 .. x : k # x => k \in 0 .. x - 1 /\ (k # 0 => k - 1 \in 0 .. x /\ k - 1 # x)
      BY <3>1
    <3>5. g = [k \in 0 .. x |-> IF k = 0 THEN << >> ELSE Paths!Enter(g[k - 1], path[k], here, up)]
      <4> SUFFICES ASSUME NEW k \in 0 .. x
                   PROVE  g[k] = IF k = 0 THEN << >> ELSE Paths!Enter(g[k - 1], path[k], here, up)
        OBVIOUS
      <4>1. CASE k = x
        <5>1. g[k - 1] = f[x - 1]
          BY <3>1, <4>1
        <5> QED BY <2>5, <4>1, <5>1
      <4>2. CASE k # x
        <5>1. g[k] = f[k] /\ (k # 0 => g[k - 1] = f[k - 1])
          BY <3>4, <4>2
        <5>2. f[k] = IF k = 0 THEN << >> ELSE Paths!Enter(f[k - 1], path[k], here, up)
          BY <3>3, <3>4, <4>2 DEF Loop
        <5> HIDE DEF g
        <5> QED BY <5>1, <5>2
      <4> QED BY <4>1, <4>2
    <3>6. Loop(g, path, x, here, up)
      BY <3>5 DEF Loop
    <3> QED BY <2>3, <3>6
  <2> QED BY <2>4, <2>5
<1> QED BY <1>1

\* Whatever the path, the loop ends with a path of its elements.
LEMMA LoopIsPath ==
    ASSUME NEW S, NEW path \in Seq(S), NEW here, NEW up, NEW f, Loop(f, path, Len(path), here, up)
    PROVE  \A n \in 0 .. Len(path) : f[n] \in Seq(S)
<1> DEFINE T == {n \in 0 .. Len(path) : f[n] \notin Seq(S)}
<1>1. ASSUME T # {} PROVE FALSE
  <2>1. T \in SUBSET Nat
    OBVIOUS
  <2>2. PICK x \in T : \A y \in T : x <= y
    <3> HIDE DEF T
    <3> QED BY <1>1, <2>1, LeastNatural
  <2>3. x \in 0 .. Len(path) /\ f[x] \notin Seq(S) /\ Len(path) \in Nat
    BY <2>2
  <2>4. f[x] = IF x = 0 THEN << >> ELSE Paths!Enter(f[x - 1], path[x], here, up)
    BY <2>3 DEF Loop
  <2>5. x # 0
    BY <2>3, <2>4
  <2>6. x - 1 \in 0 .. Len(path) /\ ~(x <= x - 1) /\ x \in 1 .. Len(path)
    BY <2>3, <2>5
  <2>7. x - 1 \notin T
    <3> HIDE DEF T
    <3> QED BY <2>2, <2>6
  <2>8. f[x - 1] \in Seq(S) /\ path[x] \in S
    BY <2>6, <2>7
  <2>9. ASSUME NEW s \in Seq(S), NEW e \in S PROVE Paths!Enter(s, e, here, up) \in Seq(S)
    <3>1. SubSeq(s, 1, Len(s) - 1) \in Seq(S)
      OBVIOUS
    <3> QED BY <3>1 DEF Paths!Enter, Paths!Front
  <2> QED BY <2>3, <2>4, <2>5, <2>8, <2>9
<1> QED BY <1>1

\* Two loops that treat each element of the path alike end alike.
LEMMA LoopsAgree ==
    ASSUME NEW path, NEW n \in Nat, NEW here, NEW up, NEW here2, NEW up2,
           \A k \in 1 .. n : \A s : Paths!Enter(s, path[k], here, up) = Paths!Enter(s, path[k], here2, up2),
           NEW f, Loop(f, path, n, here, up), NEW g, Loop(g, path, n, here2, up2)
    PROVE  f[n] = g[n]
<1> DEFINE T == {m \in 0 .. n : f[m] # g[m]}
<1>1. ASSUME T # {} PROVE FALSE
  <2>1. T \in SUBSET Nat
    OBVIOUS
  <2>2. PICK x \in T : \A y \in T : x <= y
    <3> HIDE DEF T
    <3> QED BY <1>1, <2>1, LeastNatural
  <2>3. x \in 0 .. n /\ f[x] # g[x]
    BY <2>2
  <2>4. /\ f[x] = IF x = 0 THEN << >> ELSE Paths!Enter(f[x - 1], path[x], here, up)
        /\ g[x] = IF x = 0 THEN << >> ELSE Paths!Enter(g[x - 1], path[x], here2, up2)
    BY <2>3 DEF Loop
  <2>5. x # 0
    BY <2>3, <2>4
  <2>6. x - 1 \in 0 .. n /\ ~(x <= x - 1) /\ x \in 1 .. n
    BY <2>3, <2>5
  <2>7. x - 1 \notin T
    <3> HIDE DEF T
    <3> QED BY <2>2, <2>6
  <2>8. f[x - 1] = g[x - 1]
    BY <2>6, <2>7
  <2> QED BY <2>3, <2>4, <2>5, <2>6, <2>8
<1> QED BY <1>1

\* Normal is what a loop of these elements ends with.
LEMMA NormalLoop ==
    ASSUME NEW path, Len(path) \in Nat, NEW here, NEW up
    PROVE  \E f : Loop(f, path, Len(path), here, up) /\ Paths!Normal(path, here, up) = f[Len(path)]
<1> DEFINE f == CHOOSE g : Loop(g, path, Len(path), here, up)
<1>1. Loop(f, path, Len(path), here, up)
  BY LoopExists
<1>2. Paths!Normal(path, here, up) = f[Len(path)]
  BY DEF Paths!Normal, Loop
<1> QED BY <1>1, <1>2

\* A normal path consists of the elements of the path.
LEMMA NormalIsPath ==
    ASSUME NEW S, NEW path \in Seq(S), NEW here, NEW up
    PROVE  Paths!Normal(path, here, up) \in Seq(S)
<1>1. Len(path) \in Nat
  OBVIOUS
<1>2. PICK f : Loop(f, path, Len(path), here, up) /\ Paths!Normal(path, here, up) = f[Len(path)]
  BY <1>1, NormalLoop
<1> QED BY <1>1, <1>2, LoopIsPath

LEMMA NormalPath ==
    ASSUME NEW S, NEW path \in Seq(S)
    PROVE  /\ Paths!mount_normalize_path(path) \in Seq(S)
           /\ path = << >> => Paths!mount_normalize_path(path) = << >>
           /\ path = <<"sd">> => Paths!mount_normalize_path(path) = <<"sd">>
<1>1. Len(path) \in Nat
  OBVIOUS
<1>2. PICK f : /\ Loop(f, path, Len(path), Paths!Dot, Paths!DotDot)
              /\ Paths!mount_normalize_path(path) = f[Len(path)]
  BY <1>1, NormalLoop DEF Paths!mount_normalize_path
<1>4. f[Len(path)] \in Seq(S)
  BY <1>1, <1>2, LoopIsPath
<1>5. ASSUME path = << >> PROVE f[Len(path)] = << >>
  BY <1>2, <1>5 DEF Loop
<1>6. ASSUME path = <<"sd">> PROVE f[Len(path)] = <<"sd">>
  <2>1. Len(path) = 1 /\ path[1] = "sd"
    BY <1>6
  <2>2. f[0] = << >> /\ f[1] = Paths!Enter(f[0], path[1], Paths!Dot, Paths!DotDot)
    BY <1>2, <2>1 DEF Loop
  <2> QED BY <2>1, <2>2 DEF Paths!Enter, Paths!Dot, Paths!DotDot
<1> QED BY <1>2, <1>4, <1>5, <1>6

\* mount_normalize_path does what its comment says with paths that have no
\* elements like "a.": each element goes the same way in both.
LEMMA PlainIsDocumented ==
    ASSUME NEW S, NEW path \in Seq(S), Paths!IsPlain(path)
    PROVE  Paths!Documented(path) = Paths!mount_normalize_path(path)
<1>1. Len(path) \in Nat
  OBVIOUS
<1>2. ASSUME NEW k \in 1 .. Len(path), NEW s
      PROVE  Paths!Enter(s, path[k], Paths!Dot, Paths!DotDot) = Paths!Enter(s, path[k], {"."}, {".."})
  <2>1. path[k] \in Paths!Dot \cup Paths!DotDot => path[k] \in {".", ".."}
    BY DEF Paths!IsPlain
  <2>2. (path[k] \in Paths!Dot <=> path[k] \in {"."}) /\ (path[k] \in Paths!DotDot <=> path[k] \in {".."})
    BY <2>1 DEF Paths!Dot, Paths!DotDot
  <2> QED BY <2>2, Zenon DEF Paths!Enter
<1>3. PICK f : /\ Loop(f, path, Len(path), Paths!Dot, Paths!DotDot)
              /\ Paths!mount_normalize_path(path) = f[Len(path)]
  BY <1>1, NormalLoop DEF Paths!mount_normalize_path
<1>4. PICK g : /\ Loop(g, path, Len(path), {"."}, {".."})
              /\ Paths!Documented(path) = g[Len(path)]
  BY <1>1, NormalLoop DEF Paths!Documented
<1> QED BY <1>1, <1>2, <1>3, <1>4, LoopsAgree

(***************************************************************************)
(* Paths: where chdir goes                                                 *)
(***************************************************************************)
\* A path that is longer by one at the front, and one that is shorter by it.
LEMMA PathParts ==
    ASSUME NEW S, NEW s \in Seq(S), NEW x \in S
    PROVE  /\ <<x>> \o s \in Seq(S) /\ (<<x>> \o s)[1] = x
           /\ Len(<<x>> \o s) = Len(s) + 1 /\ Tail(<<x>> \o s) = s
           /\ s # << >> => Tail(s) \in Seq(S) /\ Len(Tail(s)) = Len(s) - 1
                           /\ <<s[1]>> \o Tail(s) = s
<1> DEFINE w == <<x>> \o s
<1>1. Len(s) \in Nat /\ <<x>> \in Seq(S) /\ Len(<<x>>) = 1
  OBVIOUS
<1>2. w \in Seq(S) /\ Len(w) = Len(s) + 1 /\ w[1] = x /\ \A i \in 1 .. Len(s) : w[i + 1] = s[i]
  BY <1>1
<1> HIDE DEF w
<1>3. w # << >> /\ Len(w) \in Nat
  BY <1>1, <1>2
<1>4. Tail(w) \in Seq(S) /\ Len(Tail(w)) = Len(s) /\ \A i \in 1 .. Len(s) : Tail(w)[i] = w[i + 1]
  BY <1>1, <1>2, <1>3, HeadTailProperties
<1>5. Tail(w) = s
  <2>1. \A i \in 1 .. Len(s) : Tail(w)[i] = s[i]
    BY <1>2, <1>4
  <2> QED BY <1>4, <2>1, SeqEqual
<1>6. ASSUME s # << >>
      PROVE  Tail(s) \in Seq(S) /\ Len(Tail(s)) = Len(s) - 1 /\ <<s[1]>> \o Tail(s) = s
  <2> DEFINE v == <<s[1]>> \o Tail(s)
  <2>1. /\ Tail(s) \in Seq(S) /\ Len(Tail(s)) = Len(s) - 1 /\ s[1] \in S
        /\ \A i \in 1 .. Len(s) - 1 : Tail(s)[i] = s[i + 1]
    BY <1>1, <1>6, HeadTailProperties
  <2>2. v \in Seq(S) /\ Len(v) = Len(s) /\ v[1] = s[1]
        /\ \A i \in 2 .. Len(s) : v[i] = Tail(s)[i - 1]
    BY <1>1, <2>1
  <2> HIDE DEF v
  <2>3. \A i \in 1 .. Len(s) : v[i] = s[i]
    <3> SUFFICES ASSUME NEW i \in 1 .. Len(s) PROVE v[i] = s[i]
      OBVIOUS
    <3>1. CASE i = 1
      BY <2>2, <3>1
    <3>2. CASE i # 1
      <4>1. i \in 2 .. Len(s) /\ i - 1 \in 1 .. Len(s) - 1 /\ (i - 1) + 1 = i
        BY <1>1, <3>2
      <4>2. Tail(s)[i - 1] = s[(i - 1) + 1]
        BY <2>1, <4>1
      <4> QED BY <2>2, <4>1, <4>2
    <3> QED BY <3>1, <3>2
  <2>4. v = s
    BY <2>2, <2>3, SeqEqual
  <2> QED BY <2>1, <2>4 DEF v
<1> QED BY <1>2, <1>5, <1>6 DEF w

\* A physical path: the device, then the path there.
LEMMA DeviceFirst ==
    ASSUME NEW s \in Seq(Elements), NEW device, NEW p, p = <<device>> \o s
    PROVE  p[1] = device /\ Tail(p) = s
<1>1. s \in Seq(Elements \cup {device})
  OBVIOUS
<1> QED BY <1>1, PathParts

LEMMA DestinationIsNamed ==
    ASSUME NEW path \in Seq(Elements),
           NEW n, n = Paths!mount_normalize_path(path)
    PROVE  /\ Paths!Destination(path) \in Seq(Elements)
           /\ Paths!Destination(path) = n \/ (Len(n) > 1 /\ n[1] \in Paths!BeginsSd)
<1> DEFINE ppath == <<Paths!mount_device(n)>> \o Paths!Unmounted(n)
           d == Paths!Destination(path)
<1>1. n \in Seq(Elements)
  BY NormalPath
<1>2. d = CASE ppath = <<"spiffs">> -> << >>
            [] ppath = <<"fat">> -> <<"sd">>
            [] OTHER -> Paths!mount_resolve_to_logical(ppath)
  BY DEF Paths!Destination, Paths!mount_resolve_to_physical
<1> HIDE DEF d
<1>3. CASE n = << >>
  <2>1. ppath = <<"spiffs">>
    BY <1>3 DEF Paths!mount_device, Paths!Unmounted
  <2>2. d = << >>
    BY <1>2, <2>1
  <2> QED BY <1>3, <2>2 DEF d
<1>4. CASE n # << >> /\ n[1] = "sd"
  <2>1. ppath = <<"fat">> \o Tail(n)
    BY <1>4 DEF Paths!mount_device, Paths!Unmounted
  <2>2. Tail(n) \in Seq(Elements) /\ <<"sd">> \o Tail(n) = n
    BY <1>1, <1>4, PathParts
  <2>3. ppath[1] = "fat" /\ Tail(ppath) = Tail(n)
    <3> HIDE DEF ppath
    <3> QED BY <2>1, <2>2, DeviceFirst
  <2> HIDE DEF ppath
  <2>4. ppath # <<"spiffs">>
    BY <2>3
  <2>5. CASE ppath = <<"fat">>
    <3>1. d = <<"sd">>
      BY <1>2, <2>4, <2>5
    <3>2. Tail(n) = << >>
      BY <2>3, <2>5
    <3>3. n = <<"sd">>
      <4>1. <<"sd">> \o << >> = <<"sd">>
        OBVIOUS
      <4> QED BY <2>2, <3>2, <4>1
    <3> QED BY <1>1, <3>1, <3>3 DEF d
  <2>6. CASE ppath # <<"fat">>
    <3>1. d = <<"sd">> \o Tail(ppath)
      BY <1>2, <2>3, <2>4, <2>6 DEF Paths!mount_resolve_to_logical
    <3> QED BY <1>1, <2>2, <2>3, <3>1 DEF d
  <2> QED BY <2>5, <2>6
<1>5. CASE n # << >> /\ n[1] # "sd"
  <2> DEFINE rest == IF n[1] \in Paths!BeginsSd /\ Len(n) > 1 THEN Tail(n) ELSE n
  <2>1. ppath = <<"spiffs">> \o rest
    BY <1>5 DEF Paths!mount_device, Paths!Unmounted
  <2>2. rest \in Seq(Elements) /\ rest # << >>
    <3>1. Len(n) \in Nat /\ n[1] \in Elements
      BY <1>1, <1>5
    <3>2. Tail(n) \in Seq(Elements) /\ Len(Tail(n)) = Len(n) - 1
      BY <1>1, <1>5, <3>1, PathParts
    <3>3. Len(n) > 1 => Tail(n) # << >>
      <4>1. \A k \in Nat : k > 1 => k - 1 # 0
        OBVIOUS
      <4>2. Len(<< >>) = 0
        OBVIOUS
      <4> QED BY <3>1, <3>2, <4>1, <4>2, Zenon
    <3> QED BY <1>1, <1>5, <3>2, <3>3
  <2> HIDE DEF rest, ppath
  <2>3. ppath[1] = "spiffs" /\ Tail(ppath) = rest
    BY <2>1, <2>2, DeviceFirst
  <2>4. ppath # <<"spiffs">> /\ ppath # <<"fat">>
    BY <2>2, <2>3
  <2>5. d = rest
    BY <1>2, <2>3, <2>4 DEF Paths!mount_resolve_to_logical
  <2> QED BY <2>2, <2>5 DEF d, rest
<1> QED BY <1>3, <1>4, <1>5

PathsInv == Paths!TypeOK /\ Paths!ChdirGoesThere

LEMMA PathsStep ==
    ASSUME Paths!TypeOK, Paths!ChdirGoesThere, [Paths!Next]_pathsVars
    PROVE  Paths!TypeOK' /\ Paths!ChdirGoesThere'
<1> DEFINE Roots == {<<"spiffs">>, <<"fat">>}
<1>1. ASSUME NEW path \in Seq(Elements), Paths!chdir(path)
      PROVE  Paths!TypeOK' /\ Paths!ChdirGoesThere'
  <2> DEFINE n == Paths!mount_normalize_path(path)
             d == Paths!Destination(path)
  <2>1. currdir' = d /\ named' = Paths!Documented(path) /\ plain' = Paths!IsPlain(path) /\ card' = card
        /\ (d \in {<< >>, <<"sd">>} \/ Paths!IsDirectory(d))
    BY <1>1 DEF Paths!chdir
  <2>2. named' \in Seq(Elements) /\ plain' \in BOOLEAN /\ (plain' => named' = n)
    BY <2>1, NormalIsPath, PlainIsDocumented DEF Paths!Documented, Paths!IsPlain
  <2>3. d \in Seq(Elements) /\ (d = n \/ (Len(n) > 1 /\ n[1] \in Paths!BeginsSd))
    BY DestinationIsNamed
  <2> HIDE DEF n, d
  <2>4. Paths!mount_resolve_to_physical(d) \in Dirs \cup Roots
    <3>1. CASE d = << >>
      <4>1. Paths!mount_normalize_path(d) = << >>
        BY <2>3, <3>1, NormalPath
      <4>2. Paths!mount_resolve_to_physical(d) = <<"spiffs">>
        BY <4>1 DEF Paths!mount_resolve_to_physical, Paths!mount_device, Paths!Unmounted
      <4> QED BY <4>2
    <3>2. CASE d = <<"sd">>
      <4>1. Paths!mount_normalize_path(d) = <<"sd">>
        BY <2>3, <3>2, NormalPath
      <4>2. Paths!mount_resolve_to_physical(d) = <<"fat">>
        BY <4>1 DEF Paths!mount_resolve_to_physical, Paths!mount_device, Paths!Unmounted
      <4> QED BY <4>2
    <3>3. CASE Paths!IsDirectory(d)
      BY <3>3 DEF Paths!IsDirectory
    <3> QED BY <2>1, <3>1, <3>2, <3>3
  <2>5. Paths!TypeOK'
    BY <2>1, <2>2, <2>3 DEF Paths!TypeOK
  <2>6. Paths!mount_resolve_to_physical(currdir)' = Paths!mount_resolve_to_physical(d)
    <3>1. currdir' = d
      BY <2>1
    <3> QED BY <3>1 DEF Paths!mount_resolve_to_physical, Paths!mount_normalize_path, Paths!Normal
  <2> QED BY <2>1, <2>2, <2>3, <2>4, <2>5, <2>6 DEF Paths!ChdirGoesThere
<1>2. ASSUME NEW path \in Paths!Paths PROVE path \in Seq(Elements) /\ currdir \o path \in Seq(Elements)
  <2>1. PICK m \in 0 .. MaxPath : path \in [1 .. m -> Elements]
    BY DEF Paths!Paths, Paths!BoundedSeq, Paths!SeqOf
  <2>2. m \in Nat
    BY DevicesAssumption
  <2>3. path \in Seq(Elements)
    BY <2>1, <2>2
  <2> QED BY <2>3 DEF Paths!TypeOK
<1>3. CASE UNCHANGED <<currdir, named, plain>> /\ card' \in BOOLEAN
  BY <1>3 DEF Paths!TypeOK, Paths!ChdirGoesThere, Paths!mount_resolve_to_physical,
              Paths!mount_normalize_path, Paths!Normal
<1> QED BY <1>1, <1>2, <1>3
     DEF Paths!Next, Paths!mount_fatfs, Paths!unmount_fatfs, pathsVars, Paths!TypeOK

(***************************************************************************)
(* The theorems                                                            *)
(***************************************************************************)
Inv == StepperInv /\ I2cInv /\ YmodemInv /\ PathsInv

LEMMA InitInv == Init => Inv
<1> SUFFICES ASSUME Init PROVE Inv
  OBVIOUS
<1>1. StepperInv
  <2>1. stAt \in [Users -> {"idle"}] /\ \A t \in Users : stAt[t] # "done"
    BY DEF Init, Stepper!Init
  <2>2. Stepper!TypeOK
    <3>1. 0 \in 0 .. StepsLimit - 1
      BY DevicesAssumption
    <3>2. steps \in [Stepper!Units -> 0 .. StepsLimit - 1]
      BY <3>1 DEF Init, Stepper!Init
    <3> QED BY <2>1, <3>2 DEF Init, Stepper!Init, Stepper!TypeOK
  <2>3. Counting /\ Alone
    BY <2>1 DEF Init, Stepper!Init, Counting, Alone
  <2> QED BY <2>1, <2>2, <2>3 DEF StepperInv, Taken
<1>2. I2cInv
  <2>1. i2cSem = 1 /\ I2cUnitComesBack
    BY DEF Init, I2c!Init, I2cUnitComesBack, I2c!I2cUnitComesBack
  <2>2. i2cAt \in [Users -> {"idle"}] /\ i2cOp \in [Users -> {"none"}]
    BY DEF Init, I2c!Init
  <2>3. I2c!TypeOK
    BY <2>1, <2>2 DEF Init, I2c!Init, I2c!TypeOK
  <2>4. \A t \in Users : i2cAt[t] = "idle" /\ ~I2c!Holds(t)
    BY DEF Init, I2c!Init, I2c!Holds
  <2> QED BY <2>1, <2>3, <2>4 DEF I2cInv, I2cStrict, I2cUnitIsExclusive, I2c!I2cUnitIsExclusive
<1>3. YmodemInv
  <2>1. /\ sender = "hello" /\ sent = 0 /\ tries = 0 /\ receiver = "runs"
        /\ toReceiver = << >> /\ toSender = << >> /\ written = << >>
        /\ packets_received = 0 /\ errors = 0 /\ eof_cnt = 0
    BY DEF Init, Ymodem!Init
  <2>2. YmodemTypes
    BY <2>1, DevicesAssumption DEF YmodemTypes, Quiet
  <2>3. Alternating
    BY <2>1 DEF Alternating, NoneOf, OneOf, Among
  <2>4. Acked /\ Over
    BY <2>1 DEF Acked, Over, NoneOf, Ending
  <2>5. Writing
    BY <2>1 DEF Writing
  <2> QED BY <2>2, <2>3, <2>4, <2>5 DEF YmodemInv
<1>4. PathsInv
  <2>1. currdir = << >> /\ card = FALSE /\ named = << >> /\ plain = TRUE /\ currdir \in Seq(Elements)
    BY DEF Init, Paths!Init
  <2>2. Paths!mount_normalize_path(currdir) = << >>
    BY <2>1, NormalPath
  <2>3. Paths!mount_resolve_to_physical(currdir) = <<"spiffs">>
    BY <2>2 DEF Paths!mount_resolve_to_physical, Paths!mount_device, Paths!Unmounted
  <2> QED BY <2>1, <2>3 DEF PathsInv, Paths!TypeOK, Paths!ChdirGoesThere
<1> QED BY <1>1, <1>2, <1>3, <1>4 DEF Inv

LEMMA Invariance == Spec => []Inv
<1>1. StepperInv /\ [Next]_vars => StepperInv'
  <2>1. [Next]_vars => [Stepper!Next]_stepperVars
    BY DEF Next, StepperNext, I2cNext, YmodemNext, PathsNext, vars
  <2> QED BY <2>1, TypeStep, CountingStep, AloneStep DEF StepperInv
<1>2. I2cInv /\ [Next]_vars => I2cInv'
  <2>1. [Next]_vars => [I2c!Next]_i2cVars
    BY DEF Next, StepperNext, I2cNext, YmodemNext, PathsNext, vars
  <2> QED BY <2>1, I2cStep
<1>3. YmodemInv /\ [Next]_vars => YmodemInv'
  <2>1. [Next]_vars => [Ymodem!Next]_ymodemVars
    BY DEF Next, StepperNext, I2cNext, YmodemNext, PathsNext, vars
  <2> QED BY <2>1, YmodemStep
<1>4. PathsInv /\ [Next]_vars => PathsInv'
  <2>1. [Next]_vars => [Paths!Next]_pathsVars
    BY DEF Next, StepperNext, I2cNext, YmodemNext, PathsNext, vars
  <2> QED BY <2>1, PathsStep DEF PathsInv
<1>5. Inv /\ [Next]_vars => Inv'
  BY <1>1, <1>2, <1>3, <1>4 DEF Inv
<1> QED BY <1>5, InitInv, PTL DEF Spec

\* The table of steppers holds units below NSTEP only, and what is started is set
\* up; the lines of a transfer carry messages, and its counts stay in their ranges.
THEOREM DeviceTypes == Spec => []TypeOK
<1>1. Inv => TypeOK
  <2>1. YmodemInv => Ymodem!TypeOK
    BY DEF YmodemInv, YmodemTypes, Writing, Quiet, Ending, Ymodem!TypeOK
  <2> QED BY <2>1 DEF Inv, StepperInv, I2cInv, PathsInv, TypeOK
<1> QED BY <1>1, Invariance, PTL

\* stepper_start returns when the units of its mask have made the steps they were
\* asked for, as long as every mask is one unit that has steps to make: the
\* semaphore that the handler gives at the end is given by nobody else while a unit
\* moves.
THEOREM MovementsAreWhole == Spec => []StepperMovesAreWhole
<1>1. Inv => StepperMovesAreWhole
  BY DEF Inv, StepperInv, Alone, StepperMovesAreWhole, Stepper!StepperMovesAreWhole
<1> QED BY <1>1, Invariance, PTL

\* The mutex of a unit is taken only while a task is inside an operation of
\* i2c.c: no error path keeps it, though some of them give it twice.
THEOREM I2cGivesBack == Spec => []I2cUnitComesBack
<1>1. Inv => I2cUnitComesBack
  BY DEF Inv, I2cInv
<1> QED BY <1>1, Invariance, PTL

\* One task at a time is inside the operations of a unit, until i2c_start finds no
\* memory for a command or the bus refuses or times out in i2c_stop, where the
\* function below unlocks and so does its caller, or i2c_flush works without lock.
THEOREM I2cExcludes == Spec => []I2cUnitIsExclusive
<1>1. Inv => I2cUnitIsExclusive
  BY DEF Inv, I2cInv
<1> QED BY <1>1, Invariance, PTL

\* Files of any length arrive whole, whatever the line loses and garbles and however
\* many timeouts and NAKs there are: Ymodem_Receive writes the blocks in order and
\* none twice, and when it or Ymodem_Transmit reports success it has written all.
THEOREM TransfersAreWhole == Spec => []YmodemTransferIsWhole
<1>1. Inv => YmodemTransferIsWhole
  <2> SUFFICES ASSUME Inv PROVE YmodemTransferIsWhole
    OBVIOUS
  <2>1. /\ written \in Seq(1 .. Blocks) /\ \A i \in 1 .. Len(written) : written[i] = i
        /\ Len(written) = IF packets_received = 0 THEN 0 ELSE packets_received - 1
    BY DEF Inv, YmodemInv, Writing
  <2>2. written = [i \in 1 .. Len(written) |-> i]
    BY <2>1
  <2>3. eof_cnt \in 0 .. 2
    BY DEF Inv, YmodemInv, YmodemTypes
  <2>4. receiver = "file" => eof_cnt > 0
    BY <2>3 DEF Inv, YmodemInv, Over
  <2>5. sender = "done" \/ receiver = "file" => packets_received = Blocks + 1
    BY <2>4 DEF Inv, YmodemInv, Over, Ending
  <2>6. packets_received = Blocks + 1 => Len(written) = Blocks
    BY <2>1, DevicesAssumption
  <2> QED BY <2>2, <2>5, <2>6 DEF YmodemTransferIsWhole, Ymodem!TransferIsWhole
<1> QED BY <1>1, Invariance, PTL

\* However chdir is called, absolutely or relatively, and whatever is mounted and
\* unmounted between: the current directory is the one that the last chdir named by
\* the comment of mount_normalize_path, but for a first element that begins the
\* name of a mount point and for elements that merely end in "." or "..", and
\* getcwd translates back to a directory that exists or to one of the two roots.
THEOREM ChdirsGoThere == Spec => []PathsChdirGoesThere
<1>1. Inv => PathsChdirGoesThere
  BY DEF Inv, PathsInv, PathsChdirGoesThere
<1> QED BY <1>1, Invariance, PTL
=============================================================================
