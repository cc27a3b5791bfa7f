------------------------------ MODULE Devices ------------------------------
(***************************************************************************)
(* Parts of the system that tasks use and that share no state: the stepper *)
(* driver, an I2C unit, a file on its way with Ymodem, and the current     *)
(* directory.  A step is a step of one of them.                            *)
(***************************************************************************)
EXTENDS Integers, Sequences

CONSTANTS
    Users,                                  \* tasks
    NSTEP, StepsLimit, MaxSteps, MaxCalls,  \* of Stepper
    Blocks, MAX_ERRORS, NakErrors,          \* of Ymodem
    Dirs, Elements, MaxPath                 \* of Paths

\* The table of steppers has a unit (stepper.h), and a file has a block: an empty
\* one is refused with its name (ymodem.c:287).
ASSUME DevicesAssumption ==
    /\ NSTEP \in Nat \ {0} /\ MaxSteps \in Nat /\ StepsLimit \in Nat /\ MaxSteps < StepsLimit
    /\ Blocks \in Nat \ {0} /\ MAX_ERRORS \in Nat /\ MaxPath \in Nat

VARIABLES
    stAt, stSem, stSetup, steps, start, awaits, asked, made, calls, proper, blank,
    i2cAt, i2cOp, i2cSem, i2cSetup, transactions, loosened,
    sender, sent, tries, toReceiver, toSender,
    receiver, packets_received, errors, eof_cnt, written,
    currdir, card, named, plain

stepperVars == <<stAt, stSem, stSetup, steps, start, awaits, asked, made, calls, proper, blank>>
i2cVars == <<i2cAt, i2cOp, i2cSem, i2cSetup, transactions, loosened>>
ymodemVars == <<sender, sent, tries, toReceiver, toSender,
                receiver, packets_received, errors, eof_cnt, written>>
pathsVars == <<currdir, card, named, plain>>
vars == <<stepperVars, i2cVars, ymodemVars, pathsVars>>

Stepper == INSTANCE Stepper WITH at <- stAt, sem <- stSem, setup <- stSetup
I2c == INSTANCE I2c WITH at <- i2cAt, op <- i2cOp, sem <- i2cSem, setup <- i2cSetup
Ymodem == INSTANCE Ymodem
Paths == INSTANCE Paths

Init == Stepper!Init /\ I2c!Init /\ Ymodem!Init /\ Paths!Init

StepperNext == Stepper!Next /\ UNCHANGED <<i2cVars, ymodemVars, pathsVars>>
I2cNext == I2c!Next /\ UNCHANGED <<stepperVars, ymodemVars, pathsVars>>
YmodemNext == Ymodem!Next /\ UNCHANGED <<stepperVars, i2cVars, pathsVars>>
PathsNext == Paths!Next /\ UNCHANGED <<stepperVars, i2cVars, ymodemVars>>

Next == StepperNext \/ I2cNext \/ YmodemNext \/ PathsNext

Spec == Init /\ [][Next]_vars

TypeOK == Stepper!TypeOK /\ I2c!TypeOK /\ Ymodem!TypeOK /\ Paths!TypeOK

\* stepper_start returns when its units have made their steps (Stepper).
StepperMovesAreWhole == Stepper!StepperMovesAreWhole

\* Every stepper_start returns (Stepper).
StepperStartsReturn == Stepper!StepperStartsReturn

\* The mutex of an I2C unit comes back from every error path (I2c).
I2cUnitComesBack == I2c!I2cUnitComesBack

\* One task at a time is in an I2C unit, until an i2c_flush, or an error of a
\* command or of the bus that unlocks twice (I2c).
I2cUnitIsExclusive == I2c!I2cUnitIsExclusive

\* The file of a Ymodem transfer is whole when it is said to be (Ymodem).
YmodemTransferIsWhole == Ymodem!TransferIsWhole

\* chdir goes to the directory that its argument names (Paths).
PathsChdirGoesThere == Paths!ChdirGoesThere
=============================================================================
