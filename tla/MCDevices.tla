----------------------------- MODULE MCDevices -----------------------------
(***************************************************************************)
(* Devices for TLC.  The parts share no state, so a behaviour is one of    *)
(* one of them and the others stay as they start.                          *)
(***************************************************************************)
EXTENDS Devices, TLC

VARIABLE device  \* the part this behaviour is about

\* A directory "s" whose content also stands at the root, where paths into it
\* lead, and the same on the card.
MCDirs == {<<"spiffs", "a">>, <<"spiffs", "s">>, <<"spiffs", "s", "a">>,
           <<"spiffs", "a", "s">>, <<"fat", "a">>, <<"fat", "s">>, <<"fat", "s", "a">>}

MCInit == Init /\ device \in {"stepper", "i2c", "ymodem", "paths"}

MCNext ==
    /\ UNCHANGED device
    /\ \/ device = "stepper" /\ StepperNext
       \/ device = "i2c" /\ I2cNext
       \/ device = "ymodem" /\ YmodemNext
       \/ device = "paths" /\ PathsNext

\* Tasks inside stepper_start run on, started units that were moved have a period
\* and make their steps, and both ends of a Ymodem transfer read what has come or
\* time out.
mcVars == <<vars, device>>
Fairness ==
    /\ \A t \in Users : WF_mcVars(device = "stepper" /\ Stepper!Started(t)
            /\ UNCHANGED <<device, i2cVars, ymodemVars, pathsVars>>)
    /\ \A u \in 0 .. NSTEP - 1 : WF_mcVars(device = "stepper" /\ u \in Stepper!Told /\ Stepper!Makes(u)
            /\ UNCHANGED <<device, i2cVars, ymodemVars, pathsVars>>)
    /\ WF_mcVars(device = "ymodem" /\ Ymodem!Sending
            /\ UNCHANGED <<device, stepperVars, i2cVars, pathsVars>>)
    /\ WF_mcVars(device = "ymodem" /\ Ymodem!Receiving
            /\ UNCHANGED <<device, stepperVars, i2cVars, pathsVars>>)

MCSpec == MCInit /\ [][MCNext]_mcVars /\ Fairness

\* Both sides of a Ymodem transfer return (Ymodem).
YmodemTransferEnds == device = "ymodem" => Ymodem!TransferEnds
=============================================================================
