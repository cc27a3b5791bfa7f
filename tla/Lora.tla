-------------------------------- MODULE Lora --------------------------------
(***************************************************************************)
(* drivers/lora_lmic.c, the LoRa WAN driver behind the Lua module lora,    *)
(* and the part of the MAC layer it drives (lmic/lmic.c).                  *)
(*                                                                         *)
(* Clients are Lua threads.  Each call takes lora_mtx and keeps it until   *)
(* it returns, also while it waits for the bits of loraEvent that onEvent  *)
(* sets.  onEvent runs in the LMIC task, which runs the job of the MAC     *)
(* (LMIC.osjob) and shares the structure LMIC with the clients.            *)
(*                                                                         *)
(* A job, and a call of the LMIC library, is a step, except that a job     *)
(* reports an event first, and then runs engineUpdate.  The two receive    *)
(* windows of a frame are one answer.  The queues under osjob, which let   *)
(* a set job run, are the module LmicSched.                                *)
(***************************************************************************)
EXTENDS Integers, FiniteSets

CONSTANTS
    Clients,     \* the threads that use the module lora
    None,
    Bands,       \* the bands lora.setup is called with
    Keys,        \* what is set with lora_mac_set
    Lengths,     \* "short"; "full": fits LMIC.pendTxData and, with the options of
                 \* the MAC, no frame; or "long": beyond LMIC.pendTxData
    Network,     \* what the network may do: "refuses", "polls", "silent"
    JoinTries,   \* lost join requests after which EV_JOIN_FAILED is reported
    TxAttempts,  \* LMIC.txAttempts
    MemoryShort, \* whether an error may fail to be allocated
    MaxCalls,    \* bound: calls of the clients
    MaxFrames,   \* bound: answers that ask for another frame
    MaxSleeps    \* bound: deep sleeps

OtaaKeys == {"APPEUI", "DEVEUI", "APPKEY"}
AbpKeys == {"DEVADDR", "NWKSKEY", "APPSKEY"}
LinkKeys == {"LINKCHK_ON", "LINKCHK_OFF"}

ASSUME LoraAssumption ==
    /\ Keys \subseteq OtaaKeys \cup AbpKeys \cup LinkKeys
    /\ Lengths \subseteq {"short", "full", "long"}
    /\ Network \subseteq {"refuses", "polls", "silent"}
    /\ MemoryShort \in BOOLEAN
    /\ JoinTries \in Nat \ {0} /\ TxAttempts \in Nat \ {0}
    /\ MaxCalls \in Nat /\ MaxFrames \in Nat /\ MaxSleeps \in Nat
    /\ None \notin Clients \cup Bands

VARIABLES
    owner,   \* of lora_mtx, or None
    setup, band, keys, joined, session, msgid,   \* those of lora_lmic.c
    bits,    \* those set in loraEvent
    pc, op,  \* where each client is, and the call it makes or made last
    mac,     \* the structure LMIC, and what the LMIC task does next
    calls, frames, sleeps,   \* counted for the bounds
    net      \* ghost: what was on the air

vars == <<owner, setup, band, keys, joined, session, msgid, bits, pc, op, mac,
          calls, frames, sleeps, net>>
driverVars == <<setup, band, keys, session, msgid>>
clientVars == <<owner, pc, op>>
boundVars == <<calls, frames, sleeps>>

NoFrame == [kind |-> "none", msg |-> 0, count |-> 0, again |-> FALSE, conf |-> FALSE]
NoCall == [call |-> "none", arg |-> None, len |-> "short", msg |-> 0, ok |-> FALSE,
           unheard |-> FALSE]

\* LMIC after LMIC_reset and lora_init.
Reset == [devaddr |-> FALSE, opmode |-> {}, msg |-> 0, conf |-> FALSE, full |-> FALSE,
          txCnt |-> 0, seqnoUp |-> 0, linkchk |-> FALSE, osjob |-> "none",
          frame |-> NoFrame, tries |-> 0, task |-> "jobs", dead |-> FALSE]

Init ==
    /\ owner = None
    /\ setup = FALSE /\ band = None /\ keys = {}
    /\ joined = FALSE /\ session = FALSE
    /\ msgid = 0
    /\ bits = {}
    /\ pc = [c \in Clients |-> "idle"]
    /\ op = [c \in Clients |-> NoCall]
    /\ mac = Reset
    /\ calls = 0 /\ frames = 0 /\ sleeps = 0
    /\ net = [sent |-> {}, acked |-> {}, fresh |-> TRUE,
              session |-> "otaa", last |-> [s \in {"otaa", "abp"} |-> -1]]

(***************************************************************************)
(* engineUpdate                                                            *)
(***************************************************************************)
\* LMIC_startJoining, when no frame is on the air.
StartJoining(m) ==
    IF m.devaddr THEN m
    ELSE [m EXCEPT !.opmode = (@ \ {"REJOIN"}) \cup {"JOINING"},
                   !.tries = 0, !.txCnt = 0, !.osjob = "start"]

\* buildJoinRequest or buildDataFrame, and os_radio(RADIO_TX).  A payload that does
\* not fit the frame is left out: what goes out is an empty frame, as for a poll.
Transmit(m) ==
    LET kind == CASE m.opmode \cap {"JOINING", "REJOIN"} # {} -> "join"
                  [] "TXDATA" \in m.opmode /\ ~m.full -> "data"
                  [] OTHER -> "poll"
        first == m.txCnt = 0
        count == IF first THEN m.seqnoUp ELSE m.seqnoUp - 1
        onAir == [m EXCEPT !.opmode = (@ \ {"POLL"}) \cup {"TXRXPEND"}, !.osjob = "done"]
    IN  IF kind = "join" THEN [onAir EXCEPT !.frame = [NoFrame EXCEPT !.kind = "join"]]
        ELSE [onAir EXCEPT
                !.seqnoUp = count + 1,
                !.txCnt = IF kind = "data" /\ m.conf /\ first THEN 1 ELSE @,
                !.frame = [kind |-> kind, msg |-> IF kind = "data" THEN m.msg ELSE 0,
                           count |-> count, again |-> kind = "data" /\ ~first,
                           conf |-> kind = "data" /\ m.conf]]

\* late: the duty cycle of the channel lets the frame go later only.
Engine(m, late) ==
    CASE "TXRXPEND" \in m.opmode -> m
      [] "TXRXPEND" \notin m.opmode /\ ~m.devaddr /\ "JOINING" \notin m.opmode ->
            StartJoining(m)
      [] OTHER ->
            IF m.opmode \cap {"JOINING", "REJOIN", "TXDATA", "POLL"} = {} THEN m
            ELSE IF late THEN [m EXCEPT !.osjob = "engine"] ELSE Transmit(m)

\* stateJustJoined: a session starts its counters, and turns the link check on.
JustJoined(m) == [m EXCEPT !.seqnoUp = 0, !.linkchk = TRUE]

\* LMIC_setTxData2 and LMIC_setTxData.
SetTxData(m, msg, full, conf, late) ==
    Engine([m EXCEPT !.msg = msg, !.full = full, !.conf = conf, !.opmode = @ \cup {"TXDATA"},
                     !.txCnt = IF "JOINING" \in m.opmode THEN @ ELSE 0], late)

(***************************************************************************)
(* The calls of the clients                                                *)
(***************************************************************************)
Go(c, where) == pc' = [pc EXCEPT ![c] = where]

Answers(c, ok, unheard) ==
    /\ owner' = None
    /\ Go(c, "idle")
    /\ op' = [op EXCEPT ![c].ok = ok, ![c].unheard = unheard]

\* An error for which there is no memory is NULL, which is no error.
Returns(c, ok) ==
    \E unheard \in {FALSE} \cup {MemoryShort /\ ~ok} : Answers(c, ok \/ unheard, unheard)

Begin(c) ==
    /\ pc[c] = "idle" /\ calls < MaxCalls
    /\ calls' = calls + 1
    /\ \E call \in [call : {"setup"}, arg : Bands, len : {"short"}]
              \cup [call : {"set"}, arg : Keys, len : {"short"}]
              \cup [call : {"join"}, arg : {None}, len : {"short"}]
              \cup [call : {"tx"}, arg : BOOLEAN, len : Lengths] :
        op' = [op EXCEPT ![c] = [call |-> call.call, arg |-> call.arg, len |-> call.len,
                                 msg |-> calls + 1, ok |-> FALSE, unheard |-> FALSE]]
    /\ Go(c, "lock")
    /\ UNCHANGED <<owner, driverVars, joined, bits, mac, frames, sleeps, net>>

\* mtx_lock(&lora_mtx), at the beginning of every call.
Locks_Blindly(c, call) == pc[c] = "lock" /\ op[c].call = call
Locks(c, call) == pc[c] = "lock" /\ op[c].call = call /\ owner = None

SetupOtherBand(c) ==
    /\ Locks(c, "setup")
    /\ band \notin {None, op[c].arg}
    /\ owner' = c
    /\ Go(c, "idle")
    /\ UNCHANGED <<op, driverVars, joined, bits, mac, boundVars, net>>

SetupAgain(c) ==
    /\ Locks(c, "setup")
    /\ setup /\ band = op[c].arg
    /\ Returns(c, TRUE)
    /\ UNCHANGED <<driverVars, joined, bits, mac, boundVars, net>>

\* os_init fails: pins are locked, the radio is not found, no thread is made.
SetupFails(c) ==
    /\ Locks(c, "setup")
    /\ ~setup /\ band \in {None, op[c].arg}
    /\ band' = op[c].arg
    /\ Answers(c, FALSE, FALSE)
    /\ UNCHANGED <<setup, keys, session, msgid, joined, bits, mac, boundVars, net>>

\* Its error could not be allocated: a job is set that no thread will run.
SetupUnheard(c) ==
    /\ Locks(c, "setup")
    /\ ~setup /\ band \in {None, op[c].arg} /\ MemoryShort
    /\ band' = op[c].arg
    /\ owner' = c
    /\ Go(c, "inited")
    /\ UNCHANGED <<setup, keys, session, msgid, op, joined, bits, mac, boundVars, net>>

SetupStart(c) ==
    /\ Locks(c, "setup")
    /\ ~setup /\ band \in {None, op[c].arg}
    /\ band' = op[c].arg
    /\ owner' = c
    /\ mac' = [mac EXCEPT !.osjob = "init"]
    /\ Go(c, "inited")
    /\ UNCHANGED <<setup, keys, session, msgid, op, joined, bits, boundVars, net>>

SetupEnd(c) ==
    /\ pc[c] = "inited" /\ "INITED" \in bits
    /\ bits' = bits \ {"INITED"}
    /\ setup' = TRUE
    /\ Returns(c, TRUE)
    /\ UNCHANGED <<band, keys, session, msgid, joined, mac, boundVars, net>>

MacSet(c) ==
    /\ Locks(c, "set")
    /\ Returns(c, setup)
    /\ keys' = IF setup THEN keys \cup ({op[c].arg} \ LinkKeys) ELSE keys
    /\ mac' = IF setup /\ op[c].arg \in LinkKeys
              THEN [mac EXCEPT !.linkchk = op[c].arg = "LINKCHK_ON"] ELSE mac
    /\ UNCHANGED <<setup, band, session, msgid, joined, bits, boundVars, net>>

\* APPSKEY is compared where NWKSKEY is meant.
MustJoin == keys \cap {"DEVADDR", "APPSKEY"} = {}
CanOtaa == OtaaKeys \subseteq keys
CanAbp == {"DEVADDR", "APPSKEY"} \subseteq keys

JoinReturns(c) ==
    /\ Locks(c, "join")
    /\ ~setup \/ ~MustJoin \/ ~CanOtaa \/ joined
    /\ Returns(c, setup /\ MustJoin /\ CanOtaa)
    /\ UNCHANGED <<driverVars, joined, bits, mac, boundVars, net>>

JoinCheck(c) ==
    /\ Locks(c, "join")
    /\ setup /\ MustJoin /\ CanOtaa /\ ~joined
    /\ owner' = c
    /\ Go(c, "join")
    /\ UNCHANGED <<op, driverVars, joined, bits, mac, boundVars, net>>

\* LMIC_startJoining; its assertion fails when a frame is on the air.  A session
\* of ABP starts its counters again, whatever becomes of the request: the ghost
\* forgets those it had.
JoinStart(c) ==
    /\ pc[c] = "join"
    /\ msgid' = 0
    /\ IF ~mac.devaddr /\ mac.opmode \cap {"POLL", "TXRXPEND"} # {}
       THEN Go(c, "halted") /\ UNCHANGED mac
       ELSE Go(c, "joining") /\ mac' = StartJoining(mac)
    /\ net' = [net EXCEPT !.last["abp"] = -1]
    /\ UNCHANGED <<owner, setup, band, keys, session, op, joined, bits, boundVars>>

JoinEnd_IgnoresDenial(c) ==
    /\ pc[c] = "joining" /\ bits \cap {"JOINED", "JOIN_DENIED"} # {}
    /\ bits' = bits \ {"JOINED", "JOIN_DENIED"}
    /\ Returns(c, TRUE)
    /\ UNCHANGED <<driverVars, joined, mac, boundVars, net>>
JoinEnd(c) ==
    /\ pc[c] = "joining" /\ bits \cap {"JOINED", "JOIN_DENIED"} # {}
    /\ bits' = bits \ {"JOINED", "JOIN_DENIED"}
    /\ Returns(c, "JOINED" \in bits)
    /\ UNCHANGED <<driverVars, joined, mac, boundVars, net>>

CanTx == IF MustJoin THEN CanOtaa /\ joined ELSE CanAbp

TxReturns(c) ==
    /\ Locks(c, "tx")
    /\ ~setup \/ ~CanTx
    /\ Returns(c, FALSE)
    /\ UNCHANGED <<driverVars, joined, bits, mac, boundVars, net>>

\* LMIC_setSession, for the first message with the keys of ABP.
SetSession(m) ==
    JustJoined([m EXCEPT !.devaddr = TRUE,
                         !.opmode = @ \ {"JOINING", "REJOIN", "TXRXPEND"}])

TxCheck(c) ==
    /\ Locks(c, "tx")
    /\ setup /\ CanTx
    /\ session' = (session \/ ~MustJoin)
    /\ IF ~MustJoin /\ ~session
       THEN mac' = SetSession(mac) /\ net' = [net EXCEPT !.session = "abp"]
       ELSE UNCHANGED <<mac, net>>
    /\ \/ owner' = c /\ Go(c, "tx") /\ UNCHANGED op
       \/ Returns(c, FALSE)                          \* malloc fails
    /\ UNCHANGED <<setup, band, keys, msgid, joined, bits, boundVars>>

\* LMIC_setTxData2 refuses a long message, and nobody looks at what it returns.
TxStart(c) ==
    /\ pc[c] = "tx"
    /\ msgid' = msgid + 1
    /\ LET m == [mac EXCEPT !.seqnoUp = msgid + 1]
       IN  \E late \in BOOLEAN :
             mac' = IF op[c].len = "long" THEN m
                    ELSE SetTxData(m, op[c].msg, op[c].len = "full", op[c].arg, late)
    /\ Go(c, "sending")
    /\ UNCHANGED <<owner, setup, band, keys, session, op, joined, bits, boundVars, net>>

TxEnd_KeepsBits(c) ==
    /\ pc[c] = "sending" /\ bits \cap {"TX_COMPLETE", "ACK_NOT_RECEIVED"} # {}
    /\ Returns(c, "TX_COMPLETE" \in bits)
    /\ UNCHANGED <<driverVars, joined, bits, mac, boundVars, net>>
TxEnd(c) ==
    /\ pc[c] = "sending" /\ bits \cap {"TX_COMPLETE", "ACK_NOT_RECEIVED"} # {}
    /\ bits' = bits \ {"TX_COMPLETE", "ACK_NOT_RECEIVED"}
    /\ Returns(c, "TX_COMPLETE" \in bits)
    /\ UNCHANGED <<driverVars, joined, mac, boundVars, net>>

(***************************************************************************)
(* The jobs of the LMIC task, and onEvent                                  *)
(***************************************************************************)
Job(name) == mac.osjob = name /\ mac.task = "jobs"

\* A job has run; report: it reports an event, after which engineUpdate is called.
Ran(m, report) ==
    mac' = [m EXCEPT !.osjob = IF m.osjob = mac.osjob THEN "none" ELSE @,
                     !.task = IF report THEN "engine" ELSE "jobs"]

InitJob ==
    /\ Job("init")
    /\ Ran(Reset, FALSE)
    /\ bits' = bits \cup {"INITED"}
    /\ UNCHANGED <<clientVars, driverVars, joined, boundVars, net>>

ReportJoining ==
    /\ Job("start")
    /\ Ran(mac, TRUE)
    /\ joined' = FALSE
    /\ UNCHANGED <<clientVars, driverVars, bits, boundVars, net>>

ReportJoinFailed ==
    /\ Job("failed")
    /\ Ran(mac, TRUE)
    /\ joined' = FALSE
    /\ bits' = bits \cup {"JOIN_DENIED"}
    /\ UNCHANGED <<clientVars, driverVars, boundVars, net>>

RunEngine ==
    /\ Job("engine")
    /\ mac' = Engine([mac EXCEPT !.osjob = "none"], FALSE)
    /\ UNCHANGED <<clientVars, driverVars, joined, bits, boundVars, net>>

\* reportEvent calls engineUpdate; then a dead link is reported, and again.
Report ==
    /\ mac.task = "engine"
    /\ \E late \in BOOLEAN :
        LET m == Engine(mac, late)
        IN  mac' = IF m.dead THEN [m EXCEPT !.dead = FALSE, !.opmode = @ \cup {"REJOIN"}]
                   ELSE [m EXCEPT !.task = "jobs"]
    /\ UNCHANGED <<clientVars, driverVars, joined, bits, boundVars, net>>

(***************************************************************************)
(* The answers to a frame: processJoinAccept and processDnData             *)
(***************************************************************************)
Answered(kinds) == Job("done") /\ "TXRXPEND" \in mac.opmode /\ mac.frame.kind \in kinds

\* LMIC_ASSERT((LMIC.opmode & OP_TXRXPEND)!=0) fails.
AnswerHalts ==
    /\ Job("done") /\ "TXRXPEND" \notin mac.opmode
    /\ mac' = [mac EXCEPT !.task = "halted"]
    /\ UNCHANGED <<clientVars, driverVars, joined, bits, boundVars, net>>

JoinAccepted ==
    /\ Answered({"join"})
    /\ Ran(JustJoined([mac EXCEPT !.devaddr = TRUE, !.txCnt = 0,
                                  !.opmode = @ \ {"JOINING", "REJOIN", "TXRXPEND"}]), TRUE)
    /\ joined' = TRUE
    /\ bits' = bits \cup {"JOINED"}
    /\ net' = [net EXCEPT !.session = "otaa", !.last["otaa"] = -1]
    /\ UNCHANGED <<clientVars, driverVars, boundVars>>

RejoinLost ==
    /\ Answered({"join"}) /\ "JOINING" \notin mac.opmode
    /\ Ran([mac EXCEPT !.opmode = @ \ {"REJOIN", "TXRXPEND"}], TRUE)
    /\ joined' = FALSE
    /\ UNCHANGED <<clientVars, driverVars, bits, boundVars, net>>

\* The next request is a job, or the failure of this round is reported first.
JoinLost ==
    LET last == mac.tries + 1 = JoinTries
    IN  /\ Answered({"join"}) /\ "JOINING" \in mac.opmode
        /\ last => "refuses" \in Network
        /\ mac' = [mac EXCEPT !.tries = IF last THEN 0 ELSE @ + 1,
                              !.osjob = IF last THEN "failed" ELSE "engine",
                              !.opmode = @ \ {"TXRXPEND"}]
        /\ UNCHANGED <<clientVars, driverVars, joined, bits, boundVars, net>>

\* What was on the air.
Heard(ack) ==
    net' = [net EXCEPT
              !.sent = IF mac.frame.kind = "data" THEN @ \cup {mac.frame.msg} ELSE @,
              !.acked = IF mac.frame.kind = "data" /\ ack THEN @ \cup {mac.frame.msg} ELSE @,
              !.fresh = @ /\ (mac.frame.again \/ mac.frame.count > net.last[net.session]),
              !.last[net.session] = IF mac.frame.count > @ THEN mac.frame.count ELSE @]

Retransmit ==
    /\ Answered({"data", "poll"})
    /\ mac.txCnt \in 1 .. TxAttempts - 1
    /\ \E late \in BOOLEAN :
        mac' = Engine([mac EXCEPT !.txCnt = @ + 1, !.osjob = "none",
                                  !.opmode = @ \ {"TXRXPEND"}], late)
    /\ Heard(FALSE)
    /\ UNCHANGED <<clientVars, driverVars, joined, bits, boundVars>>

\* EV_TXCOMPLETE, with the flags TXRX_ACK or TXRX_NACK if an ACK was awaited.
Complete(m, ack) ==
    /\ Ran([m EXCEPT !.opmode = @ \ {"TXDATA", "TXRXPEND"}], TRUE)
    /\ bits' = bits \cup (IF ~mac.conf THEN {"TX_COMPLETE"}
                          ELSE IF mac.txCnt = 0 THEN {}
                          ELSE IF ack THEN {"TX_COMPLETE"} ELSE {"ACK_NOT_RECEIVED"})
    /\ Heard(ack)

\* Nothing was received.  After many such frames the link is found dead.
NothingReceived ==
    /\ Answered({"data", "poll"})
    /\ mac.txCnt \notin 1 .. TxAttempts - 1
    /\ \E dead \in {FALSE} \cup {mac.linkchk /\ "silent" \in Network} :
        Complete([mac EXCEPT !.dead = dead], FALSE)
    /\ UNCHANGED <<clientVars, driverVars, joined, boundVars>>

\* A frame was received: it may carry an ACK, if that was asked for, or ask for
\* another frame.
FrameReceived ==
    /\ Answered({"data", "poll"})
    /\ \E ack \in {FALSE} \cup {mac.frame.conf},
          more \in {FALSE} \cup {"polls" \in Network /\ frames < MaxFrames} :
        /\ frames' = IF more THEN frames + 1 ELSE frames
        /\ Complete([mac EXCEPT !.opmode = IF more THEN @ \cup {"POLL"} ELSE @], ack)
    /\ UNCHANGED <<clientVars, driverVars, joined, calls, sleeps>>

\* cpu_sleep: what is not in RTC memory is lost, and the program starts again.
DeepSleep_LosesId(c) ==
    /\ pc[c] = "idle" /\ sleeps < MaxSleeps
    /\ sleeps' = sleeps + 1
    /\ owner' = None
    /\ setup' = FALSE /\ band' = None /\ keys' = {}
    /\ joined' = FALSE /\ session' = FALSE
    /\ bits' = {}
    /\ pc' = [d \in Clients |-> "idle"]
    /\ op' = [d \in Clients |-> NoCall]
    /\ mac' = Reset
    /\ msgid' = 0
    /\ UNCHANGED <<calls, frames, net>>
DeepSleep(c) ==
    /\ pc[c] = "idle" /\ sleeps < MaxSleeps
    /\ sleeps' = sleeps + 1
    /\ owner' = None
    /\ setup' = FALSE /\ band' = None /\ keys' = {}
    /\ joined' = FALSE /\ session' = FALSE
    /\ bits' = {}
    /\ pc' = [d \in Clients |-> "idle"]
    /\ op' = [d \in Clients |-> NoCall]
    /\ mac' = Reset
    /\ UNCHANGED <<msgid, calls, frames, net>>

Client(c) ==
    \/ SetupOtherBand(c) \/ SetupAgain(c) \/ SetupFails(c) \/ SetupUnheard(c)
    \/ SetupStart(c) \/ SetupEnd(c) \/ MacSet(c)
    \/ JoinReturns(c) \/ JoinCheck(c) \/ JoinStart(c) \/ JoinEnd(c)
    \/ TxReturns(c) \/ TxCheck(c) \/ TxStart(c) \/ TxEnd(c)

Task ==
    \/ InitJob \/ ReportJoining \/ ReportJoinFailed \/ RunEngine \/ Report
    \/ AnswerHalts \/ JoinAccepted \/ RejoinLost \/ JoinLost
    \/ Retransmit \/ NothingReceived \/ FrameReceived

Next == (\E c \in Clients : Begin(c) \/ Client(c) \/ DeepSleep(c)) \/ Task

\* Tasks that can run do; nobody has to make a call, or to sleep.
Fairness == WF_vars(Task) /\ \A c \in Clients : WF_vars(Client(c))

Spec == Init /\ [][Next]_vars /\ Fairness

(***************************************************************************)
(* Properties                                                              *)
(***************************************************************************)
Bits == {"INITED", "JOINED", "JOIN_DENIED", "TX_COMPLETE", "ACK_NOT_RECEIVED"}
Modes == {"JOINING", "REJOIN", "TXDATA", "POLL", "TXRXPEND"}

\* The variables of lora_lmic.c and of LMIC have their types; a call that is past
\* mtx_lock, also one that waits for an event, has lora_mtx.
TypeOK ==
    /\ owner \in Clients \cup {None}
    /\ setup \in BOOLEAN /\ joined \in BOOLEAN /\ session \in BOOLEAN
    /\ band \in Bands \cup {None} /\ keys \subseteq OtaaKeys \cup AbpKeys
    /\ msgid \in 0 .. MaxCalls
    /\ bits \subseteq Bits
    /\ pc \in [Clients -> {"idle", "lock", "inited", "join", "joining", "tx", "sending",
                           "halted"}]
    /\ \A c \in Clients : pc[c] \notin {"idle", "lock"} => owner = c
    /\ mac.opmode \subseteq Modes
    /\ mac.osjob \in {"none", "init", "start", "failed", "engine", "done"}
    /\ mac.task \in {"jobs", "engine", "halted"}
    /\ mac.txCnt \in 0 .. TxAttempts

\* A message for which lora_tx returned no error was on the air, and if it asked
\* for an ACK, was acknowledged: the event that ended the wait was its own
\* (lora_lmic.c:665 "Wait for one of the expected events").  Two cases are left
\* out, in which the code says OK of a message that never was on the air: an error
\* that could not be allocated, and a message that does not fit its frame, of
\* which buildDataFrame sends nothing (lmic.c:1780 "Options and payload too big")
\* and whose EV_TXCOMPLETE is reported all the same.
OkMeansSent ==
    \A c \in Clients : op[c].call = "tx" /\ op[c].ok =>
        \/ op[c].unheard \/ op[c].len = "full"
        \/ op[c].msg \in net.sent /\ (op[c].arg => op[c].msg \in net.acked)

\* After lora_join returned no error, and while joined says so, LMIC has a session,
\* whatever the network, the rejoins and the order of their events were.  Not when
\* NULL was returned for an error that could not be allocated.
JoinedHasSession ==
    /\ joined => mac.devaddr
    /\ \A c \in Clients : op[c].call = "join" /\ op[c].ok /\ ~op[c].unheard => mac.devaddr

\* Every frame that is not a retransmission has a counter that no earlier frame of
\* its session had, also after a deep sleep (lora_lmic.c:101 "We put this in RTC
\* memory for survive a deep sleep.  ABP needs to keep msgid in sequence"), and
\* when sessions of OTAA and ABP follow each other.  For a session of ABP this is
\* so since the last call of lora_join only, which sets msgid to 0.
CountersAreNew == net.fresh

=============================================================================
