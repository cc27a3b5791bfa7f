---------------------------- MODULE LoraProofs ----------------------------
(***************************************************************************)
(* Theorems about the LoRa WAN driver and its MAC, for any number of       *)
(* clients, calls, frames and deep sleeps, and for every network.          *)
(***************************************************************************)
EXTENDS Lora, FiniteSetTheorems, TLAPS

(***************************************************************************)
(* The inductive invariant: types                                          *)
(***************************************************************************)
\* The structure LMIC, and the frame it has sent.
Frames == [kind : {"none", "join", "data", "poll"}, msg : Int, count : Int,
           again : BOOLEAN, conf : BOOLEAN]
Macs == [devaddr : BOOLEAN, opmode : SUBSET Modes, msg : Int, conf : BOOLEAN,
         full : BOOLEAN, txCnt : 0 .. TxAttempts, seqnoUp : Int, linkchk : BOOLEAN,
         osjob : {"none", "init", "start", "failed", "engine", "done"},
         frame : Frames, tries : Int, task : {"jobs", "engine", "halted"}, dead : BOOLEAN]

\* A call has the arguments of its kind, and is where calls of its kind are.
CallTypes == [call : {"none", "setup", "set", "join", "tx"},
              arg : Bands \cup Keys \cup {None} \cup BOOLEAN, len : {"short", "full", "long"},
              msg : Int, ok : BOOLEAN, unheard : BOOLEAN]
CallsAreKind ==
    /\ op \in [Clients -> CallTypes]
    /\ \A c \in Clients :
          /\ op[c].call = "setup" => op[c].arg \in Bands
          /\ op[c].call = "set" => op[c].arg \in Keys
          /\ op[c].call = "tx" => op[c].arg \in BOOLEAN
          /\ pc[c] = "inited" => op[c].call = "setup"
          /\ pc[c] \in {"join", "joining"} => op[c].call = "join"
          /\ pc[c] \in {"tx", "sending"} => op[c].call = "tx"

\* The calls that may still count msgid up, and how often it was counted up, are
\* among the calls that were made.
Starting == {c \in Clients : pc[c] \in {"lock", "tx"}}
CallsCount ==
    /\ IsFiniteSet(Starting)
    /\ calls \in 0 .. MaxCalls /\ msgid \in Nat
    /\ msgid + Cardinality(Starting) <= calls

Places == {"idle", "lock", "inited", "join", "joining", "tx", "sending", "halted"}

\* Where the clients are; the second part of TypeOK is about them.
Calling ==
    /\ owner \in Clients \cup {None}
    /\ pc \in [Clients -> Places]
    /\ \A c \in Clients : pc[c] \notin {"idle", "lock"} => owner = c
    /\ CallsAreKind
    /\ CallsCount

\* What the driver and the MAC keep.
Keeping ==
    /\ setup \in BOOLEAN /\ joined \in BOOLEAN /\ session \in BOOLEAN
    /\ band \in Bands \cup {None} /\ keys \subseteq OtaaKeys \cup AbpKeys
    /\ bits \subseteq Bits
    /\ mac \in Macs

LEMMA TypesOK == Calling /\ Keeping => TypeOK
<1> SUFFICES ASSUME Calling, Keeping PROVE TypeOK
  OBVIOUS
<1>1. msgid \in 0 .. MaxCalls
  BY LoraAssumption, FS_CardinalityType DEF Calling, CallsCount
<1>2. /\ mac.opmode \subseteq Modes
      /\ mac.osjob \in {"none", "init", "start", "failed", "engine", "done"}
      /\ mac.task \in {"jobs", "engine", "halted"}
      /\ mac.txCnt \in 0 .. TxAttempts
  BY DEF Keeping, Macs
<1> QED BY <1>1, <1>2 DEF Calling, Keeping, TypeOK, Places

(***************************************************************************)
(* The MAC                                                                 *)
(***************************************************************************)
LEMMA ResetIsMac == Reset \in Macs
  BY LoraAssumption DEF Macs, Frames, Modes, Reset, NoFrame

LEMMA StartJoiningIsMac ==
    ASSUME NEW m \in Macs
    PROVE  /\ StartJoining(m) \in Macs
           /\ StartJoining(m).devaddr = m.devaddr /\ StartJoining(m).task = m.task
           /\ StartJoining(m).dead = m.dead
           /\ StartJoining(m).osjob \in {m.osjob, "start"}
<1> DEFINE modes == (m.opmode \ {"REJOIN"}) \cup {"JOINING"}
           n == [m EXCEPT !.opmode = modes, !.tries = 0, !.txCnt = 0, !.osjob = "start"]
<1>1. 0 \in 0 .. TxAttempts /\ 0 \in Int
  BY LoraAssumption
<1>2. modes \in SUBSET Modes
  BY DEF Macs, Modes
<1> HIDE DEF modes
<1>3. n \in Macs /\ n.devaddr = m.devaddr /\ n.task = m.task /\ n.dead = m.dead /\ n.osjob = "start"
  <2>1. n \in Macs
    BY <1>1, <1>2 DEF Macs
  <2>2. n.devaddr = m.devaddr /\ n.task = m.task
    BY DEF Macs
  <2>3. n.dead = m.dead
    BY DEF Macs
  <2>4. n.osjob = "start"
    BY DEF Macs
  <2> QED BY <2>1, <2>2, <2>3, <2>4
<1> USE DEF modes
<1>4. StartJoining(m) = IF m.devaddr THEN m ELSE n
  BY DEF StartJoining
<1> HIDE DEF n
<1> QED BY <1>3, <1>4

LEMMA TransmitIsMac ==
    ASSUME NEW m \in Macs
    PROVE  /\ Transmit(m) \in Macs
           /\ Transmit(m).devaddr = m.devaddr /\ Transmit(m).task = m.task
           /\ Transmit(m).dead = m.dead /\ Transmit(m).osjob = "done"
<1> DEFINE kind == CASE m.opmode \cap {"JOINING", "REJOIN"} # {} -> "join"
                     [] "TXDATA" \in m.opmode /\ ~m.full -> "data"
                     [] OTHER -> "poll"
           first == m.txCnt = 0
           count == IF first THEN m.seqnoUp ELSE m.seqnoUp - 1
           onAir == [m EXCEPT !.opmode = (@ \ {"POLL"}) \cup {"TXRXPEND"}, !.osjob = "done"]
           frame == [kind |-> kind, msg |-> IF kind = "data" THEN m.msg ELSE 0,
                     count |-> count, again |-> kind = "data" /\ ~first,
                     conf |-> kind = "data" /\ m.conf]
           frame0 == [NoFrame EXCEPT !.kind = "join"]
<1>1. kind \in {"join", "data", "poll"} /\ count \in Int /\ 1 \in 0 .. TxAttempts
  BY LoraAssumption DEF Macs
<1>2. frame \in Frames /\ frame0 \in Frames
  <2>1. (kind = "data" /\ ~first) \in BOOLEAN /\ (kind = "data" /\ m.conf) \in BOOLEAN
    OBVIOUS
  <2>2. (IF kind = "data" THEN m.msg ELSE 0) \in Int
    BY DEF Macs
  <2>5. NoFrame \in Frames
    BY DEF Frames, NoFrame
  <2>3. frame0 \in Frames
    BY <2>5 DEF Frames
  <2> HIDE DEF kind, first, count
  <2>4. frame \in Frames
    BY <1>1, <2>1, <2>2 DEF Frames
  <2> QED BY <2>3, <2>4
<1>3. onAir \in Macs /\ onAir.devaddr = m.devaddr /\ onAir.task = m.task /\ onAir.dead = m.dead
      /\ onAir.osjob = "done"
  BY DEF Macs, Modes
<1>4. CASE kind = "join"
  <2>1. Transmit(m) = [onAir EXCEPT !.frame = frame0]
    BY <1>4 DEF Transmit
  <2> HIDE DEF onAir, frame0
  <2> QED BY <2>1, <1>2, <1>3 DEF Macs
<1>5. CASE kind # "join"
  <2> DEFINE tx == IF kind = "data" /\ m.conf /\ first THEN 1 ELSE m.txCnt
  <2>1. Transmit(m) = [onAir EXCEPT !.seqnoUp = count + 1, !.txCnt = tx, !.frame = frame]
    BY <1>5 DEF Transmit, Macs
  <2>2. tx \in 0 .. TxAttempts
    BY <1>1 DEF Macs
  <2> HIDE DEF kind, first, onAir, frame, count, tx
  <2>3. count + 1 \in Int
    BY <1>1
  <2>4. [onAir EXCEPT !.seqnoUp = count + 1, !.txCnt = tx, !.frame = frame] \in Macs
    BY <2>2, <2>3, <1>2, <1>3 DEF Macs
  <2> QED BY <2>1, <2>4, <1>3 DEF Macs
<1> QED BY <1>4, <1>5

LEMMA EngineIsMac ==
    ASSUME NEW m \in Macs, NEW late \in BOOLEAN
    PROVE  /\ Engine(m, late) \in Macs
           /\ Engine(m, late).devaddr = m.devaddr /\ Engine(m, late).task = m.task
           /\ Engine(m, late).dead = m.dead
           /\ Engine(m, late).osjob \in {m.osjob, "start", "engine", "done"}
<1> DEFINE n == [m EXCEPT !.osjob = "engine"]
<1>1. n \in Macs /\ n.devaddr = m.devaddr /\ n.task = m.task /\ n.dead = m.dead /\ n.osjob = "engine"
  BY DEF Macs
<1>2. Engine(m, late) \in {m, StartJoining(m), n, Transmit(m)}
  BY DEF Engine
<1> HIDE DEF n
<1> QED BY <1>1, <1>2, StartJoiningIsMac, TransmitIsMac

(***************************************************************************)
(* The clients                                                             *)
(***************************************************************************)
\* Who goes on in a call, or begins one, has lora_mtx or finds it free.
LEMMA Alone ==
    ASSUME Calling, NEW c \in Clients,
           pc[c] \notin {"idle", "lock"} \/ owner = None
    PROVE  \A d \in Clients : d # c => pc[d] \in {"idle", "lock"}
  BY LoraAssumption DEF Calling, Places

\* A client that leaves Starting makes room for one more message number.
LEMMA Counted ==
    ASSUME Calling, NEW c \in Clients, NEW where \in Places \ {"lock"},
           pc' = [pc EXCEPT ![c] = where],
           where = "tx" => pc[c] = "lock",
           calls' = calls,
           \/ msgid' \in {0, msgid}
           \/ msgid' = msgid + 1 /\ pc[c] = "tx" /\ where # "tx"
    PROVE  CallsCount'
<1> USE DEF Calling, CallsCount
<1>1. Starting' \in SUBSET Starting
  BY DEF Starting
<1>2. IsFiniteSet(Starting') /\ Cardinality(Starting') <= Cardinality(Starting)
  BY <1>1, FS_Subset
<1>3. Cardinality(Starting) \in Nat /\ Cardinality(Starting') \in Nat
  BY <1>2, FS_CardinalityType
<1>4. CASE msgid' \in {0, msgid}
  <2>1. msgid' \in Nat /\ msgid' <= msgid
    BY <1>4
  <2>2. msgid' + Cardinality(Starting') <= calls
    BY <2>1, <1>2, <1>3, LoraAssumption
  <2> QED BY <1>2, <2>1, <2>2
<1>5. CASE msgid' = msgid + 1 /\ pc[c] = "tx" /\ where # "tx"
  <2>1. c \in Starting /\ Starting' = Starting \ {c}
    BY <1>5 DEF Starting
  <2>2. Cardinality(Starting') = Cardinality(Starting) - 1
    BY <2>1, FS_RemoveElement
  <2>3. msgid' \in Nat /\ msgid' + Cardinality(Starting') <= calls
    BY <2>2, <1>3, <1>5, LoraAssumption
  <2> QED BY <1>2, <2>3
<1> QED BY <1>4, <1>5

\* A call of c has come to its end, with or without an error that was heard.
Concludes(c, ok, unheard) == op' = [op EXCEPT ![c].ok = ok, ![c].unheard = unheard]

\* What is returned is no error only where there is none, or where it is not heard.
LEMMA ReturnsAnswer ==
    ASSUME NEW c, NEW good, Returns(c, good)
    PROVE  /\ owner' = None /\ pc' = [pc EXCEPT ![c] = "idle"]
           /\ \E ok, unheard \in BOOLEAN : Concludes(c, ok, unheard) /\ (ok => unheard \/ good)
<1>1. PICK unheard \in {FALSE} \cup {MemoryShort /\ ~good} : Answers(c, good \/ unheard, unheard)
  BY DEF Returns
<1>2. unheard \in BOOLEAN /\ (good \/ unheard) \in BOOLEAN
  OBVIOUS
<1>3. Concludes(c, good \/ unheard, unheard) /\ (good \/ unheard => unheard \/ good)
  BY <1>1 DEF Answers, Concludes
<1> QED BY <1>1, <1>2, <1>3 DEF Answers, Go

LEMMA Move ==
    ASSUME Calling, NEW c \in Clients, NEW where \in Places \ {"lock"},
           pc[c] \notin {"idle", "lock"} \/ owner = None,
           pc' = [pc EXCEPT ![c] = where],
           owner' = c \/ (owner' = None /\ where = "idle"),
           op' = op \/ \E ok, unheard \in BOOLEAN : Concludes(c, ok, unheard),
           where = "inited" => op[c].call = "setup",
           where \in {"join", "joining"} => op[c].call = "join",
           where \in {"tx", "sending"} => op[c].call = "tx",
           CallsCount'
    PROVE  Calling'
<1>1. \A d \in Clients : d # c => pc'[d] = pc[d] /\ pc[d] \in {"idle", "lock"}
  BY Alone DEF Calling
<1>2. pc'[c] = where /\ pc' \in [Clients -> Places]
  BY DEF Calling
<1>3. op' \in [Clients -> CallTypes]
  <2>1. op \in [Clients -> CallTypes]
    BY DEF Calling, CallsAreKind
  <2>2. ASSUME NEW ok \in BOOLEAN, NEW unheard \in BOOLEAN, Concludes(c, ok, unheard)
        PROVE  op' \in [Clients -> CallTypes]
    <3> DEFINE f == [op EXCEPT ![c].ok = ok]
    <3>1. f \in [Clients -> CallTypes]
      BY <2>1 DEF CallTypes
    <3>2. op' = [f EXCEPT ![c].unheard = unheard]
      BY <2>2, Zenon DEF Concludes
    <3> HIDE DEF f
    <3> QED BY <3>1, <3>2 DEF CallTypes
  <2> QED BY <2>1, <2>2
<1>4. \A d \in Clients : op'[d].call = op[d].call /\ op'[d].arg = op[d].arg
  <2>1. op \in [Clients -> CallTypes]
    BY DEF Calling, CallsAreKind
  <2>2. ASSUME NEW ok \in BOOLEAN, NEW unheard \in BOOLEAN, Concludes(c, ok, unheard),
               NEW d \in Clients
        PROVE  op'[d].call = op[d].call /\ op'[d].arg = op[d].arg
    BY <2>1, <2>2 DEF CallTypes, Concludes
  <2> QED BY <2>2
<1>5. CallsAreKind'
  BY <1>1, <1>2, <1>3, <1>4 DEF Calling, CallsAreKind
<1> QED BY <1>1, <1>2, <1>5 DEF Calling

LEMMA ClientCalling ==
    ASSUME Calling, Keeping, NEW c \in Clients, Client(c)
    PROVE  Calling'
<1> USE DEF Locks, Go, driverVars, boundVars
<1>0. /\ op[c].call = "setup" => op[c].call \notin {"join", "tx"}
      /\ pc[c] = "inited" => op[c].call = "setup"
      /\ pc[c] \in {"join", "joining"} => op[c].call = "join"
      /\ pc[c] \in {"tx", "sending"} => op[c].call = "tx"
      /\ pc[c] \notin {"idle", "lock"} => owner = c
      /\ setup \in BOOLEAN
  BY DEF Calling, CallsAreKind, Keeping
<1> DEFINE To(where) ==
      /\ pc[c] \notin {"idle", "lock"} \/ owner = None
      /\ pc' = [pc EXCEPT ![c] = where]
      /\ owner' = c \/ (owner' = None /\ where = "idle")
      /\ op' = op \/ \E ok, unheard \in BOOLEAN : Concludes(c, ok, unheard)
      /\ calls' = calls
<1>1. CASE SetupOtherBand(c) \/ SetupAgain(c) \/ SetupFails(c) \/ SetupEnd(c) \/ MacSet(c)
           \/ JoinReturns(c) \/ JoinEnd(c) \/ TxReturns(c) \/ TxEnd(c)
  <2>1. To("idle") /\ msgid' = msgid
    <3>1. CASE SetupOtherBand(c)
      BY <1>0, <3>1 DEF SetupOtherBand
    <3>2. CASE SetupFails(c)
      BY <1>0, <3>2 DEF SetupFails, Answers, Concludes
    <3>3. CASE \E good : Returns(c, good)
      <4>1. /\ owner' = None /\ pc' = [pc EXCEPT ![c] = "idle"]
            /\ \E ok, unheard \in BOOLEAN : Concludes(c, ok, unheard)
        BY <3>3, ReturnsAnswer
      <4>2. CASE SetupAgain(c) \/ SetupEnd(c) \/ MacSet(c) \/ JoinReturns(c)
        BY <1>0, <4>1, <4>2 DEF SetupAgain, SetupEnd, MacSet, JoinReturns
      <4>3. CASE JoinEnd(c) \/ TxReturns(c) \/ TxEnd(c)
        BY <1>0, <4>1, <4>3 DEF JoinEnd, TxReturns, TxEnd
      <4>4. CASE SetupOtherBand(c) \/ SetupFails(c)
        BY <3>1, <3>2, <4>4
      <4> QED BY <1>1, <4>2, <4>3, <4>4
    <3> QED BY <1>1, <3>1, <3>2, <3>3 DEF SetupAgain, SetupEnd,
               MacSet, JoinReturns, JoinEnd, TxReturns, TxEnd
  <2>2. CallsCount'
    BY <2>1, Counted DEF Places
  <2> QED BY <2>1, <2>2, Move DEF Places
<1>2. CASE SetupStart(c) \/ SetupUnheard(c)
  <2>1. To("inited") /\ msgid' = msgid /\ op[c].call = "setup"
    BY <1>0, <1>2 DEF SetupStart, SetupUnheard
  <2>2. CallsCount'
    BY <2>1, Counted DEF Places
  <2> QED BY <2>1, <2>2, Move DEF Places
<1>3. CASE JoinCheck(c)
  <2>1. To("join") /\ msgid' = msgid /\ op[c].call = "join"
    BY <1>0, <1>3 DEF JoinCheck
  <2>2. CallsCount'
    BY <2>1, Counted DEF Places
  <2> QED BY <2>1, <2>2, Move DEF Places
<1>4. CASE JoinStart(c)
  <2>1. (To("joining") \/ To("halted")) /\ msgid' = 0 /\ op[c].call = "join"
    BY <1>0, <1>4 DEF JoinStart
  <2>2. CallsCount'
    BY <2>1, Counted DEF Places
  <2> QED BY <2>1, <2>2, Move DEF Places
<1>5. CASE TxCheck(c)
  <2>1. (To("tx") \/ To("idle")) /\ msgid' = msgid /\ op[c].call = "tx" /\ pc[c] = "lock"
    <3>1. CASE Returns(c, FALSE)
      BY <1>0, <1>5, <3>1, ReturnsAnswer DEF TxCheck
    <3>2. CASE owner' = c /\ Go(c, "tx") /\ UNCHANGED op
      BY <1>0, <1>5, <3>2 DEF TxCheck
    <3> QED BY <1>5, <3>1, <3>2 DEF TxCheck
  <2>2. CallsCount'
    BY <2>1, Counted DEF Places
  <2> QED BY <2>1, <2>2, Move DEF Places
<1>6. CASE TxStart(c)
  <2>1. To("sending") /\ msgid' = msgid + 1 /\ op[c].call = "tx" /\ pc[c] = "tx"
    BY <1>0, <1>6 DEF TxStart
  <2>2. CallsCount'
    BY <2>1, Counted DEF Places
  <2> QED BY <2>1, <2>2, Move DEF Places
<1> QED BY <1>1, <1>2, <1>3, <1>4, <1>5, <1>6 DEF Client

LEMMA BeginCalling ==
    ASSUME Calling, NEW c \in Clients, Begin(c)
    PROVE  Calling'
<1>1. PICK call \in [call : {"setup"}, arg : Bands, len : {"short"}]
              \cup [call : {"set"}, arg : Keys, len : {"short"}]
              \cup [call : {"join"}, arg : {None}, len : {"short"}]
              \cup [call : {"tx"}, arg : BOOLEAN, len : Lengths] :
        op' = [op EXCEPT ![c] = [call |-> call.call, arg |-> call.arg, len |-> call.len,
                                 msg |-> calls + 1, ok |-> FALSE, unheard |-> FALSE]]
  BY DEF Begin
<1>2. /\ pc[c] = "idle" /\ pc' = [pc EXCEPT ![c] = "lock"] /\ owner' = owner /\ msgid' = msgid
      /\ calls < MaxCalls /\ calls' = calls + 1 /\ calls \in Nat
  BY DEF Begin, Go, driverVars, Calling, CallsCount
<1>3. [call |-> call.call, arg |-> call.arg, len |-> call.len,
       msg |-> calls + 1, ok |-> FALSE, unheard |-> FALSE] \in CallTypes
  <2>1. calls + 1 \in Int
    BY <1>2
  <2>2. /\ call.call \in {"setup", "set", "join", "tx"}
        /\ call.arg \in Bands \cup Keys \cup {None} \cup BOOLEAN
        /\ call.len \in {"short", "full", "long"}
    BY LoraAssumption
  <2> QED BY <2>1, <2>2 DEF CallTypes
<1>4. CallsAreKind'
  <2>1. op' \in [Clients -> CallTypes]
    BY <1>1, <1>3 DEF Calling, CallsAreKind
  <2>2. op'[c].call = call.call /\ op'[c].arg = call.arg /\ pc'[c] = "lock"
    BY <1>1, <1>2 DEF Calling, CallsAreKind
  <2>3. \A d \in Clients : d # c => op'[d] = op[d] /\ pc'[d] = pc[d]
    BY <1>1, <1>2 DEF Calling, CallsAreKind
  <2>4. /\ call.call = "setup" => call.arg \in Bands
        /\ call.call = "set" => call.arg \in Keys
        /\ call.call = "tx" => call.arg \in BOOLEAN
    OBVIOUS
  <2> QED BY <2>1, <2>2, <2>3, <2>4 DEF Calling, CallsAreKind
<1>5. CallsCount'
  <2>1. Starting' = Starting \cup {c} /\ c \notin Starting
    BY <1>2 DEF Starting, Calling
  <2>2. IsFiniteSet(Starting') /\ Cardinality(Starting') = Cardinality(Starting) + 1
    BY <2>1, FS_AddElement DEF Calling, CallsCount
  <2>3. Cardinality(Starting) \in Nat
    BY FS_CardinalityType DEF Calling, CallsCount
  <2>4. msgid' + Cardinality(Starting') <= calls'
    BY <1>2, <2>2, <2>3 DEF Calling, CallsCount
  <2>5. calls' \in 0 .. MaxCalls
    BY <1>2, LoraAssumption
  <2> QED BY <1>2, <2>2, <2>4, <2>5 DEF Calling, CallsCount
<1> QED BY <1>2, <1>4, <1>5 DEF Calling, Places

LEMMA SleepCalling ==
    ASSUME Calling, NEW c \in Clients, DeepSleep(c)
    PROVE  Calling'
<1>1. /\ owner' = None /\ pc' = [d \in Clients |-> "idle"] /\ op' = [d \in Clients |-> NoCall]
      /\ msgid' = msgid /\ calls' = calls
  BY DEF DeepSleep
<1>2. NoCall \in CallTypes /\ NoCall.call = "none"
  BY DEF NoCall, CallTypes
<1>3. CallsAreKind'
  BY <1>1, <1>2 DEF CallsAreKind
<1>4. Starting' = {}
  BY <1>1 DEF Starting
<1>5. CallsCount'
  BY <1>1, <1>4, FS_EmptySet, FS_CardinalityType DEF Calling, CallsCount
<1> QED BY <1>1, <1>3, <1>5 DEF Calling, Places

(***************************************************************************)
(* What every step does to LMIC                                            *)
(***************************************************************************)
LEMMA FieldsAreMac ==
    ASSUME NEW m \in Macs
    PROVE  /\ m.opmode \in SUBSET Modes /\ m.txCnt \in 0 .. TxAttempts /\ m.txCnt \in Int
           /\ m.full \in BOOLEAN /\ m.seqnoUp \in Int /\ m.frame \in Frames /\ m.tries \in Int
           /\ 0 \in Int /\ 0 \in 0 .. TxAttempts
  BY LoraAssumption DEF Macs

\* A client's call ends no session, and leaves a LMIC that is not set up alone but
\* for starting it.
LEMMA ClientMac ==
    ASSUME Calling, Keeping, NEW c \in Clients, Client(c)
    PROVE  /\ mac' \in Macs
           /\ mac.devaddr => mac'.devaddr
           /\ mac' = mac \/ setup \/ SetupStart(c) \/ JoinStart(c) \/ TxStart(c)
           /\ mac'.osjob = "init" => mac.osjob = "init" \/ SetupStart(c)
<1> USE DEF Keeping
<1>1. CASE SetupStart(c)
  BY <1>1 DEF SetupStart, Macs
<1>2. CASE MacSet(c)
  <2>1. (op[c].arg = "LINKCHK_ON") \in BOOLEAN
    OBVIOUS
  <2>2. CASE mac' = [mac EXCEPT !.linkchk = op[c].arg = "LINKCHK_ON"] /\ setup
    BY <2>1, <2>2 DEF Macs
  <2>3. CASE mac' = mac
    BY <2>3
  <2> QED BY <1>2, <2>2, <2>3 DEF MacSet
<1>3. CASE JoinStart(c)
  BY <1>3, StartJoiningIsMac DEF JoinStart
<1>4. CASE TxCheck(c)
  <2>1. mac.opmode \ {"JOINING", "REJOIN", "TXRXPEND"} \in SUBSET Modes /\ 0 \in Int
    BY DEF Macs
  <2>2. SetSession(mac) \in Macs /\ SetSession(mac).devaddr /\ SetSession(mac).osjob = mac.osjob
    BY <2>1 DEF SetSession, JustJoined, Macs
  <2> QED BY <1>4, <2>2 DEF TxCheck
<1>5. CASE TxStart(c)
  <2> DEFINE m == [mac EXCEPT !.seqnoUp = msgid + 1]
             full == op[c].len = "full"
             n == [m EXCEPT !.msg = op[c].msg, !.full = full, !.conf = op[c].arg,
                            !.opmode = @ \cup {"TXDATA"},
                            !.txCnt = IF "JOINING" \in m.opmode THEN @ ELSE 0]
  <2>1. msgid + 1 \in Int /\ op[c].msg \in Int /\ op[c].arg \in BOOLEAN /\ full \in BOOLEAN
    BY <1>5 DEF TxStart, Calling, CallsAreKind, CallsCount, CallTypes
  <2>2. m \in Macs /\ m.devaddr = mac.devaddr /\ m.osjob = mac.osjob
    BY <2>1 DEF Macs
  <2> HIDE DEF m, full
  <2>3. m.opmode \cup {"TXDATA"} \in SUBSET Modes
        /\ (IF "JOINING" \in m.opmode THEN m.txCnt ELSE 0) \in 0 .. TxAttempts
    BY <2>2, FieldsAreMac DEF Modes
  <2>4. n \in Macs /\ n.devaddr = mac.devaddr /\ n.osjob = mac.osjob
    BY <2>1, <2>2, <2>3 DEF Macs
  <2>5. PICK late \in BOOLEAN : mac' = IF op[c].len = "long" THEN m ELSE Engine(n, late)
    BY <1>5 DEF TxStart, SetTxData, m, full
  <2> HIDE DEF n
  <2> QED BY <1>5, <2>2, <2>4, <2>5, EngineIsMac
<1>6. CASE UNCHANGED mac
  BY <1>6
<1> QED BY <1>1, <1>2, <1>3, <1>4, <1>5, <1>6 DEF Client, SetupOtherBand, SetupAgain,
        SetupFails, SetupUnheard, SetupEnd, JoinReturns, JoinCheck, JoinEnd, TxReturns, TxEnd

LEMMA RanMac ==
    ASSUME NEW m \in Macs, NEW report \in BOOLEAN, Ran(m, report)
    PROVE  /\ mac' \in Macs
           /\ mac'.devaddr = m.devaddr /\ mac'.opmode = m.opmode
           /\ mac'.osjob \in {m.osjob, "none"}
           /\ mac'.task = (IF report THEN "engine" ELSE "jobs")
<1> DEFINE job == IF m.osjob = mac.osjob THEN "none" ELSE m.osjob
           task == IF report THEN "engine" ELSE "jobs"
<1>1. job \in {m.osjob, "none"}
      /\ job \in {"none", "init", "start", "failed", "engine", "done"}
  BY DEF Macs
<1>2. mac' = [m EXCEPT !.osjob = job, !.task = task]
  BY DEF Ran
<1> HIDE DEF job
<1> QED BY <1>1, <1>2 DEF Macs

\* The end of a frame leaves the session as it is.
LEMMA CompleteMac ==
    ASSUME NEW m \in Macs, NEW ack \in BOOLEAN, Complete(m, ack)
    PROVE  /\ mac' \in Macs /\ mac'.devaddr = m.devaddr
           /\ mac'.osjob \in {m.osjob, "none"}
<1> DEFINE n == [m EXCEPT !.opmode = @ \ {"TXDATA", "TXRXPEND"}]
<1>1. m.opmode \ {"TXDATA", "TXRXPEND"} \in SUBSET Modes
  BY FieldsAreMac
<1>2. n \in Macs /\ n.devaddr = m.devaddr /\ n.osjob = m.osjob
  BY <1>1 DEF Macs
<1>3. Ran(n, TRUE)
  BY DEF Complete
<1> HIDE DEF n
<1> QED BY <1>2, <1>3, RanMac

\* An answer to a join request begins a session.
LEMMA JoinAcceptedMac ==
    ASSUME Keeping, JoinAccepted
    PROVE  mac' \in Macs /\ mac'.devaddr /\ mac'.osjob \in {"done", "none"}
<1> USE DEF Keeping, Job, Answered
<1> DEFINE n == [mac EXCEPT !.devaddr = TRUE, !.txCnt = 0,
                            !.opmode = @ \ {"JOINING", "REJOIN", "TXRXPEND"}]
<1>1. mac.opmode \ {"JOINING", "REJOIN", "TXRXPEND"} \in SUBSET Modes
  BY FieldsAreMac
<1>2. n \in Macs /\ n.devaddr /\ n.osjob = mac.osjob
  BY <1>1, FieldsAreMac DEF Macs
<1>3. Ran(JustJoined(n), TRUE)
  BY DEF JoinAccepted
<1> HIDE DEF n
<1>4. JustJoined(n) \in Macs /\ JustJoined(n).devaddr /\ JustJoined(n).osjob = mac.osjob
  BY <1>2, FieldsAreMac DEF JustJoined, Macs
<1>5. mac.osjob = "done"
  BY DEF JoinAccepted
<1> QED BY <1>3, <1>4, <1>5, RanMac

\* A job of the MAC ends no session but when it starts LMIC again.
LEMMA TaskMac ==
    ASSUME Keeping, Task
    PROVE  /\ mac' \in Macs
           /\ InitJob \/ (mac.devaddr => mac'.devaddr)
           /\ mac'.osjob # "init" \/ mac.osjob = "init"
<1> USE DEF Keeping, Job, Answered
<1>1. CASE InitJob
  <2>1. Reset.osjob = "none"
    BY DEF Reset
  <2>2. mac' \in Macs /\ mac'.osjob = "none" /\ mac.osjob = "init"
    BY <1>1, <2>1, RanMac, ResetIsMac DEF InitJob
  <2> QED BY <1>1, <2>2
<1>2. CASE ReportJoining \/ ReportJoinFailed
  <2>1. mac.osjob \in {"start", "failed"}
    BY <1>2 DEF ReportJoining, ReportJoinFailed
  <2> QED BY <1>2, <2>1, RanMac DEF ReportJoining, ReportJoinFailed
<1>3. CASE RunEngine
  <2> DEFINE m == [mac EXCEPT !.osjob = "none"]
  <2>1. m \in Macs /\ m.devaddr = mac.devaddr /\ m.osjob = "none"
    BY DEF Macs
  <2>2. mac' = Engine(m, FALSE) /\ mac.osjob = "engine"
    BY <1>3 DEF RunEngine
  <2> HIDE DEF m
  <2> QED BY <2>1, <2>2, EngineIsMac
<1>4. CASE Report
  <2>1. PICK late \in BOOLEAN :
           mac' = IF Engine(mac, late).dead
                  THEN [Engine(mac, late) EXCEPT !.dead = FALSE, !.opmode = @ \cup {"REJOIN"}]
                  ELSE [Engine(mac, late) EXCEPT !.task = "jobs"]
    BY <1>4 DEF Report
  <2> DEFINE m == Engine(mac, late)
  <2>2. m \in Macs /\ m.devaddr = mac.devaddr /\ m.osjob \in {mac.osjob, "start", "engine", "done"}
    BY EngineIsMac
  <2> HIDE DEF m
  <2>3. m.opmode \cup {"REJOIN"} \in SUBSET Modes
    BY <2>2, FieldsAreMac DEF Modes
  <2>4. /\ mac' = [m EXCEPT !.dead = FALSE, !.opmode = m.opmode \cup {"REJOIN"}]
           \/ mac' = [m EXCEPT !.task = "jobs"]
    <3>1. mac' = IF m.dead THEN [m EXCEPT !.dead = FALSE, !.opmode = @ \cup {"REJOIN"}]
                 ELSE [m EXCEPT !.task = "jobs"]
      BY <2>1 DEF m
    <3>2. [m EXCEPT !.dead = FALSE, !.opmode = @ \cup {"REJOIN"}]
           = [m EXCEPT !.dead = FALSE, !.opmode = m.opmode \cup {"REJOIN"}]
      BY <2>2 DEF Macs
    <3> QED BY <3>1, <3>2
  <2>5. mac' \in Macs /\ mac'.devaddr = mac.devaddr /\ mac'.osjob = m.osjob
    <3>1. CASE mac' = [m EXCEPT !.dead = FALSE, !.opmode = m.opmode \cup {"REJOIN"}]
      BY <2>2, <2>3, <3>1 DEF Macs
    <3>2. CASE mac' = [m EXCEPT !.task = "jobs"]
      BY <2>2, <3>2 DEF Macs
    <3> QED BY <2>4, <3>1, <3>2
  <2> QED BY <2>2, <2>5
<1>5. CASE AnswerHalts
  BY <1>5 DEF AnswerHalts, Macs
<1>6. CASE JoinAccepted
  BY <1>6, JoinAcceptedMac DEF JoinAccepted
<1>7. CASE RejoinLost
  <2> DEFINE n == [mac EXCEPT !.opmode = @ \ {"REJOIN", "TXRXPEND"}]
  <2>1. mac.opmode \ {"REJOIN", "TXRXPEND"} \in SUBSET Modes
    BY FieldsAreMac
  <2>2. n \in Macs /\ n.devaddr = mac.devaddr /\ n.osjob = mac.osjob
    BY <2>1 DEF Macs
  <2>3. Ran(n, TRUE) /\ mac.osjob = "done"
    BY <1>7 DEF RejoinLost
  <2> HIDE DEF n
  <2>5. mac' \in Macs /\ mac'.devaddr = mac.devaddr /\ mac'.osjob \in {"done", "none"}
    BY <2>2, <2>3, RanMac
  <2> QED BY <2>3, <2>5
<1>8. CASE JoinLost
  <2> DEFINE last == mac.tries + 1 = JoinTries
             tries == IF last THEN 0 ELSE mac.tries + 1
             job == IF last THEN "failed" ELSE "engine"
             modes == mac.opmode \ {"TXRXPEND"}
  <2>1. tries \in Int /\ job \in {"failed", "engine"} /\ modes \in SUBSET Modes
    BY FieldsAreMac
  <2>2. mac' = [mac EXCEPT !.tries = tries, !.osjob = job, !.opmode = modes] /\ UNCHANGED bits
    BY <1>8 DEF JoinLost, Macs
  <2> HIDE DEF last, tries, job, modes
  <2> QED BY <2>1, <2>2 DEF Macs
<1>9. CASE Retransmit
  <2> DEFINE modes == mac.opmode \ {"TXRXPEND"}
             n == [mac EXCEPT !.txCnt = mac.txCnt + 1, !.osjob = "none", !.opmode = modes]
  <2>1. mac.txCnt + 1 \in 0 .. TxAttempts /\ modes \in SUBSET Modes
    BY <1>9, FieldsAreMac, LoraAssumption DEF Retransmit
  <2>2. PICK late \in BOOLEAN : mac' = Engine(n, late)
    BY <1>9 DEF Retransmit, Macs
  <2> HIDE DEF modes
  <2>3. n \in Macs /\ n.devaddr = mac.devaddr /\ n.osjob = "none"
    BY <2>1 DEF Macs
  <2> HIDE DEF n
  <2> QED BY <2>2, <2>3, EngineIsMac
<1>10. CASE NothingReceived
  <2>1. PICK dead \in BOOLEAN : Complete([mac EXCEPT !.dead = dead], FALSE)
    BY <1>10 DEF NothingReceived, Macs
  <2> DEFINE n == [mac EXCEPT !.dead = dead]
  <2>2. n \in Macs /\ n.devaddr = mac.devaddr /\ n.osjob = mac.osjob
    BY DEF Macs
  <2>3. mac.osjob = "done"
    BY <1>10 DEF NothingReceived
  <2> HIDE DEF n
  <2> QED BY <2>1, <2>2, <2>3, CompleteMac DEF n
<1>11. CASE FrameReceived
  <2>1. PICK ack \in BOOLEAN, more \in BOOLEAN :
           Complete([mac EXCEPT !.opmode = IF more THEN @ \cup {"POLL"} ELSE @], ack)
    BY <1>11 DEF FrameReceived, Macs, Frames
  <2> DEFINE modes == IF more THEN mac.opmode \cup {"POLL"} ELSE mac.opmode
             n == [mac EXCEPT !.opmode = modes]
  <2>2. modes \in SUBSET Modes
    BY FieldsAreMac DEF Modes
  <2>3. Complete(n, ack)
    BY <2>1 DEF Macs
  <2> HIDE DEF modes
  <2>4. n \in Macs /\ n.devaddr = mac.devaddr /\ n.osjob = mac.osjob
    BY <2>2 DEF Macs
  <2>5. mac.osjob = "done"
    BY <1>11 DEF FrameReceived
  <2> HIDE DEF n
  <2> QED BY <2>3, <2>4, <2>5, CompleteMac
<1> QED BY <1>1, <1>2, <1>3, <1>4, <1>5, <1>6, <1>7, <1>8, <1>9, <1>10, <1>11 DEF Task

(***************************************************************************)
(* What the driver and the MAC keep                                        *)
(***************************************************************************)
LEMMA KeepingStep ==
    ASSUME Calling, Keeping, [Next]_vars
    PROVE  Keeping'
<1> USE DEF driverVars
<1>1. ASSUME NEW c \in Clients, Begin(c) PROVE Keeping'
  BY <1>1 DEF Begin, Keeping
<1>2. ASSUME NEW c \in Clients, Client(c) PROVE Keeping'
  <2>1. mac' \in Macs
    BY <1>2, ClientMac
  <2>2. setup' \in BOOLEAN /\ session' \in BOOLEAN /\ joined' \in BOOLEAN
    BY <1>2 DEF Keeping, Client, SetupOtherBand, SetupAgain, SetupFails, SetupUnheard, SetupStart, SetupEnd,
       MacSet, JoinReturns, JoinCheck, JoinStart, JoinEnd, TxReturns, TxCheck, TxStart, TxEnd
  <2>3. bits' \subseteq Bits
    BY <1>2 DEF Keeping, Client, SetupOtherBand, SetupAgain, SetupFails, SetupUnheard, SetupStart, SetupEnd,
       MacSet, JoinReturns, JoinCheck, JoinStart, JoinEnd, TxReturns, TxCheck, TxStart, TxEnd
  <2>4. band' \in Bands \cup {None}
    BY <1>2 DEF Keeping, Calling, CallsAreKind, Locks, Client, SetupOtherBand, SetupAgain,
       SetupFails, SetupUnheard, SetupStart, SetupEnd,
       MacSet, JoinReturns, JoinCheck, JoinStart, JoinEnd, TxReturns, TxCheck, TxStart, TxEnd
  <2>5. keys' \subseteq OtaaKeys \cup AbpKeys
    <3>1. op[c].call = "set" => op[c].arg \in OtaaKeys \cup AbpKeys \cup LinkKeys
      BY LoraAssumption DEF Calling, CallsAreKind
    <3> QED BY <1>2, <3>1 DEF Keeping, Locks, Client, SetupOtherBand, SetupAgain,
       SetupFails, SetupUnheard, SetupStart, SetupEnd,
       MacSet, JoinReturns, JoinCheck, JoinStart, JoinEnd, TxReturns, TxCheck, TxStart, TxEnd
  <2> QED BY <2>1, <2>2, <2>3, <2>4, <2>5 DEF Keeping
<1>3. ASSUME NEW c \in Clients, DeepSleep(c) PROVE Keeping'
  BY <1>3, ResetIsMac DEF DeepSleep, Keeping
<1>4. CASE Task
  <2>1. mac' \in Macs
    BY <1>4, TaskMac
  <2>2. joined' \in BOOLEAN /\ bits' \subseteq Bits
    BY <1>4 DEF Keeping, Task, InitJob, ReportJoining, ReportJoinFailed, RunEngine, Report,
       AnswerHalts, JoinAccepted, RejoinLost, JoinLost, Retransmit, NothingReceived,
       FrameReceived, Complete, Bits
  <2>3. UNCHANGED driverVars
    BY <1>4 DEF Task, InitJob, ReportJoining, ReportJoinFailed, RunEngine, Report,
       AnswerHalts, JoinAccepted, RejoinLost, JoinLost, Retransmit, NothingReceived,
       FrameReceived
  <2> QED BY <2>1, <2>2, <2>3 DEF Keeping
<1>5. CASE UNCHANGED vars
  BY <1>5 DEF vars, Keeping
<1> QED BY <1>1, <1>2, <1>3, <1>4, <1>5 DEF Next

LEMMA CallingStep ==
    ASSUME Calling, Keeping, [Next]_vars
    PROVE  Calling'
<1>1. CASE Task
  <2>1. UNCHANGED <<clientVars, msgid, calls>>
    BY <1>1 DEF Task, InitJob, ReportJoining, ReportJoinFailed, RunEngine, Report,
       AnswerHalts, JoinAccepted, RejoinLost, JoinLost, Retransmit, NothingReceived,
       FrameReceived, driverVars, boundVars
  <2> QED BY <2>1 DEF clientVars, Calling, CallsAreKind, CallsCount, Starting
<1>2. CASE UNCHANGED vars
  BY <1>2 DEF vars, Calling, CallsAreKind, CallsCount, Starting
<1> QED BY <1>1, <1>2, ClientCalling, BeginCalling, SleepCalling DEF Next

(***************************************************************************)
(* Sessions                                                                *)
(***************************************************************************)
\* Before lora_setup has succeeded, LMIC has no session and no frame, and its only
\* job is the one that starts it.
NotSetUp == ~setup =>
    ~mac.devaddr /\ mac.opmode = {} /\ mac.task = "jobs" /\ mac.osjob \in {"none", "init"}

\* That job is set, and its event awaited, by one lora_setup.
Starts ==
    /\ mac.osjob = "init" => ~setup /\ "INITED" \notin bits
    /\ mac.osjob = "init" \/ "INITED" \in bits => \E c \in Clients : pc[c] = "inited"
    /\ \A c \in Clients : pc[c] \in {"join", "joining", "tx", "sending"} => setup

\* Whatever says that a join has succeeded says so while there is a session.
Sessions == "JOINED" \in bits => mac.devaddr

SInv == NotSetUp /\ Starts /\ Sessions /\ JoinedHasSession

LEMMA ClientSession ==
    ASSUME Calling, Keeping, SInv, NEW c \in Clients, Client(c)
    PROVE  SInv'
<1>1. /\ mac.devaddr => mac'.devaddr
      /\ mac' = mac \/ setup \/ SetupStart(c)
      /\ mac'.osjob = "init" => mac.osjob = "init" \/ SetupStart(c)
  BY ClientMac DEF SInv, Starts, JoinStart, TxStart
<1>2. \A d \in Clients : pc[d] = "inited" => owner = d
  BY DEF Calling
<1>3. /\ setup => setup'
      /\ \A b \in bits' : b \in bits
      /\ joined' = joined
  <2>1. CASE SetupEnd(c)
    BY <2>1 DEF SetupEnd
  <2>2. CASE ~SetupEnd(c)
    <3>1. UNCHANGED <<setup, joined>>
      BY <2>2 DEF Client, SetupOtherBand, SetupAgain, SetupFails, SetupUnheard, SetupStart, SetupEnd,
     MacSet, JoinReturns, JoinCheck, JoinStart, JoinEnd, TxReturns, TxCheck, TxStart, TxEnd,
     driverVars
    <3>2. bits' \subseteq bits
      BY <2>2 DEF Client, SetupOtherBand, SetupAgain, SetupFails, SetupUnheard, SetupStart, SetupEnd,
     MacSet, JoinReturns, JoinCheck, JoinStart, JoinEnd, TxReturns, TxCheck, TxStart, TxEnd,
     driverVars
    <3> QED BY <3>1, <3>2
  <2> QED BY <2>1, <2>2
<1>8. setup' = setup \/ SetupEnd(c)
  BY DEF Client, SetupOtherBand, SetupAgain, SetupFails, SetupUnheard, SetupStart, SetupEnd,
     MacSet, JoinReturns, JoinCheck, JoinStart, JoinEnd, TxReturns, TxCheck, TxStart, TxEnd,
     driverVars
<1>4. NotSetUp'
  <2>1. CASE SetupStart(c)
    BY <2>1 DEF SetupStart, SInv, NotSetUp, Keeping, Macs
  <2>2. CASE ~SetupStart(c)
    BY <2>2, <1>1, <1>3 DEF SInv, NotSetUp
  <2> QED BY <2>1, <2>2
<1>5. Starts'
  <2>1. CASE SetupStart(c)
    <3>1. "INITED" \notin bits /\ ~setup /\ bits' = bits /\ setup' = setup
      BY <2>1, <1>2, LoraAssumption DEF SetupStart, Locks, SInv, Starts
    <3>2. pc' = [pc EXCEPT ![c] = "inited"]
      BY <2>1 DEF SetupStart, Go
    <3> QED BY <3>1, <3>2 DEF Calling, SInv, Starts
  <2>2. CASE SetupEnd(c)
    <3>1. /\ "INITED" \in bits /\ "INITED" \notin bits' /\ setup' = TRUE
          /\ pc' = [pc EXCEPT ![c] = "idle"] /\ mac' = mac
      BY <2>2 DEF SetupEnd, Returns, Answers, Go
    <3> QED BY <3>1 DEF Calling, SInv, Starts
  <2>4. CASE SetupUnheard(c)
    <3>1. bits' = bits /\ setup' = setup /\ mac' = mac /\ ~setup
      BY <2>4 DEF SetupUnheard, Locks
    <3>2. pc' = [pc EXCEPT ![c] = "inited"]
      BY <2>4 DEF SetupUnheard, Go
    <3> QED BY <3>1, <3>2 DEF Calling, SInv, Starts
  <2>3. CASE ~SetupStart(c) /\ ~SetupEnd(c) /\ ~SetupUnheard(c)
    <3>1. setup' = setup /\ mac'.osjob = "init" => mac.osjob = "init"
      BY <2>3, <1>1, <1>8
    <3>2. \E where : pc' = [pc EXCEPT ![c] = where]
                     /\ (where \in {"join", "joining", "tx", "sending"} => setup)
      BY <2>3 DEF SInv, Starts, Go, Returns, Answers, Locks, Client, SetupOtherBand, SetupAgain, SetupFails, SetupUnheard,
         SetupStart, MacSet, JoinReturns, JoinCheck, JoinStart, JoinEnd, TxReturns, TxCheck,
         TxStart, TxEnd
    <3>3. pc[c] # "inited"
      BY <2>3 DEF Locks, Client, SetupOtherBand, SetupAgain, SetupFails, SetupUnheard,
         MacSet, JoinReturns, JoinCheck, JoinStart, JoinEnd, TxReturns, TxCheck, TxStart, TxEnd
    <3>4. setup' = setup
      BY <2>3, <1>8
    <3> QED BY <3>1, <3>2, <3>3, <3>4, <1>3 DEF Calling, SInv, Starts
  <2> QED BY <2>1, <2>2, <2>3, <2>4
<1>6. Sessions'
  BY <1>1, <1>3 DEF SInv, Sessions
<1>7. JoinedHasSession'
  <2>1. \A d \in Clients : d # c => op'[d] = op[d]
    BY DEF Calling, CallsAreKind, Returns, Answers, Client, SetupOtherBand, SetupAgain, SetupFails, SetupUnheard,
       SetupStart, SetupEnd, MacSet, JoinReturns, JoinCheck, JoinStart, JoinEnd, TxReturns,
       TxCheck, TxStart, TxEnd
  <2>2. ASSUME op'[c].call = "join", op'[c].ok, ~op'[c].unheard PROVE mac'.devaddr
    <3>0. ASSUME NEW good \in BOOLEAN, Returns(c, good) PROVE good
      <4>1. PICK ok, unheard \in BOOLEAN : Concludes(c, ok, unheard) /\ (ok => unheard \/ good)
        BY <3>0, ReturnsAnswer
      <4>2. op'[c].ok = ok /\ op'[c].unheard = unheard
        BY <4>1 DEF Concludes, Calling, CallsAreKind, CallTypes
      <4> QED BY <4>1, <4>2, <2>2
    <3>1. CASE JoinReturns(c)
      <4>1. setup /\ MustJoin /\ CanOtaa /\ mac' = mac
        BY <3>0, <3>1 DEF JoinReturns
      <4>2. joined
        BY <3>1, <4>1 DEF JoinReturns
      <4> QED BY <4>1, <4>2 DEF SInv, JoinedHasSession
    <3>2. CASE JoinEnd(c)
      <4>1. Returns(c, "JOINED" \in bits) /\ mac' = mac
        BY <3>2 DEF JoinEnd
      <4>2. ASSUME "JOINED" \notin bits PROVE Returns(c, FALSE)
        BY <4>1, <4>2 DEF Returns
      <4>3. "JOINED" \in bits
        BY <3>0, <4>2
      <4> QED BY <4>1, <4>3 DEF SInv, Sessions
    <3>3. CASE UNCHANGED op
      BY <3>3, <2>2, <1>1 DEF SInv, JoinedHasSession
    <3>4. CASE op[c].call # "join" /\ \E ok, unheard \in BOOLEAN : Concludes(c, ok, unheard)
      BY <3>4, <2>2 DEF Concludes, Calling, CallsAreKind, CallTypes
    <3>5. UNCHANGED op \/ JoinReturns(c) \/ JoinEnd(c)
          \/ (op[c].call # "join" /\ \E ok, unheard \in BOOLEAN : Concludes(c, ok, unheard))
      <4>1. \A good : Returns(c, good) => \E ok, unheard \in BOOLEAN : Concludes(c, ok, unheard)
        BY ReturnsAnswer
      <4>2. Answers(c, FALSE, FALSE) => \E ok, unheard \in BOOLEAN : Concludes(c, ok, unheard)
        BY DEF Answers, Concludes
      <4>3. /\ pc[c] = "inited" => op[c].call = "setup"
            /\ pc[c] \in {"tx", "sending"} => op[c].call = "tx"
        BY DEF Calling, CallsAreKind
      <4> QED BY <4>1, <4>2, <4>3 DEF Locks, Client, SetupOtherBand, SetupAgain, SetupFails, SetupUnheard,
            SetupStart, SetupEnd, MacSet, JoinCheck, JoinStart, TxReturns, TxCheck, TxStart, TxEnd
    <3> QED BY <3>1, <3>2, <3>3, <3>4, <3>5
  <2> QED BY <2>1, <2>2, <1>1, <1>3 DEF SInv, JoinedHasSession
<1> QED BY <1>4, <1>5, <1>6, <1>7 DEF SInv

LEMMA TaskSession ==
    ASSUME Calling, Keeping, SInv, Task
    PROVE  SInv'
<1> USE DEF SInv, driverVars, clientVars
<1>1. UNCHANGED <<owner, pc, op, setup>>
  BY DEF Task, InitJob, ReportJoining, ReportJoinFailed, RunEngine, Report,
     AnswerHalts, JoinAccepted, RejoinLost, JoinLost, Retransmit, NothingReceived, FrameReceived
<1>2. CASE InitJob
  <2>1. mac'.devaddr = FALSE /\ mac'.opmode = {} /\ mac'.task = "jobs" /\ mac'.osjob = "none"
    BY <1>2, RanMac, ResetIsMac DEF InitJob, Reset
  <2>2. ~setup /\ ~mac.devaddr /\ mac.osjob = "init" /\ bits' = bits \cup {"INITED"} /\ joined' = joined
    BY <1>2 DEF InitJob, Job, Starts, NotSetUp
  <2> QED BY <1>1, <2>1, <2>2 DEF NotSetUp, Starts, Sessions, JoinedHasSession
<1>3. CASE ~InitJob
  <2>1. setup
    BY <1>3 DEF NotSetUp, Task, ReportJoining, ReportJoinFailed, RunEngine, Report, Answered, Job,
       AnswerHalts, JoinAccepted, RejoinLost, JoinLost, Retransmit, NothingReceived, FrameReceived
  <2>2. (mac.devaddr => mac'.devaddr) /\ mac.osjob # "init" /\ mac'.osjob # "init"
    BY <2>1, <1>3, TaskMac DEF Starts
  <2>3. CASE JoinAccepted
    <3>1. bits' = bits \cup {"JOINED"} /\ mac'.devaddr
      BY <2>3, JoinAcceptedMac DEF JoinAccepted
    <3> QED BY <1>1, <2>1, <2>2, <3>1 DEF NotSetUp, Starts, Sessions, JoinedHasSession
  <2>4. CASE ~JoinAccepted
    <3>1. ~joined' \/ joined' = joined
      BY <1>3, <2>4 DEF Task, ReportJoining, ReportJoinFailed, RunEngine, Report,
         AnswerHalts, RejoinLost, JoinLost, Retransmit, NothingReceived, FrameReceived
    <3>2. bits' \subseteq bits \cup {"JOIN_DENIED", "TX_COMPLETE", "ACK_NOT_RECEIVED"}
      <4>1. CASE NothingReceived \/ FrameReceived
        BY <4>1 DEF NothingReceived, FrameReceived, Complete
      <4>2. CASE ReportJoinFailed
        BY <4>2 DEF ReportJoinFailed
      <4>3. CASE UNCHANGED bits
        BY <4>3
      <4> QED BY <1>3, <2>4, <4>1, <4>2, <4>3 DEF Task, ReportJoining, RunEngine, Report,
              AnswerHalts, RejoinLost, JoinLost, Retransmit
    <3> QED BY <1>1, <2>1, <2>2, <3>1, <3>2 DEF NotSetUp, Starts, Sessions, JoinedHasSession
  <2> QED BY <2>3, <2>4
<1> QED BY <1>2, <1>3

LEMMA SessionStep ==
    ASSUME Calling, Keeping, SInv, [Next]_vars
    PROVE  SInv'
<1>1. ASSUME NEW c \in Clients, Begin(c) PROVE SInv'
  <2>1. /\ pc[c] = "idle" /\ pc' = [pc EXCEPT ![c] = "lock"]
        /\ UNCHANGED <<setup, joined, bits, mac>>
    BY <1>1 DEF Begin, Go, driverVars
  <2>2. /\ \A d \in Clients : d # c => op'[d] = op[d]
        /\ op'[c].ok = FALSE
    BY <1>1 DEF Begin, Calling, CallsAreKind
  <2> QED BY <2>1, <2>2 DEF Calling, SInv, NotSetUp, Starts, Sessions, JoinedHasSession
<1>2. ASSUME NEW c \in Clients, DeepSleep(c) PROVE SInv'
  BY <1>2 DEF DeepSleep, Reset, NoCall, SInv, NotSetUp, Starts, Sessions, JoinedHasSession
<1>3. CASE UNCHANGED vars
  BY <1>3 DEF vars, SInv, NotSetUp, Starts, Sessions, JoinedHasSession
<1> QED BY <1>1, <1>2, <1>3, ClientSession, TaskSession DEF Next

(***************************************************************************)
(* Frames: what is on the air, when the network asks for no frame itself   *)
(***************************************************************************)
TxBits == {"TX_COMPLETE", "ACK_NOT_RECEIVED"}

\* m has sent a data frame, or one the network asked for, and awaits the answer.
DataOnAir(m) == "TXRXPEND" \in m.opmode /\ m.frame.kind \in {"data", "poll"}

\* The counter of the message that is sent is new: it is beyond last, that of the
\* last frame of the session, and no later message number than id.
Counting(m, last, id) ==
    IF DataOnAir(m)
    THEN /\ m.frame.count <= id /\ m.seqnoUp = m.frame.count + 1
         /\ m.frame.again \/ m.frame.count > last
    ELSE IF m.txCnt = 0 THEN last < m.seqnoUp /\ m.seqnoUp <= id
    ELSE m.seqnoUp - 1 <= id

\* What is on the air is the message, unless that fits no frame.
OfMessage(m) ==
    /\ "TXDATA" \in m.opmode
    /\ ~m.full => m.frame.kind = "data" /\ m.frame.msg = m.msg /\ m.frame.conf = m.conf

\* LMIC has a session when a message is sent; one that fits no frame is not repeated.
Framed(m, last, id) ==
    /\ "POLL" \notin m.opmode
    /\ "JOINING" \in m.opmode => ~m.devaddr
    /\ DataOnAir(m) => OfMessage(m)
    /\ "TXDATA" \in m.opmode =>
          m.devaddr /\ (m.full => m.txCnt = 0) /\ Counting(m, last, id)

\* Nothing but the fields Framed speaks of.
LEMMA FramedSame ==
    ASSUME NEW m, NEW n, NEW last, NEW id, Framed(m, last, id),
           n.opmode = m.opmode, n.devaddr = m.devaddr, n.msg = m.msg, n.conf = m.conf,
           n.full = m.full, n.txCnt = m.txCnt, n.seqnoUp = m.seqnoUp, n.frame = m.frame
    PROVE  Framed(n, last, id)
  BY DEF Framed, OfMessage, Counting, DataOnAir

LEMMA TransmitFramed ==
    ASSUME NEW m \in Macs, NEW last \in Int, NEW id \in Int, Framed(m, last, id),
           "TXRXPEND" \notin m.opmode,
           m.opmode \cap {"JOINING", "REJOIN", "TXDATA", "POLL"} # {}
    PROVE  /\ Framed(Transmit(m), last, id)
           /\ Transmit(m).opmode = m.opmode \cup {"TXRXPEND"}
           /\ Transmit(m).msg = m.msg /\ Transmit(m).conf = m.conf
           /\ Transmit(m).full = m.full
<1> DEFINE kind == CASE m.opmode \cap {"JOINING", "REJOIN"} # {} -> "join"
                     [] "TXDATA" \in m.opmode /\ ~m.full -> "data"
                     [] OTHER -> "poll"
           onAir == [m EXCEPT !.opmode = (@ \ {"POLL"}) \cup {"TXRXPEND"}, !.osjob = "done"]
           first == m.txCnt = 0
           count == IF first THEN m.seqnoUp ELSE m.seqnoUp - 1
<1>1. /\ onAir \in Macs /\ onAir.opmode = m.opmode \cup {"TXRXPEND"}
      /\ onAir.devaddr = m.devaddr /\ onAir.msg = m.msg /\ onAir.conf = m.conf
      /\ onAir.full = m.full /\ onAir.txCnt = m.txCnt /\ onAir.seqnoUp = m.seqnoUp
  <2>1. /\ "POLL" \notin m.opmode /\ m.opmode \in SUBSET Modes
    BY DEF Framed, Macs
  <2>2. (m.opmode \ {"POLL"}) \cup {"TXRXPEND"} = m.opmode \cup {"TXRXPEND"}
        /\ m.opmode \cup {"TXRXPEND"} \in SUBSET Modes
    BY <2>1 DEF Modes
  <2> QED BY <2>2 DEF Macs
<1>2. CASE kind = "join"
  <2> DEFINE frame == [NoFrame EXCEPT !.kind = "join"]
             n == [onAir EXCEPT !.frame = frame]
  <2>1. Transmit(m) = n
    BY <1>2 DEF Transmit
  <2>2. frame.kind = "join"
    BY DEF NoFrame
  <2> HIDE DEF frame
  <2> HIDE DEF onAir, kind
  <2>3. /\ n.opmode = onAir.opmode /\ n.devaddr = m.devaddr /\ n.msg = m.msg /\ n.conf = m.conf
        /\ n.full = m.full
        /\ n.txCnt = m.txCnt /\ n.seqnoUp = m.seqnoUp /\ n.frame.kind = "join"
    BY <1>1, <2>2 DEF Macs
  <2> HIDE DEF n
  <2>4. Framed(n, last, id)
    BY <1>1, <2>3 DEF Framed, Counting, DataOnAir
  <2> QED BY <1>1, <2>1, <2>3, <2>4
<1>3. CASE kind # "join"
  <2> DEFINE data == ~m.full
             tx == IF data /\ m.conf /\ first THEN 1 ELSE m.txCnt
             frame == [kind |-> IF data THEN "data" ELSE "poll",
                       msg |-> IF data THEN m.msg ELSE 0, count |-> count,
                       again |-> data /\ ~first, conf |-> data /\ m.conf]
             n == [onAir EXCEPT !.seqnoUp = count + 1, !.txCnt = tx, !.frame = frame]
  <2>1. "TXDATA" \in m.opmode /\ kind = IF data THEN "data" ELSE "poll"
    BY <1>3 DEF Framed
  <2>2. /\ m.conf \in BOOLEAN /\ m.full \in BOOLEAN
        /\ m.seqnoUp \in Int /\ m.txCnt \in Nat
    BY LoraAssumption DEF Macs
  <2>3. Transmit(m) = n
    BY <1>3, <2>1, <2>2 DEF Transmit, Macs
  <2>4. count \in Int /\ (first => count = m.seqnoUp) /\ (~first => count = m.seqnoUp - 1)
    BY <2>2
  <2>5. /\ frame.kind \in {"data", "poll"} /\ frame.count = count
        /\ ~m.full => frame.kind = "data" /\ frame.msg = m.msg /\ frame.conf = m.conf
        /\ ~m.full => frame.again = ~first
    BY <2>2
  <2>12. m.full => tx = m.txCnt
    OBVIOUS
  <2> HIDE DEF onAir, count, tx, frame, data
  <2>6. /\ n.opmode = m.opmode \cup {"TXRXPEND"} /\ n.devaddr = m.devaddr /\ n.msg = m.msg
        /\ n.conf = m.conf /\ n.seqnoUp = count + 1 /\ n.frame = frame /\ n.full = m.full
        /\ n.txCnt = tx
    BY <1>1 DEF Macs
  <2> HIDE DEF n
  <2>7. "TXRXPEND" \in n.opmode /\ DataOnAir(n) /\ ~DataOnAir(m)
    BY <2>5, <2>6 DEF DataOnAir
  <2>8. Counting(m, last, id) /\ m.devaddr /\ (m.full => m.txCnt = 0)
    BY <2>1 DEF Framed
  <2>9. count <= id /\ (first => count > last)
    BY <2>2, <2>4, <2>7, <2>8 DEF Counting
  <2>13. first \/ ~m.full
    BY <2>8
  <2>10. Counting(n, last, id)
    <3>1. n.frame.again \/ n.frame.count > last
      BY <2>5, <2>6, <2>9, <2>13
    <3> QED BY <2>4, <2>5, <2>6, <2>7, <2>9, <3>1 DEF Counting
  <2>14. OfMessage(n)
    BY <2>1, <2>5, <2>6 DEF OfMessage
  <2>11. Framed(n, last, id)
    BY <2>6, <2>7, <2>8, <2>10, <2>12, <2>14 DEF Framed
  <2> QED BY <2>3, <2>6, <2>11
<1> QED BY <1>2, <1>3

\* engineUpdate leaves the message alone, and sends nothing but it.
LEMMA EngineFramed ==
    ASSUME NEW m \in Macs, NEW last \in Int, NEW id \in Int, NEW late \in BOOLEAN,
           Framed(m, last, id)
    PROVE  /\ Framed(Engine(m, late), last, id)
           /\ "TXDATA" \in Engine(m, late).opmode <=> "TXDATA" \in m.opmode
           /\ Engine(m, late).msg = m.msg /\ Engine(m, late).conf = m.conf
           /\ Engine(m, late).full = m.full
<1>1. CASE "TXRXPEND" \in m.opmode
  BY <1>1 DEF Engine
<1>2. CASE "TXRXPEND" \notin m.opmode /\ ~m.devaddr /\ "JOINING" \notin m.opmode
  <2> DEFINE modes == (m.opmode \ {"REJOIN"}) \cup {"JOINING"}
             n == [m EXCEPT !.opmode = modes, !.tries = 0, !.txCnt = 0, !.osjob = "start"]
  <2>1. Engine(m, late) = n
    BY <1>2 DEF Engine, StartJoining, Macs
  <2>2. n.opmode = modes /\ n.devaddr = m.devaddr /\ n.msg = m.msg /\ n.conf = m.conf
        /\ n.full = m.full /\ n.frame = m.frame
    BY DEF Macs
  <2> HIDE DEF n
  <2>3. "TXDATA" \notin modes /\ "TXRXPEND" \notin modes /\ "POLL" \notin modes
        /\ "TXDATA" \notin m.opmode
    BY <1>2 DEF Framed
  <2> QED BY <1>2, <2>1, <2>2, <2>3 DEF Framed, DataOnAir
<1>3. CASE "TXRXPEND" \notin m.opmode /\ ~(~m.devaddr /\ "JOINING" \notin m.opmode)
  <2>1. Engine(m, late) = IF m.opmode \cap {"JOINING", "REJOIN", "TXDATA", "POLL"} = {} THEN m
            ELSE IF late THEN [m EXCEPT !.osjob = "engine"] ELSE Transmit(m)
    BY <1>3 DEF Engine
  <2> DEFINE n == [m EXCEPT !.osjob = "engine"]
  <2>2. n.opmode = m.opmode /\ n.devaddr = m.devaddr /\ n.msg = m.msg /\ n.conf = m.conf
        /\ n.full = m.full /\ n.txCnt = m.txCnt /\ n.seqnoUp = m.seqnoUp /\ n.frame = m.frame
    BY DEF Macs
  <2> HIDE DEF n
  <2>3. Framed(n, last, id)
    BY <2>2, FramedSame
  <2>4. CASE Engine(m, late) = m
    BY <2>4
  <2>5. CASE Engine(m, late) = n
    BY <2>2, <2>3, <2>5
  <2>6. CASE /\ Engine(m, late) = Transmit(m)
             /\ m.opmode \cap {"JOINING", "REJOIN", "TXDATA", "POLL"} # {}
    <3>1. "TXDATA" \in m.opmode \cup {"TXRXPEND"} <=> "TXDATA" \in m.opmode
      OBVIOUS
    <3> QED BY <1>3, <2>6, <3>1, TransmitFramed
  <2> QED BY <2>1, <2>4, <2>5, <2>6 DEF n
<1> QED BY <1>1, <1>2, <1>3

\* A MAC that sends no message is not bound to any counter.
LEMMA FramedIdle ==
    ASSUME NEW m, "POLL" \notin m.opmode, "TXDATA" \notin m.opmode, ~DataOnAir(m),
           "JOINING" \in m.opmode => ~m.devaddr
    PROVE  \A last, id : Framed(m, last, id)
  BY DEF Framed

(***************************************************************************)
(* The messages, and their counters                                        *)
(***************************************************************************)
Kinds == {"otaa", "abp"}
Nets == [sent : SUBSET Int, acked : SUBSET Int, fresh : BOOLEAN, session : Kinds,
         last : [Kinds -> Int]]

OnTheAir == Framed(mac, net.last[net.session], msgid)

OfCall(m, c) ==
    m.msg = op[c].msg /\ m.conf = op[c].arg /\ m.full = (op[c].len = "full")

\* A message that is sent is that of the call that waits, and no event of another
\* message is there.
OneSends ==
    /\ "TXDATA" \in mac.opmode =>
          /\ bits \cap TxBits = {}
          /\ \E c \in Clients : pc[c] = "sending" /\ OfCall(mac, c)
    /\ bits \cap TxBits # {} => \E c \in Clients : pc[c] = "sending"

WasSent(c) == op[c].msg \in net.sent /\ (op[c].arg => op[c].msg \in net.acked)

\* The event that ends a call without an error is that of its message.
Outcome == "TX_COMPLETE" \in bits =>
    \A c \in Clients : pc[c] = "sending" => op[c].len = "full" \/ WasSent(c)

\* There is a session when a call is about to send; that of ABP excludes a join.
InSession ==
    /\ session => mac.devaddr /\ ~MustJoin
    /\ \A c \in Clients : pc[c] = "tx" => mac.devaddr

\* msgid is beyond the counters of the session, where that still can be used.
InSequence ==
    /\ net.last["abp"] <= msgid
    /\ net.session = "otaa" /\ (joined \/ session \/ \E c \in Clients : pc[c] = "tx")
          => net.last["otaa"] <= msgid
    /\ \A c \in Clients : pc[c] = "join" =>
          ~session /\ (joined /\ net.session = "otaa" => net.last["otaa"] <= 0)

FInv ==
    /\ net \in Nets
    /\ OnTheAir /\ OneSends /\ Outcome /\ InSession /\ InSequence
    /\ OkMeansSent /\ CountersAreNew

\* No message is sent, and no event of one is there, but while its call waits.
LEMMA Silence ==
    ASSUME Calling, FInv, NEW c \in Clients, pc[c] # "sending",
           pc[c] \notin {"idle", "lock"} \/ owner = None
    PROVE  /\ \A d \in Clients : pc[d] # "sending"
           /\ "TXDATA" \notin mac.opmode /\ bits \cap TxBits = {} /\ ~DataOnAir(mac)
           /\ "POLL" \notin mac.opmode /\ ("JOINING" \in mac.opmode => ~mac.devaddr)
<1>1. \A d \in Clients : pc[d] # "sending"
  BY Alone
<1> QED BY <1>1 DEF FInv, OneSends, OnTheAir, Framed, OfMessage

\* What a frame that was heard does to the ghost.
LEMMA HeardNet ==
    ASSUME Keeping, FInv, msgid \in Nat, DataOnAir(mac), NEW ack \in BOOLEAN, Heard(ack)
    PROVE  /\ net' \in Nets /\ net'.fresh /\ net'.session = net.session
           /\ net.sent \subseteq net'.sent /\ net.acked \subseteq net'.acked
           /\ ~mac.full => mac.msg \in net'.sent /\ (ack => mac.msg \in net'.acked)
           /\ \A k \in Kinds : net.last[k] <= msgid => net'.last[k] <= msgid
<1> DEFINE s == net.session
           data == mac.frame.kind = "data"
           sent == IF data THEN net.sent \cup {mac.frame.msg} ELSE net.sent
           acked == IF data /\ ack THEN net.acked \cup {mac.frame.msg} ELSE net.acked
           fresh == net.fresh /\ (mac.frame.again \/ mac.frame.count > net.last[s])
           count == IF mac.frame.count > net.last[s] THEN mac.frame.count ELSE net.last[s]
           last == [net.last EXCEPT ![s] = count]
<1>1. /\ ~mac.full => data /\ mac.frame.msg = mac.msg
      /\ mac.frame.count <= msgid /\ (mac.frame.again \/ mac.frame.count > net.last[s])
  BY DEF FInv, OnTheAir, Framed, OfMessage, Counting
<1>2. /\ mac.frame \in Frames /\ net \in Nets /\ net.fresh
  BY FieldsAreMac DEF Keeping, FInv, CountersAreNew
<1>3. /\ mac.frame.msg \in Int /\ mac.frame.count \in Int
      /\ net.last \in [Kinds -> Int] /\ s \in Kinds /\ net.last[s] \in Int
      /\ net.sent \in SUBSET Int /\ net.acked \in SUBSET Int
  BY <1>2 DEF Frames, Nets
<1>4. net' = [net EXCEPT !.sent = sent, !.acked = acked, !.fresh = fresh, !.last = last]
  BY <1>1, <1>2 DEF Heard, Nets
<1>5. /\ sent \in SUBSET Int /\ acked \in SUBSET Int /\ fresh = TRUE /\ count \in Int
  BY <1>1, <1>2, <1>3
<1>6. last \in [Kinds -> Int] /\ \A k \in Kinds : net.last[k] <= msgid => last[k] <= msgid
  <2>1. net.last[s] <= msgid => count <= msgid
    BY <1>1
  <2> HIDE DEF count
  <2> QED BY <1>3, <1>5, <2>1
<1>7. /\ net.sent \subseteq sent /\ net.acked \subseteq acked
      /\ ~mac.full => mac.msg \in sent /\ (ack => mac.msg \in acked)
  BY <1>1
<1> HIDE DEF sent, acked, fresh, count, last
<1>8. /\ net' \in Nets /\ net'.sent = sent /\ net'.acked = acked /\ net'.fresh = fresh
      /\ net'.last = last /\ net'.session = s
  BY <1>2, <1>4, <1>5, <1>6 DEF Nets
<1> QED BY <1>5, <1>6, <1>7, <1>8

\* A call that does not wait for the end of a message leaves the MAC silent, unless
\* it starts one.
LEMMA ClientSilence ==
    ASSUME Calling, Keeping, FInv, NEW c \in Clients, Client(c), ~TxStart(c), ~TxEnd(c)
    PROVE  OnTheAir' /\ OneSends' /\ Outcome'
<1> USE DEF Keeping, driverVars
<1>1. pc[c] # "sending" /\ (pc[c] \notin {"idle", "lock"} \/ owner = None)
  BY DEF Locks, Client, SetupOtherBand, SetupAgain, SetupFails, SetupUnheard, SetupStart, SetupEnd, MacSet,
     JoinReturns, JoinCheck, JoinStart, JoinEnd, TxReturns, TxCheck
<1>2. /\ \A d \in Clients : pc[d] # "sending"
      /\ "TXDATA" \notin mac.opmode /\ bits \cap TxBits = {} /\ ~DataOnAir(mac)
      /\ "POLL" \notin mac.opmode /\ ("JOINING" \in mac.opmode => ~mac.devaddr)
  BY <1>1, Silence
<1>3. \A d \in Clients : pc'[d] # "sending"
  <2>1. \E where \in Places \ {"sending"} : pc' = [pc EXCEPT ![c] = where]
    BY DEF Places, Go, Returns, Answers, Client, SetupOtherBand, SetupAgain, SetupFails, SetupUnheard, SetupStart,
       SetupEnd, MacSet, JoinReturns, JoinCheck, JoinStart, JoinEnd, TxReturns, TxCheck
  <2> QED BY <1>2, <2>1 DEF Calling
<1>4. bits' \cap TxBits = {}
  <2>1. bits' \subseteq bits
    BY DEF Client, SetupOtherBand, SetupAgain, SetupFails, SetupUnheard, SetupStart,
       SetupEnd, MacSet, JoinReturns, JoinCheck, JoinStart, JoinEnd, TxReturns, TxCheck
  <2> QED BY <1>2, <2>1
<1>5. /\ "TXDATA" \notin mac'.opmode /\ ~DataOnAir(mac')
      /\ "POLL" \notin mac'.opmode /\ ("JOINING" \in mac'.opmode => ~mac'.devaddr)
  <2>1. CASE SetupStart(c) \/ MacSet(c)
    <3>1. mac'.opmode = mac.opmode /\ mac'.frame = mac.frame /\ mac'.devaddr = mac.devaddr
      BY <2>1 DEF SetupStart, MacSet, Macs
    <3> QED BY <1>2, <3>1 DEF DataOnAir
  <2>2. CASE JoinStart(c)
    <3> DEFINE n == [mac EXCEPT !.opmode = (@ \ {"REJOIN"}) \cup {"JOINING"},
                                !.tries = 0, !.txCnt = 0, !.osjob = "start"]
    <3>1. mac' = mac \/ (~mac.devaddr /\ mac' = n)
      BY <2>2 DEF JoinStart, StartJoining
    <3>2. n.opmode = (mac.opmode \ {"REJOIN"}) \cup {"JOINING"} /\ n.frame = mac.frame
          /\ n.devaddr = mac.devaddr
      BY DEF Macs
    <3> HIDE DEF n
    <3> QED BY <1>2, <3>1, <3>2 DEF DataOnAir
  <2>3. CASE TxCheck(c)
    <3> DEFINE n == SetSession(mac)
    <3>1. mac' = mac \/ mac' = n
      BY <2>3 DEF TxCheck
    <3>2. n.opmode = mac.opmode \ {"JOINING", "REJOIN", "TXRXPEND"} /\ n.frame = mac.frame
      BY DEF Macs, SetSession, JustJoined
    <3> HIDE DEF n
    <3> QED BY <1>2, <3>1, <3>2 DEF DataOnAir
  <2>4. CASE UNCHANGED mac
    BY <1>2, <2>4
  <2> QED BY <2>1, <2>2, <2>3, <2>4 DEF Client, SetupOtherBand, SetupAgain, SetupFails, SetupUnheard, SetupEnd,
          JoinReturns, JoinCheck, JoinEnd, TxReturns
<1>6. OnTheAir'
  BY <1>5, FramedIdle DEF OnTheAir
<1>7. OneSends'
  BY <1>4, <1>5 DEF OneSends
<1>8. Outcome'
  BY <1>3 DEF Outcome
<1> QED BY <1>6, <1>7, <1>8

\* The ghost changes when a join or a session of ABP starts, and msgid when a join
\* or a message does.
LEMMA ClientNet ==
    ASSUME Calling, Keeping, FInv, NEW c \in Clients, Client(c)
    PROVE  /\ net' \in Nets /\ net'.fresh = net.fresh
           /\ net'.sent = net.sent /\ net'.acked = net.acked
           /\ IF JoinStart(c)
              THEN /\ msgid' = 0 /\ net'.session = net.session
                   /\ net'.last = [net.last EXCEPT !["abp"] = -1]
              ELSE /\ net'.last = net.last
                   /\ msgid' = IF TxStart(c) THEN msgid + 1 ELSE msgid
                   /\ net'.session = IF TxCheck(c) /\ ~MustJoin /\ ~session THEN "abp"
                                     ELSE net.session
<1> USE DEF driverVars
<1>1. net \in Nets
  BY DEF FInv
<1>2. CASE JoinStart(c)
  <2> DEFINE last == [net.last EXCEPT !["abp"] = -1]
  <2>1. msgid' = 0 /\ net' = [net EXCEPT !.last = last]
    BY <1>1, <1>2 DEF JoinStart, Nets
  <2>2. last \in [Kinds -> Int]
    BY <1>1 DEF Nets, Kinds
  <2> HIDE DEF last
  <2>3. /\ net' \in Nets /\ net'.fresh = net.fresh /\ net'.last = last
        /\ net'.sent = net.sent /\ net'.acked = net.acked /\ net'.session = net.session
    BY <1>1, <2>1, <2>2 DEF Nets
  <2> QED BY <1>2, <2>1, <2>3 DEF last
<1>3. CASE TxCheck(c)
  <2>1. ~JoinStart(c) /\ ~TxStart(c) /\ msgid' = msgid
    BY <1>3 DEF TxCheck, JoinStart, TxStart, Locks
  <2>2. net' = IF ~MustJoin /\ ~session THEN [net EXCEPT !.session = "abp"] ELSE net
    BY <1>3 DEF TxCheck
  <2> QED BY <1>1, <1>3, <2>1, <2>2 DEF Nets, Kinds
<1>4. CASE ~JoinStart(c) /\ ~TxCheck(c)
  <2>1. net' = net /\ msgid' = IF TxStart(c) THEN msgid + 1 ELSE msgid
    <3>1. CASE TxStart(c)
      BY <3>1 DEF TxStart
    <3>2. CASE ~TxStart(c)
      BY <1>4, <3>2 DEF Client, SetupOtherBand, SetupAgain, SetupFails, SetupUnheard, SetupStart, SetupEnd,
         MacSet, JoinReturns, JoinCheck, JoinEnd, TxReturns, TxEnd
    <3> QED BY <3>1, <3>2
  <2> QED BY <1>1, <1>4, <2>1
<1> QED BY <1>2, <1>3, <1>4

LEMMA TxStartFrames ==
    ASSUME Calling, Keeping, FInv, NEW c \in Clients, TxStart(c)
    PROVE  OnTheAir' /\ OneSends' /\ Outcome'
<1> USE DEF Keeping
<1> DEFINE m == [mac EXCEPT !.seqnoUp = msgid + 1]
           modes == mac.opmode \cup {"TXDATA"}
           full == op[c].len = "full"
           n == [mac EXCEPT !.seqnoUp = msgid + 1, !.msg = op[c].msg, !.full = full,
                            !.conf = op[c].arg, !.opmode = modes, !.txCnt = 0]
           last == net.last[net.session]
<1>1. /\ pc[c] = "tx" /\ owner = c /\ msgid' = msgid + 1 /\ bits' = bits /\ net' = net
      /\ op' = op /\ pc' = [pc EXCEPT ![c] = "sending"]
  BY DEF TxStart, Calling, Go
<1>2. /\ \A d \in Clients : pc[d] # "sending"
      /\ "TXDATA" \notin mac.opmode /\ bits \cap TxBits = {} /\ ~DataOnAir(mac)
      /\ "POLL" \notin mac.opmode /\ ("JOINING" \in mac.opmode => ~mac.devaddr)
  BY <1>1, Silence
<1>3. mac.devaddr /\ "JOINING" \notin mac.opmode
  BY <1>1, <1>2 DEF FInv, InSession
<1>4. /\ msgid \in Nat /\ msgid + 1 \in Int /\ op[c].msg \in Int /\ op[c].arg \in BOOLEAN
      /\ modes \in SUBSET Modes /\ 0 \in 0 .. TxAttempts /\ full \in BOOLEAN
  BY <1>1, FieldsAreMac DEF Calling, CallsCount, CallsAreKind, CallTypes, Modes
<1>5. last \in Int /\ last <= msgid
  BY <1>1 DEF FInv, Nets, Kinds, InSequence
<1>6. PICK late \in BOOLEAN :
         mac' = IF op[c].len = "long" THEN m
                ELSE SetTxData(m, op[c].msg, full, op[c].arg, late)
  BY DEF TxStart
<1>7. pc'[c] = "sending" /\ bits' \cap TxBits = {}
  BY <1>1, <1>2 DEF Calling
<1>8. Outcome'
  BY <1>1, <1>7 DEF Outcome, TxBits
<1>9. CASE op[c].len = "long"
  <2>1. m.opmode = mac.opmode /\ m.devaddr = mac.devaddr /\ m.frame = mac.frame
    BY DEF Macs
  <2>2. mac' = m
    BY <1>6, <1>9
  <2> HIDE DEF m
  <2>3. /\ "TXDATA" \notin mac'.opmode /\ ~DataOnAir(mac')
        /\ "POLL" \notin mac'.opmode /\ ("JOINING" \in mac'.opmode => ~mac'.devaddr)
    BY <1>2, <2>1, <2>2 DEF DataOnAir
  <2>4. OnTheAir'
    BY <2>3, FramedIdle DEF OnTheAir
  <2>5. OneSends'
    BY <1>7, <2>3 DEF OneSends
  <2> QED BY <1>8, <2>4, <2>5
<1>10. CASE op[c].len # "long"
  <2>1. mac' = Engine(n, late)
    BY <1>3, <1>6, <1>10 DEF SetTxData, Macs
  <2> HIDE DEF modes, full
  <2>2. /\ n \in Macs /\ n.opmode = modes /\ n.devaddr = mac.devaddr /\ n.frame = mac.frame
        /\ n.txCnt = 0 /\ n.seqnoUp = msgid + 1 /\ n.msg = op[c].msg /\ n.conf = op[c].arg
        /\ n.full = full
    BY <1>4 DEF Macs
  <2> HIDE DEF n, last
  <2>3. ~DataOnAir(n) /\ "POLL" \notin n.opmode /\ "JOINING" \notin n.opmode
    BY <1>2, <1>3, <2>2 DEF DataOnAir, modes
  <2>4. Counting(n, last, msgid + 1)
    BY <1>4, <1>5, <2>2, <2>3 DEF Counting
  <2>5. Framed(n, last, msgid + 1)
    BY <1>3, <2>2, <2>3, <2>4 DEF Framed
  <2>6. Framed(mac', last, msgid + 1) /\ OfCall(mac', c)
    BY <1>4, <1>5, <2>1, <2>2, <2>5, EngineFramed DEF OfCall, full
  <2>7. OnTheAir'
    BY <1>1, <2>6 DEF OnTheAir, last
  <2>8. OneSends'
    BY <1>1, <1>7, <2>6 DEF OneSends, OfCall
  <2> QED BY <1>8, <2>7, <2>8
<1> QED BY <1>9, <1>10

LEMMA TxEndFrames ==
    ASSUME Calling, FInv, NEW c \in Clients, TxEnd(c)
    PROVE  OnTheAir' /\ OneSends' /\ Outcome'
<1>1. /\ pc[c] = "sending" /\ bits \cap TxBits # {} /\ bits' \cap TxBits = {}
      /\ mac' = mac /\ net' = net /\ msgid' = msgid
  BY DEF TxEnd, TxBits, driverVars
<1>2. "TXDATA" \notin mac'.opmode
  BY <1>1 DEF FInv, OneSends
<1> QED BY <1>1, <1>2 DEF FInv, OnTheAir, OneSends, Outcome, TxBits

\* A call ends without an error when its message was sent.
LEMMA ClientOutcome ==
    ASSUME Calling, Keeping, FInv, NEW c \in Clients, Client(c)
    PROVE  OkMeansSent'
<1>1. net'.sent = net.sent /\ net'.acked = net.acked
  BY ClientNet
<1>2. op' = op \/ \E ok, unheard \in BOOLEAN :
          /\ Concludes(c, ok, unheard)
          /\ ok /\ op[c].call = "tx" => unheard \/ op[c].len = "full" \/ WasSent(c)
  <2>1. ASSUME NEW good, Returns(c, good),
               good /\ op[c].call = "tx" => op[c].len = "full" \/ WasSent(c)
        PROVE  \E ok, unheard \in BOOLEAN :
          /\ Concludes(c, ok, unheard)
          /\ ok /\ op[c].call = "tx" => unheard \/ op[c].len = "full" \/ WasSent(c)
    BY <2>1, ReturnsAnswer
  <2>3. /\ pc[c] = "inited" => op[c].call = "setup"
        /\ pc[c] = "joining" => op[c].call = "join"
    BY DEF Calling, CallsAreKind
  <2>4. CASE TxEnd(c)
    BY <2>1, <2>4 DEF TxEnd, FInv, Outcome
  <2>5. CASE JoinReturns(c) \/ JoinEnd(c)
    BY <2>1, <2>3, <2>5 DEF JoinReturns, JoinEnd, Locks
  <2>6. CASE SetupAgain(c) \/ SetupEnd(c) \/ MacSet(c)
    BY <2>1, <2>3, <2>6 DEF Locks, SetupAgain, SetupEnd, MacSet
  <2>7. CASE SetupOtherBand(c) \/ SetupUnheard(c) \/ SetupStart(c)
             \/ JoinCheck(c) \/ JoinStart(c) \/ TxStart(c)
    BY <2>7 DEF SetupOtherBand, SetupUnheard, SetupStart, JoinCheck, JoinStart, TxStart
  <2>8. CASE TxReturns(c) \/ TxCheck(c)
    BY <2>1, <2>8 DEF TxReturns, TxCheck
  <2>9. CASE SetupFails(c)
    <3>1. Concludes(c, FALSE, FALSE)
      BY <2>9 DEF SetupFails, Answers, Concludes
    <3> QED BY <3>1
  <2> QED BY <2>4, <2>5, <2>6, <2>7, <2>8, <2>9 DEF Client
<1>3. op \in [Clients -> CallTypes]
  BY DEF Calling, CallsAreKind
<1>4. CASE op' = op
  BY <1>1, <1>4 DEF FInv, OkMeansSent
<1>5. ASSUME NEW ok \in BOOLEAN, NEW unheard \in BOOLEAN, Concludes(c, ok, unheard),
             ok /\ op[c].call = "tx" => unheard \/ op[c].len = "full" \/ WasSent(c)
      PROVE OkMeansSent'
  <2>1. /\ \A d \in Clients : d # c => op'[d] = op[d]
        /\ op'[c].call = op[c].call /\ op'[c].arg = op[c].arg /\ op'[c].msg = op[c].msg
        /\ op'[c].len = op[c].len /\ op'[c].ok = ok /\ op'[c].unheard = unheard
    BY <1>3, <1>5 DEF Concludes, CallTypes
  <2> QED BY <1>1, <1>5, <2>1 DEF FInv, OkMeansSent, WasSent
<1> QED BY <1>2, <1>4, <1>5

\* Where a call goes, and what it does to the variables the counters depend on.
LEMMA ClientGoes ==
    ASSUME Calling, Keeping, NEW c \in Clients, Client(c)
    PROVE  /\ joined' = joined
           /\ session' = session \/ (TxCheck(c) /\ session' = (session \/ ~MustJoin))
           /\ keys \subseteq keys'
           /\ \A d \in Clients : pc'[d] = "tx" => pc[d] = "tx" \/ (d = c /\ TxCheck(c))
           /\ \A d \in Clients : pc'[d] = "join" => pc[d] = "join" \/ (d = c /\ JoinCheck(c))
           /\ JoinStart(c) => \A d \in Clients : pc'[d] \notin {"tx", "join"}
<1> USE DEF driverVars
<1>1. joined' = joined
  BY DEF Client, SetupOtherBand, SetupAgain, SetupFails, SetupUnheard, SetupStart, SetupEnd,
     MacSet, JoinReturns, JoinCheck, JoinStart, JoinEnd, TxReturns, TxCheck, TxStart, TxEnd
<1>2. session' = session \/ (TxCheck(c) /\ session' = (session \/ ~MustJoin))
  <2>1. CASE TxCheck(c)
    BY <2>1 DEF TxCheck
  <2> QED BY <2>1 DEF Client, SetupOtherBand, SetupAgain, SetupFails, SetupUnheard, SetupStart, SetupEnd,
     MacSet, JoinReturns, JoinCheck, JoinStart, JoinEnd, TxReturns, TxStart, TxEnd
<1>3. keys \subseteq keys'
  BY DEF Client, SetupOtherBand, SetupAgain, SetupFails, SetupUnheard, SetupStart, SetupEnd,
     MacSet, JoinReturns, JoinCheck, JoinStart, JoinEnd, TxReturns, TxCheck, TxStart, TxEnd
<1>4. \E where \in Places : /\ pc' = [pc EXCEPT ![c] = where]
                            /\ where = "tx" => TxCheck(c)
                            /\ where = "join" => JoinCheck(c)
  BY DEF Places, Go, Returns, Answers, Client, SetupOtherBand, SetupAgain, SetupFails, SetupUnheard, SetupStart, SetupEnd,
     MacSet, JoinReturns, JoinCheck, JoinStart, JoinEnd, TxReturns, TxCheck, TxStart, TxEnd
<1>5. ASSUME JoinStart(c) PROVE \A d \in Clients : pc'[d] \notin {"tx", "join"}
  <2>1. pc[c] = "join" /\ \E where \in {"halted", "joining"} : pc' = [pc EXCEPT ![c] = where]
    BY <1>5 DEF JoinStart, Go
  <2>2. \A d \in Clients : d # c => pc[d] \in {"idle", "lock"}
    BY <2>1, Alone
  <2> QED BY <2>1, <2>2 DEF Calling
<1> QED BY <1>1, <1>2, <1>3, <1>4, <1>5 DEF Calling

LEMMA ClientInSession ==
    ASSUME Calling, Keeping, SInv, FInv, NEW c \in Clients, Client(c)
    PROVE  InSession'
<1>1. mac.devaddr => mac'.devaddr
  BY ClientMac
<1>2. ~MustJoin => ~MustJoin'
  BY ClientGoes DEF MustJoin
<1>3. CASE TxCheck(c)
  <2>1. /\ session' = (session \/ ~MustJoin) /\ keys' = keys /\ CanTx
        /\ mac' = IF ~MustJoin /\ ~session THEN SetSession(mac) ELSE mac
    BY <1>3 DEF TxCheck
  <2>2. SetSession(mac).devaddr
    BY DEF SetSession, JustJoined, Keeping, Macs
  <2>3. mac'.devaddr
    BY <2>1, <2>2 DEF CanTx, SInv, JoinedHasSession, FInv, InSession
  <2>4. session' => ~MustJoin'
    BY <1>2, <2>1 DEF FInv, InSession
  <2> QED BY <2>3, <2>4 DEF InSession
<1>4. CASE ~TxCheck(c)
  BY <1>1, <1>2, <1>4, ClientGoes DEF FInv, InSession
<1> QED BY <1>3, <1>4

LEMMA ClientInSequence ==
    ASSUME Calling, Keeping, SInv, FInv, NEW c \in Clients, Client(c)
    PROVE  InSequence'
<1> DEFINE Used == joined \/ session \/ \E d \in Clients : pc[d] = "tx"
<1>1. /\ msgid \in Nat /\ net.last \in [Kinds -> Int] /\ net.session \in Kinds
      /\ net.last["abp"] \in Int /\ net.last["otaa"] \in Int
  BY DEF Calling, CallsCount, FInv, Nets, Kinds
<1>2. CASE JoinStart(c)
  <2>1. /\ pc[c] = "join" /\ msgid' = 0 /\ net'.session = net.session
        /\ net'.last["abp"] = -1 /\ net'.last["otaa"] = net.last["otaa"]
    BY <1>1, <1>2, ClientNet DEF JoinStart, Kinds
  <2>2. ~session /\ (joined /\ net.session = "otaa" => net.last["otaa"] <= 0)
    BY <2>1 DEF FInv, InSequence
  <2>3. joined' = joined /\ ~session' /\ \A d \in Clients : pc'[d] \notin {"tx", "join"}
    <3>1. session' = session
      BY <1>2 DEF JoinStart
    <3> QED BY <1>2, <2>2, <3>1, ClientGoes
  <2> QED BY <2>1, <2>2, <2>3 DEF InSequence
<1>3. CASE TxCheck(c)
  <2>1. /\ session' = (session \/ ~MustJoin) /\ CanTx /\ owner = None
    BY <1>3 DEF TxCheck, Locks
  <2>2. /\ net'.last = net.last /\ msgid' = msgid /\ joined' = joined
        /\ net'.session = IF ~MustJoin /\ ~session THEN "abp" ELSE net.session
    <3>1. ~JoinStart(c) /\ ~TxStart(c)
      BY <1>3 DEF TxCheck, JoinStart, TxStart, Locks
    <3> QED BY <1>3, <3>1, ClientNet, ClientGoes
  <2>3. \A d \in Clients : pc'[d] # "join"
    <3>1. ~JoinCheck(c)
      BY <1>3 DEF TxCheck, JoinCheck, Locks
    <3>2. \A d \in Clients : pc[d] # "join"
      BY <2>1, LoraAssumption DEF Calling
    <3> QED BY <3>1, <3>2, ClientGoes
  <2>4. net'.session = "otaa" => net'.last["otaa"] <= msgid'
    <3>1. CASE joined \/ session
      BY <2>2, <3>1 DEF FInv, InSequence
    <3>2. CASE ~joined /\ ~session
      BY <2>1, <2>2, <3>2 DEF CanTx
    <3> QED BY <3>1, <3>2
  <2> QED BY <2>2, <2>3, <2>4 DEF FInv, InSequence
<1>4. CASE ~JoinStart(c) /\ ~TxCheck(c)
  <2>1. /\ net'.last = net.last /\ net'.session = net.session /\ joined' = joined
        /\ session' = session /\ msgid' \in {msgid, msgid + 1}
    BY <1>4, ClientNet, ClientGoes
  <2>2. msgid <= msgid' /\ msgid' \in Nat
    BY <1>1, <2>1
  <2>3. \A d \in Clients : pc'[d] = "tx" => pc[d] = "tx"
    BY <1>4, ClientGoes
  <2>4. ASSUME NEW d \in Clients, pc'[d] = "join"
        PROVE  ~session' /\ (joined' /\ net'.session = "otaa" => net'.last["otaa"] <= 0)
    <3>1. CASE pc[d] = "join"
      BY <2>1, <3>1 DEF FInv, InSequence
    <3>2. CASE JoinCheck(c)
      BY <2>1, <3>2 DEF JoinCheck, FInv, InSession
    <3> QED BY <2>4, <3>1, <3>2, ClientGoes
  <2>5. /\ net'.last["abp"] <= msgid'
        /\ net'.session = "otaa" /\ (joined' \/ session' \/ \E d \in Clients : pc'[d] = "tx")
             => net'.last["otaa"] <= msgid'
    <3>1. net.last["abp"] <= msgid
          /\ (net.session = "otaa" /\ Used => net.last["otaa"] <= msgid)
      BY DEF FInv, InSequence
    <3> QED BY <1>1, <2>1, <2>2, <2>3, <3>1
  <2> QED BY <2>4, <2>5 DEF InSequence
<1> QED BY <1>2, <1>3, <1>4

LEMMA ClientFrames ==
    ASSUME Calling, Keeping, SInv, FInv, NEW c \in Clients, Client(c)
    PROVE  FInv'
<1>1. OnTheAir' /\ OneSends' /\ Outcome'
  BY ClientSilence, TxStartFrames, TxEndFrames
<1>2. net' \in Nets /\ CountersAreNew'
  BY ClientNet DEF FInv, CountersAreNew
<1> QED BY <1>1, <1>2, ClientOutcome, ClientInSession, ClientInSequence DEF FInv

SameMessage(m, n) == m.msg = n.msg /\ m.conf = n.conf /\ m.full = n.full

\* A job that ends no frame leaves the message and its events alone, and what was
\* on the air.
Silent ==
    /\ net' = net /\ bits' \cap TxBits = bits \cap TxBits /\ (joined' => joined)
    /\ Framed(mac', net.last[net.session], msgid) /\ (mac.devaddr => mac'.devaddr)
    /\ "TXDATA" \in mac'.opmode =>
          "TXDATA" \in mac.opmode /\ SameMessage(mac', mac)

LEMMA SilentFrames ==
    ASSUME FInv, UNCHANGED <<clientVars, driverVars>>, Silent
    PROVE  FInv'
<1> USE DEF FInv, Silent, clientVars, driverVars
<1>1. OnTheAir'
  BY DEF OnTheAir
<1>2. OneSends'
  BY DEF OneSends, OfCall, SameMessage
<1>3. Outcome'
  BY DEF Outcome, WasSent, TxBits
<1>4. InSession' /\ InSequence'
  BY DEF InSession, InSequence, MustJoin
<1>5. OkMeansSent' /\ CountersAreNew'
  BY DEF OkMeansSent, CountersAreNew
<1> QED BY <1>1, <1>2, <1>3, <1>4, <1>5

LEMMA TaskSilence ==
    ASSUME Calling, Keeping, SInv, FInv, Task,
           ~JoinAccepted, ~Retransmit, ~NothingReceived, ~FrameReceived
    PROVE  Silent
<1> DEFINE last == net.last[net.session]
<1>0. last \in Int /\ msgid \in Int /\ Framed(mac, last, msgid) /\ mac \in Macs
  BY DEF Calling, CallsCount, Keeping, FInv, OnTheAir, Nets, Kinds
<1>1. /\ net' = net /\ bits' \cap TxBits = bits \cap TxBits /\ (joined' => joined)
  <2>1. net' = net /\ bits' \in {bits, bits \cup {"INITED"}, bits \cup {"JOIN_DENIED"}}
    BY DEF Task, InitJob, ReportJoining, ReportJoinFailed, RunEngine, Report, AnswerHalts,
       RejoinLost, JoinLost
  <2>2. joined' = FALSE \/ joined' = joined
    BY DEF Task, InitJob, ReportJoining, ReportJoinFailed, RunEngine, Report, AnswerHalts,
       RejoinLost, JoinLost
  <2>3. bits' \cap TxBits = bits \cap TxBits
    BY <2>1 DEF TxBits
  <2> QED BY <2>1, <2>2, <2>3
<1> HIDE DEF last
<1>2. CASE InitJob
  <2>1. mac'.opmode = {} /\ mac'.devaddr = FALSE
    BY <1>2, RanMac, ResetIsMac DEF InitJob, Reset
  <2>2. ~mac.devaddr
    BY <1>2 DEF InitJob, Job, SInv, Starts, NotSetUp
  <2> QED BY <1>1, <2>1, <2>2 DEF Silent, Framed, DataOnAir
<1>3. CASE ReportJoining \/ ReportJoinFailed \/ AnswerHalts
  <2>1. /\ mac'.opmode = mac.opmode /\ mac'.devaddr = mac.devaddr /\ mac'.msg = mac.msg
        /\ mac'.conf = mac.conf /\ mac'.full = mac.full
        /\ mac'.txCnt = mac.txCnt /\ mac'.seqnoUp = mac.seqnoUp
        /\ mac'.frame = mac.frame
    BY <1>0, <1>3 DEF ReportJoining, ReportJoinFailed, AnswerHalts, Ran, Macs
  <2> QED BY <1>0, <1>1, <2>1, FramedSame DEF Silent, SameMessage, last
<1>4. CASE RunEngine
  <2> DEFINE m == [mac EXCEPT !.osjob = "none"]
  <2>1. m \in Macs /\ m.opmode = mac.opmode /\ m.devaddr = mac.devaddr /\ m.msg = mac.msg
        /\ m.conf = mac.conf /\ m.full = mac.full
        /\ m.txCnt = mac.txCnt /\ m.seqnoUp = mac.seqnoUp /\ m.frame = mac.frame
    BY <1>0 DEF Macs
  <2>2. mac' = Engine(m, FALSE)
    BY <1>4 DEF RunEngine
  <2> HIDE DEF m
  <2>3. Framed(m, last, msgid)
    BY <1>0, <2>1, FramedSame
  <2>4. /\ Framed(mac', last, msgid) /\ mac'.devaddr = mac.devaddr /\ SameMessage(mac', mac)
        /\ "TXDATA" \in mac'.opmode => "TXDATA" \in mac.opmode
    BY <1>0, <2>1, <2>2, <2>3, EngineFramed, EngineIsMac DEF SameMessage
  <2> QED BY <1>1, <2>4 DEF Silent, last
<1>5. CASE Report
  <2>1. PICK late \in BOOLEAN :
           mac' = IF Engine(mac, late).dead
                  THEN [Engine(mac, late) EXCEPT !.dead = FALSE, !.opmode = @ \cup {"REJOIN"}]
                  ELSE [Engine(mac, late) EXCEPT !.task = "jobs"]
    BY <1>5 DEF Report
  <2> DEFINE m == Engine(mac, late)
  <2>2. /\ m \in Macs /\ m.devaddr = mac.devaddr /\ Framed(m, last, msgid)
        /\ SameMessage(m, mac)
        /\ "TXDATA" \in m.opmode => "TXDATA" \in mac.opmode
    BY <1>0, EngineIsMac, EngineFramed DEF SameMessage
  <2>3. mac' = [m EXCEPT !.dead = FALSE, !.opmode = @ \cup {"REJOIN"}]
           \/ mac' = [m EXCEPT !.task = "jobs"]
    BY <2>1 DEF m
  <2> HIDE DEF m
  <2>4. /\ mac'.devaddr = m.devaddr /\ SameMessage(mac', m)
        /\ mac'.txCnt = m.txCnt /\ mac'.seqnoUp = m.seqnoUp /\ mac'.frame = m.frame
        /\ mac'.opmode \in {m.opmode, m.opmode \cup {"REJOIN"}}
    BY <2>2, <2>3 DEF Macs, SameMessage
  <2>5. Framed(mac', last, msgid)
    BY <2>2, <2>4 DEF Framed, OfMessage, SameMessage, Counting, DataOnAir
  <2> QED BY <1>1, <2>2, <2>4, <2>5 DEF Silent, SameMessage, last
<1>6. CASE RejoinLost \/ JoinLost
  <2>1. mac.frame.kind = "join"
    BY <1>6 DEF RejoinLost, JoinLost, Answered
  <2>2. /\ mac'.devaddr = mac.devaddr /\ SameMessage(mac', mac)
        /\ mac'.txCnt = mac.txCnt /\ mac'.seqnoUp = mac.seqnoUp /\ mac'.frame = mac.frame
        /\ mac'.opmode \in {mac.opmode \ {"REJOIN", "TXRXPEND"}, mac.opmode \ {"TXRXPEND"}}
    <3>1. CASE RejoinLost
      <4> DEFINE m == [mac EXCEPT !.opmode = @ \ {"REJOIN", "TXRXPEND"}]
      <4>1. Ran(m, TRUE)
        BY <3>1 DEF RejoinLost
      <4>2. /\ mac'.devaddr = m.devaddr /\ mac'.msg = m.msg /\ mac'.conf = m.conf
            /\ mac'.full = m.full /\ mac'.txCnt = m.txCnt /\ mac'.seqnoUp = m.seqnoUp
            /\ mac'.frame = m.frame /\ mac'.opmode = m.opmode
        BY <1>0, <4>1 DEF Ran, Macs
      <4>3. /\ m.devaddr = mac.devaddr /\ m.msg = mac.msg /\ m.conf = mac.conf
            /\ m.full = mac.full /\ m.txCnt = mac.txCnt /\ m.seqnoUp = mac.seqnoUp
            /\ m.frame = mac.frame /\ m.opmode = mac.opmode \ {"REJOIN", "TXRXPEND"}
        BY <1>0 DEF Macs
      <4> QED BY <4>2, <4>3 DEF SameMessage
    <3>2. CASE JoinLost
      BY <1>0, <3>2 DEF JoinLost, Macs, SameMessage
    <3> QED BY <1>6, <3>1, <3>2
  <2>3. Framed(mac', last, msgid)
    BY <1>0, <2>1, <2>2 DEF Framed, OfMessage, SameMessage, Counting, DataOnAir
  <2> QED BY <1>1, <2>2, <2>3 DEF Silent, last
<1> QED BY <1>2, <1>3, <1>4, <1>5, <1>6 DEF Task

\* A session of OTAA begins, with counters that none of its frames has had.
LEMMA JoinAcceptedFrames ==
    ASSUME Calling, Keeping, FInv, JoinAccepted
    PROVE  FInv'
<1> USE DEF clientVars, driverVars
<1> DEFINE modes == mac.opmode \ {"JOINING", "REJOIN", "TXRXPEND"}
           n == [mac EXCEPT !.devaddr = TRUE, !.txCnt = 0, !.opmode = modes]
           last == [net.last EXCEPT !["otaa"] = -1]
<1>0. /\ net \in Nets /\ net.last \in [Kinds -> Int] /\ mac \in Macs /\ msgid \in Nat
      /\ "otaa" \in Kinds /\ "abp" \in Kinds /\ "otaa" # "abp"
  BY DEF FInv, Keeping, Nets, Kinds, Calling, CallsCount
<1>1. /\ UNCHANGED <<owner, pc, op, setup, band, keys, session, msgid>>
      /\ joined' = TRUE /\ bits' = bits \cup {"JOINED"}
  BY DEF JoinAccepted
<1>2. /\ net' \in Nets /\ net'.last = last /\ net'.session = "otaa" /\ net'.fresh = net.fresh
      /\ net'.sent = net.sent /\ net'.acked = net.acked
  <2>1. net' = [net EXCEPT !.session = "otaa", !.last = last]
    BY <1>0 DEF JoinAccepted, Nets
  <2>2. last \in [Kinds -> Int]
    BY <1>0
  <2> HIDE DEF last
  <2> QED BY <1>0, <2>1, <2>2 DEF Nets
<1>3. last["otaa"] = -1 /\ last["abp"] = net.last["abp"]
  BY <1>0
<1>4. Ran(JustJoined(n), TRUE)
  BY <1>0 DEF JoinAccepted, Macs
<1>5. modes \in SUBSET Modes /\ 0 \in 0 .. TxAttempts /\ 0 \in Int
  BY <1>0, FieldsAreMac
<1> HIDE DEF modes
<1>6. /\ mac'.opmode = modes /\ mac'.devaddr = TRUE /\ mac'.txCnt = 0 /\ mac'.seqnoUp = 0
      /\ SameMessage(mac', mac)
  BY <1>0, <1>4, <1>5 DEF Ran, JustJoined, Macs, SameMessage
<1>7. "TXDATA" \in modes => "TXDATA" \in mac.opmode
  BY DEF modes
<1>8. OnTheAir'
  <2>1. "TXRXPEND" \notin modes /\ "JOINING" \notin modes /\ "POLL" \notin modes
    BY DEF modes, FInv, OnTheAir, Framed
  <2>2. ~DataOnAir(mac') /\ Counting(mac', -1, msgid)
    BY <1>0, <1>6, <2>1 DEF DataOnAir, Counting
  <2>3. Framed(mac', -1, msgid)
    BY <1>6, <2>1, <2>2 DEF Framed
  <2> QED BY <1>1, <1>2, <1>3, <2>3 DEF OnTheAir
<1>9. OneSends' /\ Outcome'
  <2>1. bits' \cap TxBits = bits \cap TxBits /\ ("TX_COMPLETE" \in bits' => "TX_COMPLETE" \in bits)
    BY <1>1 DEF TxBits
  <2>2. OneSends'
    BY <1>1, <1>6, <1>7, <2>1 DEF FInv, OneSends, OfCall, SameMessage
  <2>3. Outcome'
    BY <1>1, <1>2, <2>1 DEF FInv, Outcome, WasSent
  <2> QED BY <2>2, <2>3
<1>10. InSession' /\ InSequence'
  <2>1. net'.last["otaa"] <= 0 /\ net'.last["otaa"] <= msgid /\ net'.last["abp"] = net.last["abp"]
    BY <1>0, <1>2, <1>3
  <2> QED BY <1>1, <1>6, <2>1 DEF FInv, InSession, InSequence, MustJoin
<1>11. OkMeansSent' /\ CountersAreNew'
  BY <1>1, <1>2 DEF FInv, OkMeansSent, CountersAreNew
<1> QED BY <1>2, <1>8, <1>9, <1>10, <1>11 DEF FInv

\* What was heard changes the ghost alone: the message is sent by the call that
\* waits, and the counters of both sessions stay below msgid.
LEMMA HeardFrames ==
    ASSUME Calling, Keeping, FInv, DataOnAir(mac), NEW ack \in BOOLEAN, Heard(ack),
           UNCHANGED <<clientVars, driverVars, joined>>, mac.devaddr => mac'.devaddr
    PROVE  /\ net' \in Nets /\ InSession' /\ InSequence' /\ OkMeansSent' /\ CountersAreNew'
           /\ \E c \in Clients : pc[c] = "sending" /\ OfCall(mac, c)
           /\ bits \cap TxBits = {}
<1> USE DEF clientVars, driverVars
<1>0. msgid \in Nat
  BY DEF Calling, CallsCount
<1>1. /\ net' \in Nets /\ net'.fresh /\ net'.session = net.session
      /\ net.sent \subseteq net'.sent /\ net.acked \subseteq net'.acked
      /\ \A k \in Kinds : net.last[k] <= msgid => net'.last[k] <= msgid
  BY <1>0, HeardNet
<1>2. "TXDATA" \in mac.opmode
  BY DEF FInv, OnTheAir, Framed, OfMessage
<1>3. /\ \E c \in Clients : pc[c] = "sending" /\ OfCall(mac, c)
      /\ bits \cap TxBits = {}
  BY <1>2 DEF FInv, OneSends
<1>4. InSession'
  BY DEF FInv, InSession, MustJoin
<1>5. InSequence'
  <2>1. \A c \in Clients : pc[c] # "join"
    BY <1>3 DEF Calling
  <2> QED BY <1>1, <2>1 DEF FInv, InSequence, Kinds
<1>6. OkMeansSent' /\ CountersAreNew'
  BY <1>1 DEF FInv, OkMeansSent, CountersAreNew
<1> QED BY <1>1, <1>3, <1>4, <1>5, <1>6

LEMMA RetransmitFrames ==
    ASSUME Calling, Keeping, FInv, Retransmit
    PROVE  FInv'
<1> DEFINE modes == mac.opmode \ {"TXRXPEND"}
           n == [mac EXCEPT !.txCnt = mac.txCnt + 1, !.osjob = "none", !.opmode = modes]
           last == net'.last[net'.session]
<1>0. mac \in Macs /\ msgid \in Int
  BY DEF Keeping, Calling, CallsCount
<1>1. /\ DataOnAir(mac) /\ Heard(FALSE) /\ UNCHANGED <<clientVars, driverVars, joined, bits>>
      /\ mac.txCnt \in 1 .. TxAttempts - 1
  BY DEF Retransmit, Answered, DataOnAir
<1>2. PICK late \in BOOLEAN : mac' = Engine(n, late)
  BY <1>0 DEF Retransmit, Macs
<1>3. /\ mac.txCnt + 1 \in 0 .. TxAttempts /\ mac.txCnt + 1 # 0 /\ modes \in SUBSET Modes
  BY <1>0, <1>1, FieldsAreMac, LoraAssumption
<1>4. /\ "TXDATA" \in modes /\ "TXRXPEND" \notin modes /\ "POLL" \notin modes
      /\ "JOINING" \notin modes /\ mac.devaddr /\ ~mac.full
  <2>1. mac.txCnt # 0
    BY <1>0, <1>1, FieldsAreMac
  <2> QED BY <1>1, <2>1 DEF FInv, OnTheAir, Framed, OfMessage
<1> HIDE DEF modes
<1>5. /\ n \in Macs /\ n.opmode = modes /\ n.devaddr = mac.devaddr /\ n.txCnt # 0
      /\ n.seqnoUp = mac.seqnoUp /\ SameMessage(n, mac)
  BY <1>0, <1>3 DEF Macs, SameMessage
<1> HIDE DEF n
<1>6. mac'.devaddr = mac.devaddr
  BY <1>2, <1>5, EngineIsMac
<1>7. /\ net' \in Nets /\ InSession' /\ InSequence' /\ OkMeansSent' /\ CountersAreNew'
      /\ \E c \in Clients : pc[c] = "sending" /\ OfCall(mac, c)
      /\ bits \cap TxBits = {}
  BY <1>1, <1>6, HeardFrames
<1>8. last \in Int
  BY <1>7 DEF Nets
<1>9. mac.seqnoUp - 1 <= msgid
  <2>1. mac.frame.count <= msgid /\ mac.seqnoUp = mac.frame.count + 1 /\ mac.frame.count \in Int
    BY <1>0, <1>1, FieldsAreMac DEF FInv, OnTheAir, Framed, OfMessage, Counting, Frames
  <2> QED BY <1>0, <2>1
<1> HIDE DEF last
<1>10. Framed(n, last, msgid)
  <2>1. ~DataOnAir(n)
    BY <1>4, <1>5 DEF DataOnAir
  <2>2. Counting(n, last, msgid)
    BY <1>5, <1>9, <2>1 DEF Counting
  <2> QED BY <1>4, <1>5, <2>1, <2>2 DEF Framed, SameMessage
<1>11. Framed(mac', last, msgid) /\ SameMessage(mac', mac)
  BY <1>0, <1>2, <1>5, <1>8, <1>10, EngineFramed DEF SameMessage
<1>12. OnTheAir'
  BY <1>1, <1>11 DEF OnTheAir, last, driverVars
<1>13. OneSends' /\ Outcome'
  BY <1>1, <1>7, <1>11 DEF OneSends, OfCall, SameMessage, Outcome, TxBits, clientVars
<1> QED BY <1>7, <1>12, <1>13 DEF FInv

\* A message ends with the event that says what became of it.
LEMMA CompleteFrames ==
    ASSUME Calling, Keeping, FInv, DataOnAir(mac), NEW ack \in BOOLEAN, NEW m \in Macs,
           m.opmode = mac.opmode, m.devaddr = mac.devaddr, Complete(m, ack),
           UNCHANGED <<clientVars, driverVars, joined>>
    PROVE  FInv'
<1> DEFINE modes == mac.opmode \ {"TXDATA", "TXRXPEND"}
           n == [m EXCEPT !.opmode = @ \ {"TXDATA", "TXRXPEND"}]
<1>1. modes \in SUBSET Modes
  BY FieldsAreMac DEF Keeping
<1>2. n \in Macs /\ n.opmode = modes /\ n.devaddr = mac.devaddr
  BY <1>1 DEF Macs
<1>3. Ran(n, TRUE) /\ Heard(ack)
  BY DEF Complete
<1> HIDE DEF n
<1>4. mac'.opmode = modes /\ mac'.devaddr = mac.devaddr
  BY <1>2, <1>3, RanMac
<1>5. /\ net' \in Nets /\ InSession' /\ InSequence' /\ OkMeansSent' /\ CountersAreNew'
      /\ bits \cap TxBits = {}
  BY <1>3, <1>4, HeardFrames
<1>6. PICK c \in Clients : pc[c] = "sending" /\ OfCall(mac, c)
  BY <1>3, <1>4, HeardFrames
<1>7. ~mac.full => mac.msg \in net'.sent /\ (ack => mac.msg \in net'.acked)
  BY <1>3, HeardNet DEF Calling, CallsCount
<1>8. OnTheAir'
  <2>1. mac.devaddr /\ "JOINING" \notin mac.opmode /\ "POLL" \notin mac.opmode
    BY DEF FInv, OnTheAir, Framed, OfMessage
  <2>2. /\ "POLL" \notin mac'.opmode /\ "TXDATA" \notin mac'.opmode /\ ~DataOnAir(mac')
        /\ ("JOINING" \in mac'.opmode => ~mac'.devaddr)
    BY <1>4, <2>1 DEF DataOnAir
  <2> QED BY <2>2, FramedIdle DEF OnTheAir
<1>9. OneSends'
  BY <1>4, <1>6 DEF OneSends, clientVars
<1>10. Outcome'
  <2>1. "TX_COMPLETE" \in bits' => ~mac.conf \/ ack
    BY <1>5 DEF Complete, TxBits
  <2>2. \A d \in Clients : pc[d] = "sending" => d = c
    BY <1>6 DEF Calling
  <2> QED BY <1>6, <1>7, <2>1, <2>2 DEF Outcome, OfCall, WasSent, clientVars
<1> QED BY <1>5, <1>8, <1>9, <1>10 DEF FInv

LEMMA TaskFrames ==
    ASSUME "polls" \notin Network, Calling, Keeping, SInv, FInv, Task
    PROVE  FInv'
<1> USE DEF Keeping
<1>1. UNCHANGED <<clientVars, driverVars>>
  BY DEF Task, InitJob, ReportJoining, ReportJoinFailed, RunEngine, Report,
     AnswerHalts, JoinAccepted, RejoinLost, JoinLost, Retransmit, NothingReceived, FrameReceived
<1>2. CASE NothingReceived
  <2>1. DataOnAir(mac) /\ joined' = joined
    BY <1>2 DEF NothingReceived, Answered, DataOnAir
  <2>2. PICK dead \in BOOLEAN : Complete([mac EXCEPT !.dead = dead], FALSE)
    BY <1>2 DEF NothingReceived, Macs
  <2> DEFINE m == [mac EXCEPT !.dead = dead]
  <2>3. m \in Macs /\ m.opmode = mac.opmode /\ m.devaddr = mac.devaddr
    BY DEF Macs
  <2> HIDE DEF m
  <2> QED BY <1>1, <2>1, <2>2, <2>3, CompleteFrames DEF m
<1>3. CASE FrameReceived
  <2>1. DataOnAir(mac) /\ joined' = joined
    BY <1>3 DEF FrameReceived, Answered, DataOnAir
  <2>2. PICK ack \in BOOLEAN : Complete([mac EXCEPT !.opmode = @], ack)
    BY <1>3 DEF FrameReceived, Macs, Frames
  <2>3. [mac EXCEPT !.opmode = @] = mac
    BY DEF Macs
  <2> QED BY <1>1, <2>1, <2>2, <2>3, CompleteFrames
<1>4. CASE ~JoinAccepted /\ ~Retransmit /\ ~NothingReceived /\ ~FrameReceived
  BY <1>1, <1>4, TaskSilence, SilentFrames
<1> QED BY <1>2, <1>3, <1>4, JoinAcceptedFrames, RetransmitFrames

LEMMA FrameStep ==
    ASSUME "polls" \notin Network, Calling, Keeping, SInv, FInv, [Next]_vars
    PROVE  FInv'
<1> USE DEF driverVars
<1>1. ASSUME NEW c \in Clients, Begin(c) PROVE FInv'
  <2>1. /\ pc[c] = "idle" /\ pc' = [pc EXCEPT ![c] = "lock"]
        /\ UNCHANGED <<keys, joined, session, msgid, bits, mac, net>>
    BY <1>1 DEF Begin, Go
  <2>2. /\ \A d \in Clients : d # c => op'[d] = op[d]
        /\ op'[c].ok = FALSE
    BY <1>1 DEF Begin, Calling, CallsAreKind
  <2>3. \A d \in Clients : pc'[d] = IF d = c THEN "lock" ELSE pc[d]
    BY <2>1 DEF Calling
  <2>4. OnTheAir' /\ InSession' /\ InSequence' /\ CountersAreNew'
    BY <2>1, <2>3 DEF FInv, OnTheAir, InSession, InSequence, CountersAreNew, MustJoin
  <2>5. OneSends' /\ Outcome'
    BY <2>1, <2>2, <2>3 DEF FInv, OneSends, OfCall, Outcome, WasSent
  <2>6. OkMeansSent'
    BY <2>1, <2>2 DEF FInv, OkMeansSent
  <2> QED BY <2>1, <2>4, <2>5, <2>6 DEF FInv
<1>2. ASSUME NEW c \in Clients, DeepSleep(c) PROVE FInv'
  <2>1. /\ mac'.opmode = {} /\ bits' = {} /\ ~joined' /\ ~session'
        /\ \A d \in Clients : pc'[d] = "idle" /\ op'[d].ok = FALSE
        /\ UNCHANGED <<msgid, net>>
    BY <1>2 DEF DeepSleep, Reset, NoCall
  <2>2. OnTheAir'
    BY <2>1 DEF OnTheAir, Framed, DataOnAir
  <2> QED BY <2>1, <2>2 DEF FInv, OneSends, Outcome, InSession, InSequence, OkMeansSent,
          CountersAreNew
<1>3. CASE UNCHANGED vars
  BY <1>3 DEF vars, FInv, OnTheAir, OneSends, OfCall, Outcome, WasSent, InSession, InSequence, MustJoin,
     OkMeansSent, CountersAreNew
<1> QED BY <1>1, <1>2, <1>3, ClientFrames, TaskFrames DEF Next

(***************************************************************************)
(* The theorems                                                            *)
(***************************************************************************)
LEMMA InitInv == Init => Calling /\ Keeping /\ SInv
<1> SUFFICES ASSUME Init PROVE Calling /\ Keeping /\ SInv
  OBVIOUS
<1>1. NoCall \in CallTypes /\ NoCall.call = "none" /\ NoCall.ok = FALSE
  BY DEF NoCall, CallTypes
<1>2. \A c \in Clients : op[c] = NoCall /\ pc[c] = "idle"
  BY DEF Init
<1>3. Starting = {}
  BY <1>2 DEF Starting
<1>4. CallsCount
  BY <1>3, FS_EmptySet, LoraAssumption DEF Init, CallsCount
<1>5. Calling
  BY <1>1, <1>2, <1>4 DEF Init, Calling, CallsAreKind, Places
<1>6. Keeping
  BY ResetIsMac DEF Init, Keeping
<1>7. SInv
  BY <1>1, <1>2 DEF Init, Reset, SInv, NotSetUp, Starts, Sessions, JoinedHasSession
<1> QED BY <1>5, <1>6, <1>7

LEMMA Invariance == Spec => [](Calling /\ Keeping /\ SInv)
<1>1. Calling /\ Keeping /\ SInv /\ [Next]_vars => (Calling /\ Keeping /\ SInv)'
  BY CallingStep, KeepingStep, SessionStep
<1> QED BY <1>1, InitInv, PTL DEF Spec

\* The variables of lora_lmic.c and LMIC keep their types, and a call that waits
\* for an event of the MAC keeps lora_mtx, so that one call at a time waits.
THEOREM LoraTypes == Spec => []TypeOK
  BY Invariance, TypesOK, PTL

\* When lora_join returned no error (nor lost one for want of memory), and while
\* joined says so, LMIC has a session:
\* no later event, rejoin, setup or sleep of one client leaves another with the
\* word of a join and no session.
THEOREM JoinsHaveSessions == Spec => []JoinedHasSession
<1>1. SInv => JoinedHasSession
  BY DEF SInv
<1> QED BY <1>1, Invariance, PTL

LEMMA InitFrames == Init => FInv
<1> SUFFICES ASSUME Init PROVE FInv
  OBVIOUS
<1>1. /\ mac.opmode = {} /\ bits = {} /\ msgid = 0 /\ ~joined /\ ~session
      /\ \A c \in Clients : pc[c] = "idle" /\ op[c].ok = FALSE
  BY DEF Init, Reset, NoCall
<1>2. /\ net = [sent |-> {}, acked |-> {}, fresh |-> TRUE, session |-> "otaa",
                last |-> [s \in Kinds |-> -1]]
  BY DEF Init, Kinds
<1>3. net \in Nets /\ net.last["abp"] = -1
  <2> DEFINE last == [s \in Kinds |-> -1]
  <2>1. last \in [Kinds -> Int] /\ last["abp"] = -1 /\ "otaa" \in Kinds
    BY DEF Kinds
  <2>2. net = [sent |-> {}, acked |-> {}, fresh |-> TRUE, session |-> "otaa", last |-> last]
    BY <1>2
  <2> HIDE DEF last
  <2> QED BY <2>1, <2>2 DEF Nets
<1>4. OnTheAir
  BY <1>1 DEF OnTheAir, Framed, DataOnAir
<1>5. InSequence
  BY <1>1, <1>3 DEF InSequence
<1> QED BY <1>1, <1>2, <1>3, <1>4, <1>5 DEF FInv, OneSends, Outcome, InSession, OkMeansSent,
        CountersAreNew

LEMMA FrameInvariance == "polls" \notin Network => (Spec => []FInv)
<1> SUFFICES ASSUME "polls" \notin Network PROVE Spec => []FInv
  OBVIOUS
<1>1. (Calling /\ Keeping /\ SInv) /\ FInv /\ [Next]_vars => FInv'
  BY FrameStep
<1> QED BY <1>1, InitFrames, Invariance, PTL DEF Spec

\* A message that fits its frame, and for which lora_tx returned no error (nor lost
\* one for want of memory), was on the air, and acknowledged if that was asked for,
\* whatever rejoins, lost frames, deep sleeps and other calls came between, as long
\* as no answer asks for another frame: that the network does so is what the
\* hypothesis excludes, and what run lora_polled refutes it with.
THEOREM OkMessagesWereSent == "polls" \notin Network => (Spec => []OkMeansSent)
<1>1. FInv => OkMeansSent
  BY DEF FInv
<1> QED BY <1>1, FrameInvariance, PTL

\* No frame but a retransmission has a counter that its session has used, also when
\* sessions of OTAA and ABP follow each other and deep sleeps and rejoins come
\* between (those of ABP: since the last lora_join).  A frame the network asked for
\* takes a counter that msgid does not know of, so the same hypothesis is needed.
THEOREM FrameCountersAreNew == "polls" \notin Network => (Spec => []CountersAreNew)
<1>1. FInv => CountersAreNew
  BY DEF FInv
<1> QED BY <1>1, FrameInvariance, PTL
=============================================================================
