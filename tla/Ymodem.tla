------------------------------- MODULE Ymodem -------------------------------
(***************************************************************************)
(* A file sent with Ymodem_Transmit and received with Ymodem_Receive,      *)
(* Lua/common/ymodem.c, over a serial line that loses and garbles what it  *)
(* carries but keeps its order.                                            *)
(*                                                                         *)
(* A message is a packet, the pair of CA bytes, or one byte.  A garbled    *)
(* packet fails its CRC; a garbled byte is none that the other side knows. *)
(* A wait times out when nothing has come, however long that takes.        *)
(***************************************************************************)
EXTENDS Integers, Sequences

CONSTANTS
    Blocks,      \* data packets of the file
    MAX_ERRORS,  \* timeouts in a row that a receiver bears, and a sender first
    NakErrors    \* bad packets in a row that it bears

VARIABLES
    sender,     \* what Ymodem_Transmit waits for
    sent,       \* the packet it sent last
    tries,      \* err of its first loop
    toReceiver, toSender,  \* the two directions of the line
    receiver,   \* whether Ymodem_Receive runs, and how it ended
    packets_received, errors, eof_cnt,
    written     \* the blocks in the receiver's file

senderVars == <<sender, sent, tries>>
receiverVars == <<receiver, packets_received, errors, eof_cnt, written>>
vars == <<senderVars, toReceiver, toSender, receiverVars>>

Init ==
    /\ sender = "hello" /\ sent = 0 /\ tries = 0
    /\ toReceiver = << >> /\ toSender = << >>
    /\ receiver = "runs"
    /\ packets_received = 0 /\ errors = 0 /\ eof_cnt = 0
    /\ written = << >>

Byte(b) == <<b, 0>>
Packet(n) == <<"packet", n>>
Last == <<"last", 0>>
Bad == <<"bad", 0>>

\* What may arrive of a message, and of two.
Arrivals(m) == {<<m>>, << >>, <<IF m[1] \in {"packet", "last"} THEN Bad ELSE Byte("junk")>>}
Answer(m) == \E a \in Arrivals(m) : toSender' = toSender \o a
AnswerTwo(m, n) == \E a \in Arrivals(m), b \in Arrivals(n) : toSender' = toSender \o a \o b
Transmit(m) == \E a \in Arrivals(m) : toReceiver' = toReceiver \o a

(***************************************************************************)
(* Ymodem_Transmit                                                         *)
(***************************************************************************)
Sends(m, place) == Transmit(m) /\ sender' = place

\* The loop that asks for a receiver: the byte it gets must be a 'C'.
HelloAgain ==
    /\ sender = "hello" /\ toSender = << >>
    /\ tries < MAX_ERRORS
    /\ tries' = tries + 1
    /\ Sends(Byte("C"), "hello")
    /\ UNCHANGED <<sent, toSender, receiverVars>>

\* One answer of Ymodem_WaitResponse; it answers CA with CA itself.
Response(m, waited) ==
    CASE m = waited -> "got"
      [] m # waited /\ m = Byte("NAK") -> "again"
      [] OTHER -> "fail"

Waited ==
    IF sender \in {"hello", "nameC", "eotC"} THEN Byte("C") ELSE Byte("ACK")

\* The next step after what it waited for.
Proceed ==
    CASE sender = "hello" -> Sends(Packet(0), "name") /\ sent' = 0
      [] sender = "name" -> sender' = "nameC" /\ UNCHANGED <<sent, toReceiver>>
      [] sender = "nameC" -> Sends(Packet(1), "block") /\ sent' = 1
      [] sender = "block" /\ sent < Blocks -> Sends(Packet(sent + 1), "block") /\ sent' = sent + 1
      [] sender = "block" /\ sent = Blocks -> Sends(Byte("EOT"), "eot") /\ UNCHANGED sent
      [] sender = "eot" -> sender' = "eotC" /\ UNCHANGED <<sent, toReceiver>>
      [] sender = "eotC" -> Sends(Last, "last") /\ UNCHANGED sent
      [] sender = "last" -> sender' = "done" /\ UNCHANGED <<sent, toReceiver>>

\* NAK: the packet or the EOT is sent again, without a limit of its own.
Resend ==
    CASE sender \in {"name", "block"} -> Sends(Packet(sent), sender)
      [] sender = "eot" -> Sends(Byte("EOT"), sender)
      [] sender = "last" -> Sends(Last, sender)
      [] OTHER -> Sends(Byte("CA"), "failed")

SenderReads ==
    /\ sender \notin {"done", "failed"} /\ toSender # << >>
    /\ toSender' = Tail(toSender)
    /\ LET response == Response(Head(toSender), Waited) IN
          \/ response = "got" /\ Proceed
          \/ response = "again" /\ Resend /\ UNCHANGED sent
          \/ response = "fail" /\ Sends(Byte("CA"), "failed") /\ UNCHANGED sent
    /\ UNCHANGED <<tries, receiverVars>>

\* Nothing came in all of its timeouts.
SenderTimeout ==
    /\ sender \notin {"done", "failed"} /\ toSender = << >>
    /\ sender = "hello" => tries = MAX_ERRORS
    /\ Sends(Byte("CA"), "failed")
    /\ UNCHANGED <<sent, tries, toSender, receiverVars>>

(***************************************************************************)
(* Ymodem_Receive                                                          *)
(***************************************************************************)
Ends(how) == receiver' = how /\ UNCHANGED <<packets_received, errors, eof_cnt, written>>

\* An error: a NAK, or CA after too many.
Refuse ==
    IF errors < NakErrors
    THEN /\ errors' = errors + 1 /\ Answer(Byte("NAK"))
         /\ UNCHANGED <<receiver, packets_received, eof_cnt, written>>
    ELSE Ends("failed") /\ Answer(Byte("CA"))

\* The first EOT is refused, another one ends the file.
Eot ==
    /\ eof_cnt' = IF eof_cnt < 2 THEN eof_cnt + 1 ELSE eof_cnt
    /\ IF eof_cnt = 0 THEN Answer(Byte("NAK")) ELSE AnswerTwo(Byte("ACK"), Byte("C"))
    /\ UNCHANGED <<receiver, packets_received, errors, written>>

\* The size in the name packet is refused, or taken.
Name ==
    \/ Ends("failed") /\ Answer(Byte("CA"))
    \/ /\ packets_received' = 1 /\ errors' = 0
       /\ AnswerTwo(Byte("ACK"), Byte("C"))
       /\ UNCHANGED <<receiver, eof_cnt, written>>

\* A block is written, or fwrite fails.
Block(n) ==
    \/ Ends("failed") /\ Answer(Byte("CA"))
    \/ /\ written' = Append(written, n)
       /\ packets_received' = packets_received + 1 /\ errors' = 0
       /\ Answer(Byte("ACK"))
       /\ UNCHANGED <<receiver, eof_cnt>>

\* A packet with a good CRC: the number must be the one that is due.  The last
\* packet of a session, which has no name, comes only after the second EOT.
Numbered(n) ==
    CASE eof_cnt > 1 -> Answer(Byte("ACK")) /\ UNCHANGED receiverVars
      [] eof_cnt <= 1 /\ n # packets_received -> Refuse
      [] eof_cnt <= 1 /\ n = packets_received -> IF n = 0 THEN Name ELSE Block(n)

\* A timeout, or bytes that are no packet: another 'C', unless the file is
\* over or too many of them have come.
Timeout_Waits ==
    CASE eof_cnt > 1 -> UNCHANGED <<receiverVars, toSender>>
      [] eof_cnt <= 1 /\ errors < MAX_ERRORS ->
            /\ errors' = errors + 1 /\ Answer(Byte("C"))
            /\ UNCHANGED <<receiver, packets_received, eof_cnt, written>>
      [] OTHER -> Ends("failed") /\ Answer(Byte("CA"))
Timeout ==
    CASE eof_cnt > 1 -> Ends("file") /\ UNCHANGED toSender
      [] eof_cnt <= 1 /\ errors < MAX_ERRORS ->
            /\ errors' = errors + 1 /\ Answer(Byte("C"))
            /\ UNCHANGED <<receiver, packets_received, eof_cnt, written>>
      [] OTHER -> Ends("failed") /\ Answer(Byte("CA"))

\* Receive_Packet and the switch over what it returns.  After a byte it does
\* not know it drops all that has come (uart_consume).
Receive_NoCrc(m) ==
    CASE m[1] \in {"packet", "last"} -> Numbered(m[2])
      [] m = Bad -> IF packets_received = 0 THEN Refuse ELSE Block(0)
      [] m = Byte("EOT") -> Eot
      [] m = Byte("CA") -> Ends("failed") /\ Answer(Byte("ACK"))
      [] OTHER -> Timeout
Receive(m) ==
    CASE m[1] \in {"packet", "last"} -> Numbered(m[2])
      [] m = Bad -> Refuse
      [] m = Byte("EOT") -> Eot
      [] m = Byte("CA") -> Ends("failed") /\ Answer(Byte("ACK"))
      [] OTHER -> Timeout

Known(m) == m[1] \in {"packet", "last", "bad", "EOT", "CA"}

ReceiverReads ==
    /\ receiver = "runs" /\ toReceiver # << >>
    /\ toReceiver' = IF Known(Head(toReceiver)) THEN Tail(toReceiver) ELSE << >>
    /\ Receive(Head(toReceiver))
    /\ UNCHANGED senderVars

ReceiverTimeout ==
    /\ receiver = "runs" /\ toReceiver = << >>
    /\ Timeout
    /\ UNCHANGED <<senderVars, toReceiver>>

\* The user types an abort byte.
UserAborts ==
    /\ receiver = "runs" /\ toReceiver = << >>
    /\ Ends("failed") /\ Answer(Byte("CA"))
    /\ UNCHANGED <<senderVars, toReceiver>>

Sending == HelloAgain \/ SenderReads \/ SenderTimeout
Receiving == ReceiverReads \/ ReceiverTimeout

Next == Sending \/ Receiving \/ UserAborts

\* What the line carries to the receiver and to the sender.
Messages == {Byte(b) : b \in {"C", "junk", "EOT", "CA"}} \cup {Bad, Last}
            \cup {Packet(n) : n \in 0 .. Blocks}
Answers == {Byte(b) : b \in {"C", "junk", "ACK", "NAK", "CA"}}

TypeOK ==
    /\ sender \in {"hello", "name", "nameC", "block", "eot", "eotC", "last", "done", "failed"}
    /\ sent \in 0 .. Blocks /\ tries \in 0 .. MAX_ERRORS
    /\ toReceiver \in Seq(Messages) /\ toSender \in Seq(Answers)
    /\ receiver \in {"runs", "file", "failed"}
    /\ packets_received \in 0 .. Blocks + 1 /\ eof_cnt \in 0 .. 2
    /\ errors \in Nat
    /\ written \in Seq(1 .. Blocks)

\* Whatever the line loses and garbles, the receiver's file is a beginning of
\* the sender's, without a block twice or a bad one; it is all of it when either
\* side reports success.
TransferIsWhole ==
    /\ written = [i \in 1 .. Len(written) |-> i]
    /\ sender = "done" \/ receiver = "file" => Len(written) = Blocks

\* Both calls return, whatever the line does: a sender that sends again for every
\* NAK and a receiver that starts its count again for every block.
TransferEnds == <>(sender \in {"done", "failed"} /\ receiver # "runs")
=============================================================================
