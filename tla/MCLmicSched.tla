---------------------------- MODULE MCLmicSched ----------------------------
(* LmicSched for TLC: the builds with one core, and with the two of Kconfig. *)
EXTENDS LmicSched, TLC
CONSTANTS lua, dio
MCOthers == {lua, dio}
OneCore == [a \in Actors |-> 0]
TwoCores == [a \in Actors |-> IF a = Loop THEN 1 ELSE 0]
\* An interrupt handler runs before any task, the run loop before the caller.
MCPriority == [a \in Actors |-> IF a = dio THEN 3 ELSE IF a = Loop THEN 2 ELSE 1]
MCCalls == [a \in Actors |-> IF a = dio THEN {"set"} ELSE Kinds]
=============================================================================
