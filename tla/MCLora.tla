------------------------------- MODULE MCLora -------------------------------
(* Lora for TLC: the keys that a program sets; bands differ in their names only. *)
EXTENDS Lora, TLC
CONSTANTS c1, c2
OtherBands == Permutations(Bands)
MCOtaa == {"APPEUI", "DEVEUI", "APPKEY"}
MCAbp == {"DEVADDR", "APPSKEY"}
MCAll == MCOtaa \cup MCAbp \cup {"LINKCHK_OFF"}
=============================================================================
