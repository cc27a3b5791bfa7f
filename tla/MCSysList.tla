----------------------------- MODULE MCSysList -----------------------------
(* SysList for TLC: tasks and items are interchangeable. *)
EXTENDS SysList, TLC
Symmetry == Permutations(Tasks) \cup Permutations(Items)
=============================================================================
