--------------------------- MODULE MCPthreadSync ---------------------------
(***************************************************************************)
(* PthreadSync for TLC.  Threads that only lock, that wait for a condition *)
(* and that call pthread_once share no state but the ends of threads, so a *)
(* behaviour has one kind of program; the threads are interchangeable.     *)
(***************************************************************************)
EXTENDS PthreadSync, TLC

VARIABLE program

Symmetry == Permutations(Tasks)

MCInit == Init /\ program \in {"locks", "waits", "once"}

Step(t) ==
    \/ program = "locks" /\ Mutex(t)
    \/ program = "waits" /\ (Lock(t, CondMutex) \/ Unlock(t, CondMutex) \/ Cond(t))
    \/ program = "once" /\ Once(t)
    \/ Ending(t)

MCNext == UNCHANGED program /\ \E t \in Tasks : Step(t)

MCSpec == MCInit /\ [][MCNext]_<<vars, program>>
=============================================================================
