---------------------------- MODULE PthreadJoin ----------------------------
(***************************************************************************)
(* The life of a thread in pthread/pthread.c: _pthread_create and its      *)
(* handshake with the new pthreadTask, _pthread_join, _pthread_free.       *)
(*                                                                         *)
(* thread_list is a table of handles (HandleTable, which sys/list.c        *)
(* implements): a handle is used again for another thread.  A thread is    *)
(* its structure: callers get its address from thread_list and use it in   *)
(* later steps, when it may have been freed.  What a caller then does with *)
(* freed memory is not followed further: it may block for ever.            *)
(*                                                                         *)
(* Threads are created to run, none is created suspended; the clean list   *)
(* and the signals are left out, and so are the failures of malloc.  What  *)
(* _pthread_free does to mutexes, and thread.stop, are in PthreadSync.     *)
(***************************************************************************)
EXTENDS Integers, Sequences, FiniteSets

CONSTANTS
    Clients,  \* tasks that create and join threads
    Threads,  \* thread structures; each is allocated once
    Ids,      \* handles that thread_list gives
    None,     \* no thread
    MaxJoins  \* bound: entries of a join_list

ASSUME PthreadJoinAssumption == 
    None \notin Threads /\ Ids \subseteq Nat /\ MaxJoins \in Nat

VARIABLES
    thread_list,  \* the threads by handle: a partial function
    phase,        \* where pthreadTask of each thread is
    init_mtx,     \* count of the semaphore of each thread's init_mtx
    tcb,          \* the threads that set their Lua RTOS parts of the TCB
    join_list,    \* the clients in each thread's join_list
    informed,     \* how many entries of it pthreadTask has informed
    queue,        \* whether the queue of each client's join holds a message
    pc,           \* where each client is
    ptr           \* the thread whose structure a client uses

vars == <<thread_list, phase, init_mtx, tcb, join_list, informed,
          queue, pc, ptr>>
threadVars == <<phase, init_mtx, tcb, join_list, informed>>

Init ==
    /\ thread_list = [i \in {} |-> None]
    /\ phase = [th \in Threads |-> "unborn"]
    /\ init_mtx = [th \in Threads |-> 0]
    /\ tcb = {}
    /\ join_list = [th \in Threads |-> << >>]
    /\ informed = [th \in Threads |-> 0]
    /\ queue = [c \in Clients |-> FALSE]
    /\ pc = [c \in Clients |-> "idle"]
    /\ ptr = [c \in Clients |-> None]

Go(c, where) == pc' = [pc EXCEPT ![c] = where]
Done(c) == Go(c, "idle") /\ ptr' = [ptr EXCEPT ![c] = None]

Freed(th) == phase[th] = "gone"
IdOf(th) == CHOOSE i \in DOMAIN thread_list : thread_list[i] = th
Unlist_Clears(th) == thread_list' = [thread_list EXCEPT ![IdOf(th)] = None]
Unlist(th) == thread_list' = [i \in DOMAIN thread_list \ {IdOf(th)} |-> thread_list[i]]

(***************************************************************************)
(* _pthread_create                                                         *)
(***************************************************************************)
\* The structure is allocated and added, and its init_mtx is locked.
CreateThread_Unlocked(c, th, i) ==
    /\ pc[c] = "idle" /\ phase[th] = "unborn" /\ i \notin DOMAIN thread_list
    /\ thread_list' = [k \in DOMAIN thread_list \cup {i} |->
                          IF k = i THEN th ELSE thread_list[k]]
    /\ phase' = [phase EXCEPT ![th] = "listed"]
    /\ init_mtx' = [init_mtx EXCEPT ![th] = 1]
    /\ ptr' = [ptr EXCEPT ![c] = th]
    /\ Go(c, "create")
    /\ UNCHANGED <<tcb, join_list, informed, queue>>
CreateThread(c, th, i) ==
    /\ pc[c] = "idle" /\ phase[th] = "unborn" /\ i \notin DOMAIN thread_list
    /\ thread_list' = [k \in DOMAIN thread_list \cup {i} |->
                          IF k = i THEN th ELSE thread_list[k]]
    /\ phase' = [phase EXCEPT ![th] = "listed"]
    /\ ptr' = [ptr EXCEPT ![c] = th]
    /\ Go(c, "create")
    /\ UNCHANGED <<init_mtx, tcb, join_list, informed, queue>>

\* xTaskCreate succeeds, or fails and the thread is removed again: list_remove
\* frees its structure, and so does the free after it.  What the second does to
\* the heap is not followed.
CreateTask(c) ==
    /\ pc[c] = "create"
    /\ phase' = [phase EXCEPT ![ptr[c]] = "born"]
    /\ Go(c, "handshake")
    /\ UNCHANGED <<thread_list, init_mtx, tcb, join_list, informed,
                   queue, ptr>>

CreateFails(c) ==
    /\ pc[c] = "create"
    /\ phase' = [phase EXCEPT ![ptr[c]] = "gone"]
    /\ Unlist(ptr[c])
    /\ Done(c)
    /\ UNCHANGED <<init_mtx, tcb, join_list, informed, queue>>

\* The second mtx_lock of init_mtx.  When the thread has come to its end and
\* freed the structure, the lock may also be found deleted.
CreateWait(c) ==
    /\ pc[c] = "handshake"
    /\ init_mtx[ptr[c]] = 1 \/ Freed(ptr[c])
    /\ init_mtx' = [init_mtx EXCEPT ![ptr[c]] = 0]
    /\ Go(c, "store")
    /\ UNCHANGED <<thread_list, phase, tcb, join_list, informed, queue, ptr>>

\* thread->task = xCreatedTask, which nothing here reads, and the return.
CreateStore(c) ==
    /\ pc[c] = "store"
    /\ Done(c)
    /\ UNCHANGED <<thread_list, phase, init_mtx, tcb, join_list, informed, queue>>

(***************************************************************************)
(* pthreadTask                                                             *)
(***************************************************************************)
SetTcb(th) ==
    /\ phase[th] = "born"
    /\ tcb' = tcb \cup {th}
    /\ phase' = [phase EXCEPT ![th] = "set"]
    /\ UNCHANGED <<thread_list, init_mtx, join_list, informed, queue,
                   pc, ptr>>

UnlockParent(th) ==
    /\ phase[th] = "set"
    /\ init_mtx' = [init_mtx EXCEPT ![th] = 1]
    /\ phase' = [phase EXCEPT ![th] = "running"]
    /\ UNCHANGED <<thread_list, tcb, join_list, informed, queue, pc, ptr>>

\* The start function returns: the loop over join_list begins.
Return(th) ==
    /\ phase[th] = "running"
    /\ phase' = [phase EXCEPT ![th] = "inform"]
    /\ UNCHANGED <<thread_list, init_mtx, tcb, join_list, informed,
                   queue, pc, ptr>>

\* The next entry is informed; xQueueSend waits for room in its queue.
Inform_Again(th) ==
    /\ phase[th] = "inform"
    /\ informed[th] < Len(join_list[th])
    /\ ~queue[join_list[th][informed[th] + 1]]
    /\ queue' = [queue EXCEPT ![join_list[th][informed[th] + 1]] = TRUE]
    /\ UNCHANGED <<thread_list, phase, init_mtx, tcb, join_list,
                   informed, pc, ptr>>
Inform(th) ==
    /\ phase[th] = "inform"
    /\ informed[th] < Len(join_list[th])
    /\ ~queue[join_list[th][informed[th] + 1]]
    /\ queue' = [queue EXCEPT ![join_list[th][informed[th] + 1]] = TRUE]
    /\ informed' = [informed EXCEPT ![th] = @ + 1]
    /\ UNCHANGED <<thread_list, phase, init_mtx, tcb, join_list, pc, ptr>>

\* The loop has met every entry: the clean list is executed.
Clean(th) ==
    /\ phase[th] = "inform"
    /\ informed[th] = Len(join_list[th])
    /\ phase' = [phase EXCEPT ![th] = "clean"]
    /\ UNCHANGED <<thread_list, init_mtx, tcb, join_list, informed, queue, pc, ptr>>

\* _pthread_free: the lists and init_mtx are destroyed.
Destroy(th) ==
    /\ phase[th] = "clean"
    /\ phase' = [phase EXCEPT ![th] = "destroyed"]
    /\ UNCHANGED <<thread_list, init_mtx, tcb, join_list, informed, queue, pc, ptr>>

\* list_remove frees the structure; the task ends.
Remove_KeepsEntry(th) ==
    /\ phase[th] = "destroyed"
    /\ phase' = [phase EXCEPT ![th] = "gone"]
    /\ UNCHANGED <<thread_list, init_mtx, tcb, join_list, informed,
                   queue, pc, ptr>>
Remove(th) ==
    /\ phase[th] = "destroyed"
    /\ phase' = [phase EXCEPT ![th] = "gone"]
    /\ Unlist(th)
    /\ UNCHANGED <<init_mtx, tcb, join_list, informed, queue, pc, ptr>>

(***************************************************************************)
(* _pthread_join                                                           *)
(***************************************************************************)
\* list_get: the address of the structure, or EINVAL.
JoinGet(c, i) ==
    /\ pc[c] = "idle"
    /\ i \in DOMAIN thread_list
    /\ Len(join_list[thread_list[i]]) < MaxJoins
    /\ ptr' = [ptr EXCEPT ![c] = thread_list[i]]
    /\ Go(c, "join")
    /\ UNCHANGED <<thread_list, threadVars, queue>>

\* list_add to the thread's join_list, as long as it is there.
JoinAdd_NotOnList(c) ==
    /\ pc[c] = "join"
    /\ phase[ptr[c]] \notin {"destroyed", "gone"}
    /\ Go(c, "added")
    /\ UNCHANGED <<thread_list, phase, init_mtx, tcb, join_list, informed, queue, ptr>>
JoinAdd(c) ==
    /\ pc[c] = "join"
    /\ phase[ptr[c]] \notin {"destroyed", "gone"}
    /\ join_list' = [join_list EXCEPT ![ptr[c]] = Append(@, c)]
    /\ Go(c, "added")
    /\ UNCHANGED <<thread_list, phase, init_mtx, tcb, informed, queue, ptr>>

\* The list is gone: its lock is waited for, or the entry written, in memory
\* that is not the list's any more, and nobody will inform the entry.
JoinAddLost(c) ==
    /\ pc[c] = "join"
    /\ phase[ptr[c]] \in {"destroyed", "gone"}
    /\ Go(c, "lost")
    /\ UNCHANGED <<thread_list, threadVars, queue, ptr>>

\* The read of join->queue.  Once the thread has destroyed its list, join is freed
\* memory: the handle may still be there, or something else.
JoinWait(c) ==
    /\ pc[c] = "added"
    /\ Go(c, "wait")
    /\ UNCHANGED <<thread_list, threadVars, queue, ptr>>
JoinWaitLost(c) ==
    /\ pc[c] = "added"
    /\ phase[ptr[c]] \in {"destroyed", "gone"}
    /\ Go(c, "lost")
    /\ UNCHANGED <<thread_list, threadVars, queue, ptr>>

\* xQueueReceive, which waits at the queue itself.
JoinWake_NotWaiting(c) ==
    /\ pc[c] = "wait"
    /\ queue' = [queue EXCEPT ![c] = FALSE]
    /\ Done(c)
    /\ UNCHANGED <<thread_list, threadVars>>
JoinWake(c) ==
    /\ pc[c] = "wait"
    /\ queue[c]
    /\ queue' = [queue EXCEPT ![c] = FALSE]
    /\ Done(c)
    /\ UNCHANGED <<thread_list, threadVars>>

Client(c) ==
    \/ \E th \in Threads, i \in Ids : CreateThread(c, th, i)
    \/ CreateTask(c) \/ CreateFails(c) \/ CreateWait(c) \/ CreateStore(c)
    \/ \E i \in Ids : JoinGet(c, i)
    \/ JoinAdd(c) \/ JoinAddLost(c) \/ JoinWait(c) \/ JoinWaitLost(c) \/ JoinWake(c)

\* The steps of a thread after its function has returned.
Ending(th) == Inform(th) \/ Clean(th) \/ Destroy(th) \/ Remove(th)

Thread(th) == SetTcb(th) \/ UnlockParent(th) \/ Return(th) \/ Ending(th)

Next == (\E c \in Clients : Client(c)) \/ (\E th \in Threads : Thread(th))

\* Tasks that can run do run; a start function need not return.
Fairness ==
    /\ \A c \in Clients : WF_vars(CreateTask(c) \/ CreateFails(c) \/ CreateWait(c)
                                  \/ CreateStore(c) \/ JoinAdd(c) \/ JoinWait(c) \/ JoinWaitLost(c)
                                  \/ JoinWake(c))
    /\ \A th \in Threads : WF_vars(SetTcb(th) \/ UnlockParent(th) \/ Ending(th))

Spec == Init /\ [][Next]_vars /\ Fairness

(***************************************************************************)
(* Properties                                                              *)
(***************************************************************************)
Phases == {"unborn", "listed", "born", "set", "running", "inform", "clean",
           "destroyed", "gone"}

\* Every variable of pthread.c and of its callers has its type.
TypeOK ==
    /\ DOMAIN thread_list \subseteq Ids
    /\ thread_list \in [DOMAIN thread_list -> Threads]
    /\ phase \in [Threads -> Phases]
    /\ init_mtx \in [Threads -> {0, 1}]
    /\ tcb \subseteq Threads
    /\ join_list \in [Threads -> Seq(Clients)]
    /\ informed \in [Threads -> Nat]
    /\ queue \in [Clients -> BOOLEAN]
    /\ pc \in [Clients -> {"idle", "create", "handshake", "store", "join", "added", "wait", "lost"}]
    /\ ptr \in [Clients -> Threads \cup {None}]

\* The handshake over init_mtx: when pthread_create goes on, the new thread has
\* set its TCB, however the two tasks were scheduled.
CreatedIsSet == \A c \in Clients : pc[c] = "store" => ptr[c] \in tcb

\* thread_list leads to one structure per handle and to none that was freed:
\* a handle that is used again never leads two callers to different threads.
ListedIsThere ==
    /\ \A i \in DOMAIN thread_list : ~Freed(thread_list[i])
    /\ \A i, k \in DOMAIN thread_list : thread_list[i] = thread_list[k] => i = k

\* A join succeeds only for a thread whose function has returned, even when its
\* handle was given to another thread meanwhile.
JoinedHaveReturned ==
    [][\A c \in Clients : pc[c] = "wait" /\ pc'[c] = "idle" =>
            phase[ptr[c]] \in {"inform", "clean", "destroyed", "gone"}]_vars

\* A thread that has returned ends: no queue of its joiners keeps it waiting.
ReturnedThreadsEnd == \A th \in Threads : phase[th] = "inform" ~> phase[th] = "gone"

\* Whoever waits at its queue when the thread returns, or while it still informs
\* the others, is woken.  A joiner that is in the list but has not come to its
\* queue is informed too, but may read it from freed memory (JoinWaitLost).
EarlyJoinersWake ==
    \A c \in Clients, th \in Threads :
        pc[c] = "wait" /\ ptr[c] = th /\ phase[th] = "inform" ~> pc[c] = "idle"

(***************************************************************************)
(* What a comment of pthread.c says and the code does not do               *)
(***************************************************************************)
\* pthread.c:502 "Inform from thread end to joined threads": when a thread has
\* ended, nobody who joined it is left uninformed.
JoinersAreInformed ==
    \A c \in Clients :
        pc[c] = "wait" /\ Freed(ptr[c]) /\ ptr[c] \in tcb => queue[c]
=============================================================================
