------------------------- MODULE PthreadJoinProofs -------------------------
(***************************************************************************)
(* Theorems about the life of a thread in pthread.c, for any number of     *)
(* clients, threads and handles.                                           *)
(***************************************************************************)
EXTENDS PthreadJoin, TLAPS

(***************************************************************************)
(* The inductive invariant                                                 *)
(***************************************************************************)
\* A client that is in a call has the structure of a thread.
Pointing == \A c \in Clients : pc[c] # "idle" => ptr[c] \in Threads

\* A thread that thread_list leads to was added and not removed.
Listed == \A i \in DOMAIN thread_list : phase[thread_list[i]] # "unborn"

\* A thread whose task is not created yet belongs to one call of pthread_create.
Creating ==
    /\ \A c \in Clients : pc[c] = "create" => phase[ptr[c]] = "listed"
    /\ \A c, d \in Clients :
          pc[c] = "create" /\ pc[d] = "create" /\ ptr[c] = ptr[d] => c = d

\* init_mtx opens only after the TCB is set, and so does the structure go.
Handshake ==
    /\ \A th \in Threads :
          init_mtx[th] = 1 \/ phase[th] \in Phases \ {"unborn", "listed", "born", "gone"}
              => th \in tcb
    /\ \A c \in Clients : pc[c] = "handshake" =>
          /\ phase[ptr[c]] \notin {"unborn", "listed"}
          /\ phase[ptr[c]] = "gone" => ptr[c] \in tcb

Returned == {"inform", "clean", "destroyed", "gone"}

\* Where a client is once it has added its join.
Joined == {"added", "wait", "lost"}

\* A message in the queue of a join comes from the thread that is joined.
Informing ==
    \A c \in Clients : queue[c] => pc[c] \in Joined /\ phase[ptr[c]] \in Returned

\* The entries of the join_list of th that pthreadTask has still to inform.
Pending(th) == {k \in DOMAIN join_list[th] : informed[th] < k}

\* A pending entry is a client that joins that thread, and no client is in
\* two of them.
Waiting ==
    \A th \in Threads :
        /\ \A k \in Pending(th) :
              /\ pc[join_list[th][k]] \in Joined
              /\ ptr[join_list[th][k]] = th
              /\ ~queue[join_list[th][k]]
        /\ \A k, m \in Pending(th) : join_list[th][k] = join_list[th][m] => k = m

IInv ==
    /\ TypeOK /\ Pointing
    /\ Listed /\ ListedIsThere
    /\ Creating /\ Handshake /\ CreatedIsSet
    /\ Informing /\ Waiting

(***************************************************************************)
(* Types                                                                   *)
(***************************************************************************)
LEMMA TypeInit == Init => TypeOK /\ Pointing
  BY PthreadJoinAssumption DEF Init, TypeOK, Pointing, Phases

LEMMA UnlistType ==
    ASSUME TypeOK, NEW th \in Threads, Unlist(th)
    PROVE  DOMAIN thread_list' \subseteq Ids /\ thread_list' \in [DOMAIN thread_list' -> Threads]
  BY DEF TypeOK, Unlist

LEMMA ClientType ==
    ASSUME TypeOK, Pointing, NEW c \in Clients, Client(c)
    PROVE  TypeOK' /\ Pointing'
<1> USE DEF TypeOK, Pointing, Go, Done
<1>1. CASE \E th \in Threads, i \in Ids : CreateThread(c, th, i)
  BY <1>1 DEF CreateThread, Phases
<1>2. CASE CreateTask(c)
  BY <1>2 DEF CreateTask, Phases
<1>3. CASE CreateFails(c)
  BY <1>3, UnlistType DEF CreateFails, Phases
<1>4. CASE CreateWait(c)
  BY <1>4 DEF CreateWait
<1>5. CASE CreateStore(c)
  BY <1>5 DEF CreateStore
<1>6. CASE \E i \in Ids : JoinGet(c, i)
  BY <1>6 DEF JoinGet, threadVars
<1>7. CASE JoinAdd(c)
  <2>1. Append(join_list[ptr[c]], c) \in Seq(Clients)
    BY <1>7 DEF JoinAdd
  <2> QED BY <1>7, <2>1 DEF JoinAdd
<1>8. CASE JoinAddLost(c) \/ JoinWait(c) \/ JoinWaitLost(c)
  BY <1>8 DEF JoinAddLost, JoinWait, JoinWaitLost, threadVars
<1>9. CASE JoinWake(c)
  BY <1>9 DEF JoinWake, threadVars
<1> QED BY <1>1, <1>2, <1>3, <1>4, <1>5, <1>6, <1>7, <1>8, <1>9 DEF Client

LEMMA ThreadType ==
    ASSUME TypeOK, Pointing, NEW th \in Threads, Thread(th)
    PROVE  TypeOK' /\ Pointing'
<1> USE DEF TypeOK, Pointing
<1>1. CASE SetTcb(th)
  BY <1>1 DEF SetTcb, Phases
<1>2. CASE UnlockParent(th)
  BY <1>2 DEF UnlockParent, Phases
<1>3. CASE Return(th)
  BY <1>3 DEF Return, Phases
<1>4. CASE Inform(th)
  BY <1>4 DEF Inform
<1>5. CASE Clean(th)
  BY <1>5 DEF Clean, Phases
<1>6. CASE Destroy(th)
  BY <1>6 DEF Destroy, Phases
<1>7. CASE Remove(th)
  BY <1>7, UnlistType DEF Remove, Phases
<1> QED BY <1>1, <1>2, <1>3, <1>4, <1>5, <1>6, <1>7 DEF Thread, Ending

LEMMA TypeStep == TypeOK /\ Pointing /\ [Next]_vars => TypeOK' /\ Pointing'
  BY ClientType, ThreadType DEF Next, vars, TypeOK, Pointing

(***************************************************************************)
(* thread_list                                                             *)
(***************************************************************************)
\* list_remove takes out the only entry of a thread and keeps the others.
LEMMA UnlistRemoves ==
    ASSUME NEW th, Unlist(th), ListedIsThere
    PROVE  /\ \A i \in DOMAIN thread_list' :
                 i \in DOMAIN thread_list /\ thread_list'[i] = thread_list[i]
           /\ \A i \in DOMAIN thread_list' : thread_list'[i] # th
<1>1. \A i \in DOMAIN thread_list : thread_list[i] = th => i = IdOf(th)
  BY DEF IdOf, ListedIsThere
<1> QED BY <1>1 DEF Unlist

LEMMA ListedStep ==
    TypeOK /\ Pointing /\ Listed /\ ListedIsThere /\ [Next]_vars => Listed' /\ ListedIsThere'
<1> SUFFICES ASSUME TypeOK, Pointing, Listed, ListedIsThere, [Next]_vars
             PROVE  Listed' /\ ListedIsThere'
  OBVIOUS
<1> USE DEF TypeOK, Pointing, Listed, ListedIsThere, Freed
<1>1. ASSUME NEW c \in Clients, NEW th \in Threads, NEW i \in Ids, CreateThread(c, th, i)
      PROVE  Listed' /\ ListedIsThere'
  <2>1. \A k \in DOMAIN thread_list : thread_list[k] # th
    BY <1>1 DEF CreateThread
  <2> QED BY <1>1, <2>1 DEF CreateThread
<1>2. ASSUME NEW c \in Clients, CreateFails(c) PROVE Listed' /\ ListedIsThere'
  BY <1>2, UnlistRemoves DEF CreateFails
<1>3. ASSUME NEW th \in Threads, Remove(th) PROVE Listed' /\ ListedIsThere'
  BY <1>3, UnlistRemoves DEF Remove
<1>4. ASSUME UNCHANGED thread_list,
             \A th \in Threads : phase'[th] = phase[th] \/ phase'[th] \notin {"unborn", "gone"}
      PROVE  Listed' /\ ListedIsThere'
  BY <1>4
<1>5. ASSUME NEW c \in Clients, Client(c) PROVE Listed' /\ ListedIsThere'
  BY <1>5, <1>1, <1>2, <1>4 DEF Client, CreateTask, CreateWait, CreateStore, JoinGet,
     JoinAdd, JoinAddLost, JoinWait, JoinWaitLost, JoinWake, threadVars
<1>6. ASSUME NEW th \in Threads, Thread(th) PROVE Listed' /\ ListedIsThere'
  BY <1>6, <1>3, <1>4 DEF Thread, Ending, SetTcb, UnlockParent, Return, Inform, Clean, Destroy
<1> QED BY <1>5, <1>6 DEF Next, vars

(***************************************************************************)
(* The handshake of pthread_create                                         *)
(***************************************************************************)
LEMMA HandshakeClient ==
    ASSUME TypeOK, Pointing, Creating, Handshake, CreatedIsSet, NEW c \in Clients, Client(c)
    PROVE  Creating' /\ Handshake' /\ CreatedIsSet'
<1> USE DEF TypeOK, Pointing, Creating, Handshake, CreatedIsSet, Go, Done, Phases
<1>1. ASSUME NEW th \in Threads, NEW i \in Ids, CreateThread(c, th, i)
      PROVE  Creating' /\ Handshake' /\ CreatedIsSet'
  BY <1>1 DEF CreateThread
<1>2. CASE CreateTask(c)
  BY <1>2 DEF CreateTask
<1>3. CASE CreateFails(c)
  <2>1. \A d \in Clients : pc[d] = "handshake" => ptr[d] # ptr[c]
    BY <1>3 DEF CreateFails
  <2> QED BY <1>3, <2>1 DEF CreateFails
<1>4. CASE CreateWait(c)
  <2>1. ptr[c] \in tcb
    BY <1>4 DEF CreateWait, Freed
  <2> QED BY <1>4, <2>1 DEF CreateWait
<1>5. CASE CreateStore(c)
  BY <1>5 DEF CreateStore
<1>6. CASE \E i \in Ids : JoinGet(c, i)
  BY <1>6 DEF JoinGet, threadVars
<1>7. CASE JoinAdd(c)
  BY <1>7 DEF JoinAdd
<1>8. CASE JoinAddLost(c) \/ JoinWait(c) \/ JoinWaitLost(c)
  <2>1. /\ UNCHANGED <<phase, init_mtx, tcb, ptr>>
        /\ \E where \in {"wait", "lost"} : pc' = [pc EXCEPT ![c] = where]
    BY <1>8 DEF JoinAddLost, JoinWait, JoinWaitLost, threadVars
  <2> QED BY <2>1
<1>9. CASE JoinWake(c)
  BY <1>9 DEF JoinWake, threadVars
<1> QED BY <1>1, <1>2, <1>3, <1>4, <1>5, <1>6, <1>7, <1>8, <1>9 DEF Client

LEMMA HandshakeThread ==
    ASSUME TypeOK, Pointing, Creating, Handshake, CreatedIsSet, NEW th \in Threads, Thread(th)
    PROVE  Creating' /\ Handshake' /\ CreatedIsSet'
<1> USE DEF TypeOK, Pointing, Creating, Handshake, CreatedIsSet, Phases
<1>1. CASE SetTcb(th)
  BY <1>1 DEF SetTcb
<1>2. CASE UnlockParent(th)
  BY <1>2 DEF UnlockParent
<1>3. CASE Return(th)
  BY <1>3 DEF Return
<1>4. CASE Inform(th)
  BY <1>4 DEF Inform
<1>5. CASE Clean(th)
  BY <1>5 DEF Clean
<1>6. CASE Destroy(th)
  BY <1>6 DEF Destroy
<1>7. CASE Remove(th)
  BY <1>7 DEF Remove
<1> QED BY <1>1, <1>2, <1>3, <1>4, <1>5, <1>6, <1>7 DEF Thread, Ending

(***************************************************************************)
(* The joins                                                               *)
(***************************************************************************)
\* What a pending entry is.
LEMMA PendingEntry ==
    ASSUME TypeOK, NEW th \in Threads, NEW k \in Pending(th)
    PROVE  k \in Nat /\ k \in 1..Len(join_list[th]) /\ join_list[th][k] \in Clients
  BY DEF TypeOK, Pending

\* A step that leaves the join lists and the queues alone, takes nobody who has
\* added a join out of it and no thread back from its end.
LEMMA JoinFrame ==
    ASSUME TypeOK, Pointing, Informing, Waiting,
           UNCHANGED <<join_list, informed, queue>>,
           \A d \in Clients : pc[d] \in Joined => pc'[d] \in Joined /\ ptr'[d] = ptr[d],
           \A th \in Threads : phase[th] \in Returned => phase'[th] \in Returned
    PROVE  Informing' /\ Waiting'
<1> USE DEF Joined
<1>1. Informing'
  BY DEF Informing, Pointing
<1>2. \A th \in Threads : Pending(th)' = Pending(th)
  BY DEF Pending
<1> QED BY <1>1, <1>2, PendingEntry DEF Waiting

LEMMA JoinAddStep ==
    ASSUME TypeOK, Pointing, Informing, Waiting, NEW c \in Clients, JoinAdd(c)
    PROVE  Informing' /\ Waiting'
<1> USE DEF Joined
<1> DEFINE t == ptr[c]
           n == Len(join_list[t]) + 1
<1>1. /\ pc[c] = "join" /\ t \in Threads /\ join_list[t] \in Seq(Clients)
      /\ ~queue[c]
      /\ pc' = [pc EXCEPT ![c] = "added"] /\ ptr' = ptr /\ queue' = queue
      /\ phase' = phase /\ informed' = informed
      /\ join_list' = [join_list EXCEPT ![t] = Append(join_list[t], c)]
  BY DEF JoinAdd, Go, Pointing, TypeOK, Informing
<1>2. /\ join_list'[t] = Append(join_list[t], c)
      /\ \A th \in Threads : th # t => join_list'[th] = join_list[th]
  BY <1>1 DEF TypeOK
<1>3. /\ DOMAIN join_list'[t] = DOMAIN join_list[t] \cup {n}
      /\ join_list'[t][n] = c
      /\ \A k \in DOMAIN join_list[t] : join_list'[t][k] = join_list[t][k]
  BY <1>1, <1>2
<1>4. pc'[c] \in Joined /\ \A d \in Clients : pc[d] \in Joined => pc'[d] \in Joined /\ d # c
  BY <1>1 DEF TypeOK
<1>5. Informing'
  BY <1>1, <1>4 DEF Informing
<1>7. \A th \in Threads : \A k \in Pending(th)' : k \in Pending(th) \/ (th = t /\ k = n)
  BY <1>1, <1>2, <1>3 DEF Pending
<1>8. \A th \in Threads : \A k \in Pending(th) : join_list'[th][k] = join_list[th][k]
  BY <1>2, <1>3 DEF Pending
<1>9. ASSUME NEW th \in Threads, NEW k \in Pending(th)'
      PROVE  /\ pc'[join_list'[th][k]] \in Joined
             /\ ptr'[join_list'[th][k]] = th
             /\ ~queue'[join_list'[th][k]]
  <2>1. CASE k \in Pending(th)
    BY <2>1, <1>1, <1>4, <1>8, PendingEntry DEF Waiting
  <2>2. CASE th = t /\ k = n
    BY <2>2, <1>1, <1>3, <1>4
  <2> QED BY <2>1, <2>2, <1>7
<1>10. ASSUME NEW th \in Threads, NEW k \in Pending(th)', NEW m \in Pending(th)',
              join_list'[th][k] = join_list'[th][m]
       PROVE  k = m
  <2>1. \A j \in Pending(th) : join_list[th][j] # c
    BY <1>4, PendingEntry DEF Waiting
  <2>2. CASE k \in Pending(th) /\ m \in Pending(th)
    BY <2>2, <1>8, <1>10 DEF Waiting
  <2>3. CASE th = t /\ k = n /\ m = n
    BY <2>3
  <2>4. CASE th = t /\ (k = n \/ m = n) /\ (k \in Pending(th) \/ m \in Pending(th))
    <3>1. k \in Pending(th) => join_list'[th][k] # c
      BY <2>1, <1>8
    <3>2. m \in Pending(th) => join_list'[th][m] # c
      BY <2>1, <1>8
    <3> QED BY <2>2, <2>4, <3>1, <3>2, <1>3, <1>7, <1>10
  <2> QED BY <2>2, <2>3, <2>4, <1>7
<1> QED BY <1>5, <1>9, <1>10 DEF Waiting

LEMMA InformStep ==
    ASSUME TypeOK, Pointing, Informing, Waiting, NEW th \in Threads, Inform(th)
    PROVE  Informing' /\ Waiting'
<1> DEFINE n == informed[th] + 1
           d == join_list[th][n]
<1>1. /\ phase[th] = "inform" /\ ~queue[d]
      /\ informed[th] < Len(join_list[th]) /\ informed[th] \in Nat
      /\ queue' = [queue EXCEPT ![d] = TRUE]
      /\ informed' = [informed EXCEPT ![th] = n]
      /\ phase' = phase /\ join_list' = join_list /\ pc' = pc /\ ptr' = ptr
  BY DEF Inform, TypeOK
<1>2. n \in Pending(th) /\ d \in Clients
  BY <1>1 DEF Pending, TypeOK
<1>3. pc[d] \in Joined /\ ptr[d] = th
  BY <1>2 DEF Waiting
<1>4. Informing'
  BY <1>1, <1>2, <1>3 DEF Informing, TypeOK, Returned
<1>5. \A s \in Threads : \A k \in Pending(s)' :
         k \in Pending(s) /\ (s = th => k # n) /\ join_list'[s][k] = join_list[s][k]
  BY <1>1 DEF Pending, TypeOK
<1>6. \A s \in Threads : \A k \in Pending(s)' : join_list[s][k] # d
  BY <1>2, <1>3, <1>5 DEF Waiting
<1>7. \A s \in Threads : \A k \in Pending(s)' : ~queue'[join_list[s][k]]
  BY <1>1, <1>2, <1>5, <1>6, PendingEntry DEF Waiting, TypeOK
<1> QED BY <1>1, <1>4, <1>5, <1>7 DEF Waiting

LEMMA JoinWakeStep ==
    ASSUME TypeOK, Pointing, Informing, Waiting, NEW c \in Clients, JoinWake(c)
    PROVE  Informing' /\ Waiting'
<1>1. /\ queue[c] /\ queue' = [queue EXCEPT ![c] = FALSE]
      /\ pc' = [pc EXCEPT ![c] = "idle"] /\ ptr' = [ptr EXCEPT ![c] = None]
      /\ UNCHANGED <<phase, join_list, informed>>
  BY DEF JoinWake, threadVars, Go, Done
<1>2. Informing'
  BY <1>1 DEF Informing, TypeOK
<1>3. \A th \in Threads : Pending(th)' = Pending(th)
  BY <1>1 DEF Pending
<1>4. \A th \in Threads : \A k \in Pending(th) : join_list[th][k] # c
  BY <1>1 DEF Waiting
<1> QED BY <1>1, <1>2, <1>3, <1>4, PendingEntry DEF Waiting, TypeOK

LEMMA JoinStep ==
    TypeOK /\ Pointing /\ Creating /\ Informing /\ Waiting /\ [Next]_vars => Informing' /\ Waiting'
<1> SUFFICES ASSUME TypeOK, Pointing, Creating, Informing, Waiting, [Next]_vars
             PROVE  Informing' /\ Waiting'
  OBVIOUS
<1> USE DEF Joined
<1> DEFINE Kept ==
      /\ UNCHANGED <<join_list, informed, queue>>
      /\ \A d \in Clients : pc[d] \in Joined => pc'[d] \in Joined /\ ptr'[d] = ptr[d]
      /\ \A th \in Threads : phase[th] \in Returned => phase'[th] \in Returned
<1>1. Kept => Informing' /\ Waiting'
  BY JoinFrame
<1>2. ASSUME NEW c \in Clients, Client(c) PROVE Kept \/ JoinAdd(c) \/ JoinWake(c)
  <2>1. ASSUME NEW th \in Threads, NEW i \in Ids, CreateThread(c, th, i) PROVE Kept
    BY <2>1 DEF CreateThread, Go, TypeOK, Returned
  <2>2. CASE CreateTask(c)
    <3>1. ptr[c] \in Threads /\ phase[ptr[c]] \notin Returned
      BY <2>2 DEF CreateTask, Pointing, Creating, Returned
    <3> QED BY <2>2, <3>1 DEF CreateTask, Go, TypeOK
  <2>3. CASE CreateFails(c)
    <3>1. "gone" \in Returned /\ ptr[c] \in Threads
      BY <2>3 DEF CreateFails, Pointing, Returned
    <3>2. phase' = [phase EXCEPT ![ptr[c]] = "gone"] /\ pc[c] = "create"
          /\ pc' = [pc EXCEPT ![c] = "idle"] /\ ptr' = [ptr EXCEPT ![c] = None]
          /\ UNCHANGED <<join_list, informed, queue>>
      BY <2>3 DEF CreateFails, Done, Go
    <3> QED BY <3>1, <3>2 DEF TypeOK
  <2>4. CASE CreateWait(c) \/ CreateStore(c)
    BY <2>4 DEF CreateWait, CreateStore, Go, Done, TypeOK
  <2>5. ASSUME NEW i \in Ids, JoinGet(c, i) PROVE Kept
    BY <2>5 DEF JoinGet, threadVars, Go, TypeOK
  <2>6. CASE JoinAddLost(c) \/ JoinWait(c) \/ JoinWaitLost(c)
    BY <2>6 DEF JoinAddLost, JoinWait, JoinWaitLost, threadVars, Go, TypeOK, Joined
  <2> QED BY <1>2, <2>1, <2>2, <2>3, <2>4, <2>5, <2>6 DEF Client
<1>3. ASSUME NEW th \in Threads, Thread(th) PROVE Kept \/ Inform(th)
  BY <1>3 DEF Thread, Ending, SetTcb, UnlockParent, Return, Clean, Destroy, Remove,
     TypeOK, Returned
<1>4. UNCHANGED vars => Kept
  BY DEF vars
<1> QED BY <1>1, <1>2, <1>3, <1>4, JoinAddStep, InformStep, JoinWakeStep DEF Next

(***************************************************************************)
(* The theorems                                                            *)
(***************************************************************************)
LEMMA Invariance == Spec => []IInv
<1>1. Init => IInv
  <2>1. Init => Listed /\ ListedIsThere /\ Creating /\ Handshake /\ CreatedIsSet
                /\ Informing /\ Waiting
    BY DEF Init, Listed, ListedIsThere, Creating, Handshake, CreatedIsSet, Informing,
       Waiting, Pending, Phases
  <2> QED BY <2>1, TypeInit DEF IInv
<1>2. IInv /\ [Next]_vars => IInv'
  <2> SUFFICES ASSUME IInv, [Next]_vars PROVE IInv'
    OBVIOUS
  <2>1. TypeOK' /\ Pointing'
    BY TypeStep DEF IInv
  <2>2. Listed' /\ ListedIsThere'
    BY ListedStep DEF IInv
  <2>3. Creating' /\ Handshake' /\ CreatedIsSet'
    <3>1. CASE UNCHANGED vars
      BY <3>1 DEF IInv, vars, Creating, Handshake, CreatedIsSet
    <3> QED BY <3>1, HandshakeClient, HandshakeThread DEF IInv, Next
  <2>4. Informing' /\ Waiting'
    BY JoinStep DEF IInv
  <2> QED BY <2>1, <2>2, <2>3, <2>4 DEF IInv
<1> QED BY <1>1, <1>2, PTL DEF Spec

\* Every variable of pthread.c's threads and joins keeps its type.
THEOREM JoinTypes == Spec => []TypeOK
  BY Invariance, PTL DEF IInv

\* When _pthread_create comes back from init_mtx, the thread has set its parts of
\* the TCB: the second mtx_lock passes only after pthreadTask's mtx_unlock, or on
\* a structure that a thread with its TCB set has freed.
THEOREM CreatedThreadsAreSet == Spec => []CreatedIsSet
  BY Invariance, PTL DEF IInv

\* thread_list leads to no freed structure and to no structure twice, whichever
\* handles are used again, and whichever of pthread_create and pthreadTask
\* removes the entry.
THEOREM ThreadListLeadsToThreads == Spec => []ListedIsThere
  BY Invariance, PTL DEF IInv

\* A join returns only when the function of the thread it was given has returned:
\* a message in the queue of a join comes from no other thread.
THEOREM JoinsReturnLate == Spec => JoinedHaveReturned
<1>1. ASSUME IInv, [Next]_vars, NEW c \in Clients, pc[c] = "wait", pc'[c] = "idle"
      PROVE  phase[ptr[c]] \in Returned
  <2>1. JoinWake(c)
    <3>1. pc \in [Clients -> {"idle", "create", "handshake", "store", "join", "added", "wait", "lost"}]
      BY <1>1 DEF IInv, TypeOK
    <3>2. ASSUME NEW d \in Clients, Client(d) PROVE JoinWake(c)
      <4>1. d = c
        BY <1>1, <3>1, <3>2 DEF Client, CreateThread, CreateTask, CreateFails, CreateWait,
           CreateStore, JoinGet, JoinAdd, JoinAddLost, JoinWait, JoinWaitLost, JoinWake, Go, Done
      <4> QED BY <1>1, <3>2, <4>1 DEF Client, CreateThread, CreateTask, CreateFails,
         CreateWait, CreateStore, JoinGet, JoinAdd, JoinAddLost, JoinWait, JoinWaitLost
    <3>3. ASSUME NEW th \in Threads, Thread(th) PROVE pc' = pc
      BY <3>3 DEF Thread, Ending, SetTcb, UnlockParent, Return, Inform, Clean, Destroy, Remove
    <3>4. UNCHANGED vars => pc' = pc
      BY DEF vars
    <3> QED BY <1>1, <3>2, <3>3, <3>4 DEF Next
  <2> QED BY <2>1, <1>1 DEF JoinWake, IInv, Informing
<1>2. IInv /\ [Next]_vars =>
         [\A c \in Clients : pc[c] = "wait" /\ pc'[c] = "idle" =>
             phase[ptr[c]] \in {"inform", "clean", "destroyed", "gone"}]_vars
  BY <1>1 DEF Returned
<1> QED BY <1>2, Invariance, PTL DEF Spec, JoinedHaveReturned
=============================================================================
