------------------------------ MODULE SysList ------------------------------
(***************************************************************************)
(* sys/list.c: a growing array of entries, a list of the deleted entries   *)
(* threaded through their next fields, and a mutex held by every operation *)
(* from its first to its last access, which makes each an atomic step here *)
(* (the lock itself, and interrupt handlers in it, are not modelled).     *)
(*                                                                         *)
(* Callers are tasks.  A caller that deletes looks its handle up first, in *)
(* a critical section of its own, as pthread_key_delete, vfs_spiffs_close  *)
(* and i2c_flush do; another task may run between its two calls.           *)
(*                                                                         *)
(* Memory past the array is read as an entry whose item is Garbage and     *)
(* whose deleted flag may be anything; its next field is never followed.   *)
(***************************************************************************)
EXTENDS Integers, FiniteSets

CONSTANTS
    Tasks,       \* the tasks that call the list
    Items,       \* what they store
    Garbage,     \* what a slot outside the array holds
    FirstIndex,  \* first_index of list_init
    MaxIndexes,  \* bound: slots the list grows to, fewer than 256
    MaxNoMem,    \* bound: mallocs that fail
    OwnersOnly,  \* TRUE: a handle is deleted by the task that added it only
    PastEnd      \* TRUE: callers also present the handle one past the last

\* indexes counts in a uint8_t: the 256th entry would make it 0 again.
ASSUME SysListAssumption ==
    /\ FirstIndex \in Nat /\ MaxNoMem \in Nat
    /\ MaxIndexes \in Nat /\ MaxIndexes < 256
    /\ OwnersOnly \in BOOLEAN /\ PastEnd \in BOOLEAN
    /\ Garbage \notin Items /\ "EINVAL" \notin Items

VARIABLES
    indexes,  \* list->indexes
    index,    \* list->index: the entries of the allocated array
    free,     \* list->free: a slot, or NIL
    noMem,    \* how many mallocs failed
    pc,       \* "idle", "found" (between list_get and list_remove), "scan"
    hand,     \* the handle a task works on
    mine,     \* the handles each task added and has not deleted
    due,      \* in a scan: the handles given since its start, still to come
    reply     \* the answer of the last call

vars == <<indexes, index, free, noMem, pc, hand, mine, due, reply>>
listVars == <<indexes, index, free, noMem>>

NIL == -1
Slots == 0 .. MaxIndexes - 1
Handles == FirstIndex .. FirstIndex + MaxIndexes - 1
Asked == -1 .. FirstIndex + MaxIndexes
Entry == [item : Items \cup {Garbage}, deleted : BOOLEAN, next : Slots \cup {NIL}]
Answer(op, h, val) == [op |-> op, handle |-> h, val |-> val]

\* Slots that are counted but have no memory of their own.
Phantoms == {i \in Slots : i < indexes /\ i \notin DOMAIN index}

\* What reading slot i may return.
Read(i) ==
    IF i \in DOMAIN index THEN {index[i]}
    ELSE {[item |-> Garbage, deleted |-> d, next |-> NIL] : d \in BOOLEAN}

LiveSlots == {i \in DOMAIN index : ~index[i].deleted}
LiveHandles == {i + FirstIndex : i \in LiveSlots}

Init ==
    /\ indexes = 0
    /\ index = [i \in {} |-> i]
    /\ free = NIL
    /\ noMem = 0
    /\ pc = [t \in Tasks |-> "idle"]
    /\ hand = [t \in Tasks |-> NIL]
    /\ mine = [t \in Tasks |-> {}]
    /\ due = [t \in Tasks |-> {}]
    /\ reply = Answer("init", -1, "OK")

(***************************************************************************)
(* list_add                                                                *)
(***************************************************************************)
Occupied(it) == [item |-> it, deleted |-> FALSE, next |-> NIL]

Issue(t, i, it) ==
    /\ mine' = [mine EXCEPT ![t] = @ \cup {i + FirstIndex}]
    /\ reply' = Answer("add", i + FirstIndex, it)
    /\ UNCHANGED <<noMem, pc, hand, due>>

\* The head of the free list is taken.
AddReuse_KeepsFree(t, it) ==
    /\ pc[t] = "idle"
    /\ free # NIL
    /\ index' = [index EXCEPT ![free] = Occupied(it)]
    /\ Issue(t, free, it)
    /\ UNCHANGED <<free, indexes>>
AddReuse(t, it) ==
    /\ pc[t] = "idle"
    /\ free # NIL
    /\ free' = index[free].next
    /\ index' = [index EXCEPT ![free] = Occupied(it)]
    /\ Issue(t, free, it)
    /\ UNCHANGED indexes

\* The array grows by one slot: a new one is allocated and the old copied.
AddGrow_Uncounted(t, it) ==
    /\ pc[t] = "idle"
    /\ free = NIL
    /\ indexes < MaxIndexes
    /\ index' = [i \in 0 .. indexes |-> IF i = indexes THEN Occupied(it) ELSE index[i]]
    /\ Issue(t, indexes, it)
    /\ UNCHANGED <<free, indexes>>
AddGrow(t, it) ==
    /\ pc[t] = "idle"
    /\ free = NIL
    /\ indexes < MaxIndexes
    /\ indexes' = indexes + 1
    /\ \E copied \in [0 .. indexes - 1 -> UNION {Read(i) : i \in 0 .. indexes - 1}] :
        /\ \A i \in 0 .. indexes - 1 : copied[i] \in Read(i)
        /\ index' = [i \in 0 .. indexes |->
                        IF i = indexes THEN Occupied(it) ELSE copied[i]]
    /\ Issue(t, indexes, it)
    /\ UNCHANGED free

\* malloc fails: the count stays incremented.
AddNoMemory(t) ==
    /\ pc[t] = "idle"
    /\ free = NIL
    /\ indexes < MaxIndexes
    /\ noMem < MaxNoMem
    /\ indexes' = indexes + 1
    /\ noMem' = noMem + 1
    /\ reply' = Answer("add", -1, "ENOMEM")
    /\ UNCHANGED <<index, free, pc, hand, mine, due>>

(***************************************************************************)
(* list_get and list_remove                                                *)
(***************************************************************************)
\* The answers list_get may give for h.
Lookup_Deleted(h) ==
    IF indexes = 0 \/ h < FirstIndex \/ h - FirstIndex > indexes
    THEN {"EINVAL"}
    ELSE {e.item : e \in Read(h - FirstIndex)}
Lookup(h) ==
    IF indexes = 0 \/ h < FirstIndex \/ h - FirstIndex > indexes
    THEN {"EINVAL"}
    ELSE {IF e.deleted THEN "EINVAL" ELSE e.item : e \in Read(h - FirstIndex)}

Presented == {h \in Asked : PastEnd \/ h # FirstIndex + indexes}

\* A caller that only wants the item.
Get(t, h) ==
    /\ pc[t] = "idle"
    /\ h \in Presented
    /\ \E val \in Lookup(h) : reply' = Answer("get", h, val)
    /\ UNCHANGED <<listVars, pc, hand, mine, due>>

\* A caller that deletes looks the handle up first.
GetToRemove(t, h) ==
    /\ pc[t] = "idle"
    /\ h \in Presented
    /\ OwnersOnly => h \in mine[t]
    /\ \E val \in Lookup(h) :
        /\ reply' = Answer("get", h, val)
        /\ pc' = [pc EXCEPT ![t] = IF val = "EINVAL" THEN "idle" ELSE "found"]
    /\ hand' = [hand EXCEPT ![t] = h]
    /\ UNCHANGED <<listVars, mine, due>>

\* The entry is marked and pushed on the free list.  A push on a slot outside
\* the array is a write to memory the list does not own, not followed here.
Remove_LosesFree(t) ==
    LET i == hand[t] - FirstIndex
    IN  /\ pc[t] = "found"
        /\ i >= 0 /\ ~(i > indexes)
        /\ i \in DOMAIN index
        /\ index' = [index EXCEPT ![i].deleted = TRUE, ![i].next = NIL]
        /\ free' = i
        /\ mine' = [u \in Tasks |-> mine[u] \ {hand[t]}]
        /\ due' = [u \in Tasks |-> due[u] \ {hand[t]}]
        /\ pc' = [pc EXCEPT ![t] = "idle"]
        /\ reply' = Answer("remove", hand[t], "OK")
        /\ UNCHANGED <<indexes, noMem, hand>>
Remove(t) ==
    LET i == hand[t] - FirstIndex
    IN  /\ pc[t] = "found"
        /\ i >= 0 /\ ~(i > indexes)
        /\ i \in DOMAIN index
        /\ index' = [index EXCEPT ![i].deleted = TRUE, ![i].next = free]
        /\ free' = i
        /\ mine' = [u \in Tasks |-> mine[u] \ {hand[t]}]
        /\ due' = [u \in Tasks |-> due[u] \ {hand[t]}]
        /\ pc' = [pc EXCEPT ![t] = "idle"]
        /\ reply' = Answer("remove", hand[t], "OK")
        /\ UNCHANGED <<indexes, noMem, hand>>

(***************************************************************************)
(* list_first and list_next: the loop every user of a list runs over it    *)
(***************************************************************************)
Advance(t, a) ==
    /\ reply' = a
    /\ hand' = [hand EXCEPT ![t] = a.handle]
    /\ pc' = [pc EXCEPT ![t] = IF a.handle = NIL THEN "idle" ELSE "scan"]
    /\ UNCHANGED <<listVars, mine>>

\* The first slot at or after i that does not read as deleted.
ScanFrom(t, i) ==
    \E extra \in SUBSET Phantoms :
        LET after == {j \in LiveSlots \cup extra : j >= i}
        IN  \/ /\ after = {}
               /\ Advance(t, Answer("next", NIL, "END"))
            \/ \E j \in after :
                /\ \A k \in after : j <= k
                /\ \E e \in Read(j) : Advance(t, Answer("next", j + FirstIndex, e.item))

First(t) ==
    /\ pc[t] = "idle"
    /\ ScanFrom(t, 0)
    /\ due' = [due EXCEPT ![t] = LiveHandles \ {hand'[t]}]

NextIndex_Skips(t) ==
    /\ pc[t] = "scan"
    /\ ScanFrom(t, hand[t] - FirstIndex + 2)
    /\ due' = [due EXCEPT ![t] = @ \ {hand'[t]}]
NextIndex(t) ==
    /\ pc[t] = "scan"
    /\ ScanFrom(t, hand[t] - FirstIndex + 1)
    /\ due' = [due EXCEPT ![t] = @ \ {hand'[t]}]

Next ==
    \E t \in Tasks :
        \/ \E it \in Items : AddReuse(t, it)
        \/ \E it \in Items : AddGrow(t, it)
        \/ AddNoMemory(t)
        \/ \E h \in Asked : Get(t, h)
        \/ \E h \in Asked : GetToRemove(t, h)
        \/ Remove(t)
        \/ First(t)
        \/ NextIndex(t)

Spec == Init /\ [][Next]_vars

(***************************************************************************)
(* Properties                                                              *)
(***************************************************************************)
\* Every variable of list.c and of its callers has its type: the array is not
\* longer than the count, and the free list's head lies in the array.
TypeOK ==
    /\ indexes \in 0 .. MaxIndexes
    /\ DOMAIN index \in {0 .. n - 1 : n \in 0 .. indexes}
    /\ index \in [DOMAIN index -> Entry]
    /\ free \in DOMAIN index \cup {NIL}
    /\ noMem \in 0 .. MaxNoMem
    /\ pc \in [Tasks -> {"idle", "found", "scan"}]
    /\ hand \in [Tasks -> Asked]
    /\ mine \in [Tasks -> SUBSET Handles]
    /\ due \in [Tasks -> SUBSET Handles]
    /\ reply \in [op : {"init", "add", "get", "remove", "next"}, handle : Asked,
                  val : Items \cup {Garbage, "OK", "EINVAL", "ENOMEM", "END"}]

\* The slots met by following next from list->free.
ChainSlot ==
    LET f[n \in 0 .. MaxIndexes] ==
            IF n = 0 THEN free ELSE IF f[n-1] = NIL THEN NIL ELSE index[f[n-1]].next
    IN  f

\* The free list built by list_remove and consumed by list_add has no cycle and
\* holds exactly the entries that list_remove deleted: none is lost, none is met
\* twice, even when a malloc failed and the array was grown from too few slots.
FreeListIsTheDeleted ==
    LET met == {n \in 0 .. MaxIndexes : ChainSlot[n] # NIL}
        removed == {i \in DOMAIN index \ LiveSlots : index[i].item # Garbage}
    IN  /\ MaxIndexes \notin met
        /\ {ChainSlot[n] : n \in met} = removed
        /\ Cardinality(met) = Cardinality(removed)

\* Two tasks never hold the same handle, and a handle that a task added and did
\* not delete is not marked deleted under it by list_add and list_remove.
HandlesAreExclusive ==
    /\ \A t, u \in Tasks : t # u => mine[t] \cap mine[u] = {}
    /\ \A t \in Tasks : mine[t] \subseteq LiveHandles

\* A loop of list_first and list_next, although each call takes the lock for
\* itself, meets every handle that was given before it and not taken back.
ScanMeetsAll ==
    [][\A t \in Tasks : pc[t] = "scan" /\ pc'[t] = "idle" => due'[t] = {}]_vars

\* The list implements the table of handles.
Table == INSTANCE HandleTable WITH
            live <- [h \in LiveHandles |-> index[h - FirstIndex].item]
ImplementsTable == Table!TableSpec
=============================================================================
