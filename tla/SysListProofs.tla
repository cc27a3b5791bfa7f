--------------------------- MODULE SysListProofs ---------------------------
(***************************************************************************)
(* Theorems about the list, for any number of tasks, items and slots.      *)
(***************************************************************************)
EXTENDS SysList, FiniteSetTheorems, TLAPS

(***************************************************************************)
(* Invariants                                                              *)
(***************************************************************************)
\* The next field of an entry is a slot of the array, or NIL.
NextInside == \A i \in DOMAIN index : index[i].next \in DOMAIN index \cup {NIL}

\* What TypeOK needs to be inductive.
TInv == TypeOK /\ NextInside

Dead(i) == i \in DOMAIN index /\ index[i].deleted

\* The free list leads from deleted entries to deleted entries and no two of
\* them, the head counted, lead to the same one.
ChainWhole ==
    /\ free # NIL => Dead(free)
    /\ \A i \in DOMAIN index : index[i].deleted /\ index[i].next # NIL =>
          /\ Dead(index[i].next)
          /\ index[i].next # free
    /\ \A i, j \in DOMAIN index :
          /\ index[i].deleted /\ index[j].deleted
          /\ index[i].next = index[j].next /\ index[i].next # NIL
          => i = j

\* A task that is about to delete a handle owns it.
FoundIsMine == \A t \in Tasks : pc[t] = "found" => hand[t] \in mine[t]

\* What a scan still has to meet is in use and lies ahead of it.
ScanAhead ==
    \A t \in Tasks : pc[t] = "scan" =>
        due[t] \subseteq {h \in LiveHandles : h > hand[t]}

(***************************************************************************)
(* Types                                                                   *)
(***************************************************************************)
LEMMA TypeInit == Init => TInv
<1> SUFFICES ASSUME Init PROVE TInv
  OBVIOUS
<1>1. DOMAIN index = 0 .. 0 - 1 /\ DOMAIN index = {}
  BY DEF Init
<1> QED BY <1>1, SysListAssumption DEF Init, TInv, TypeOK, NextInside, Asked, Handles, Answer,
       Slots, NIL

\* The array is a prefix of the slots.
LEMMA ArrayIsPrefix ==
    ASSUME TypeOK
    PROVE  /\ \E n \in 0 .. indexes : DOMAIN index = 0 .. n - 1
           /\ DOMAIN index \subseteq Slots
           /\ \A i \in DOMAIN index : index[i] \in Entry
<1>1. PICK n \in 0 .. indexes : DOMAIN index = 0 .. n - 1
  BY DEF TypeOK
<1> QED BY <1>1, SysListAssumption DEF TypeOK, Slots

\* A handle of the list is one that callers may present.
LEMMA HandleOfSlot ==
    ASSUME NEW i \in Slots
    PROVE  i + FirstIndex \in Handles /\ i + FirstIndex \in Asked /\ i + FirstIndex # NIL
BY SysListAssumption DEF Slots, Handles, Asked, NIL

\* What reading a slot returns is an entry whose next field may be followed.
LEMMA ReadEntry ==
    ASSUME TInv, NEW i, NEW e \in Read(i)
    PROVE  e \in Entry /\ e.next \in DOMAIN index \cup {NIL}
<1>1. CASE i \in DOMAIN index
  BY <1>1, ArrayIsPrefix DEF Read, TInv, NextInside
<1>2. CASE i \notin DOMAIN index
  <2>1. PICK d \in BOOLEAN : e = [item |-> Garbage, deleted |-> d, next |-> NIL]
    BY <1>2 DEF Read
  <2> QED BY <2>1 DEF Entry
<1> QED BY <1>1, <1>2

LEMMA AddReuseType ==
    ASSUME TInv, NEW t \in Tasks, NEW it \in Items, AddReuse(t, it)
    PROVE  TInv'
<1> USE DEF TInv
<1>1. free \in DOMAIN index /\ free \in Slots /\ DOMAIN index' = DOMAIN index
  BY ArrayIsPrefix DEF AddReuse, TypeOK
<1>2. Occupied(it) \in Entry
  BY DEF Occupied, Entry
<1>3. index' \in [DOMAIN index' -> Entry]
  BY <1>1, <1>2 DEF AddReuse, TypeOK
<1>4. free' \in DOMAIN index' \cup {NIL}
  BY <1>1 DEF AddReuse, NextInside
<1>5. free + FirstIndex \in Handles /\ free + FirstIndex \in Asked
  BY <1>1, HandleOfSlot
<1>6. mine' \in [Tasks -> SUBSET Handles] /\ UNCHANGED <<indexes, noMem, pc, hand, due>>
  BY <1>5 DEF AddReuse, Issue, TypeOK
<1>7. reply' \in [op : {"init", "add", "get", "remove", "next"}, handle : Asked,
                  val : Items \cup {Garbage, "OK", "EINVAL", "ENOMEM", "END"}]
  BY <1>5 DEF AddReuse, Issue, Answer
<1>8. NextInside'
  BY <1>1 DEF AddReuse, NextInside, Occupied
<1> QED BY <1>1, <1>3, <1>4, <1>6, <1>7, <1>8 DEF TypeOK

LEMMA AddGrowType ==
    ASSUME TInv, NEW t \in Tasks, NEW it \in Items, AddGrow(t, it)
    PROVE  TInv'
<1> USE DEF TInv
<1>a. indexes \in Nat /\ indexes < MaxIndexes /\ indexes' = indexes + 1 /\ indexes \in Slots
  BY SysListAssumption DEF AddGrow, TypeOK, Slots
<1>1. PICK copied :
        /\ \A i \in 0 .. indexes - 1 : copied[i] \in Read(i)
        /\ index' = [i \in 0 .. indexes |-> IF i = indexes THEN Occupied(it) ELSE copied[i]]
  BY DEF AddGrow
<1>2. \A i \in 0 .. indexes - 1 : copied[i] \in Entry /\ copied[i].next \in DOMAIN index \cup {NIL}
  BY <1>1, ReadEntry
<1>3. Occupied(it) \in Entry /\ Occupied(it).next = NIL
  BY DEF Occupied, Entry
<1>4. DOMAIN index' = 0 .. indexes' - 1 /\ DOMAIN index \subseteq DOMAIN index'
  BY <1>1, <1>a, ArrayIsPrefix
<1>5. index' \in [DOMAIN index' -> Entry] /\ NextInside'
  BY <1>1, <1>2, <1>3, <1>4, <1>a DEF NextInside
<1>6. indexes + FirstIndex \in Handles /\ indexes + FirstIndex \in Asked
  BY <1>a, HandleOfSlot
<1>7. mine' \in [Tasks -> SUBSET Handles] /\ UNCHANGED <<free, noMem, pc, hand, due>>
  BY <1>6 DEF AddGrow, Issue, TypeOK
<1>8. reply' \in [op : {"init", "add", "get", "remove", "next"}, handle : Asked,
                  val : Items \cup {Garbage, "OK", "EINVAL", "ENOMEM", "END"}]
  BY <1>6 DEF AddGrow, Issue, Answer
<1>9. indexes' \in 0 .. MaxIndexes
  BY <1>a, SysListAssumption
<1>10. DOMAIN index' \in {0 .. n - 1 : n \in 0 .. indexes'}
  BY <1>4, <1>9, <1>a
<1> QED BY <1>4, <1>5, <1>7, <1>8, <1>9, <1>10 DEF TypeOK

Replies == [op : {"init", "add", "get", "remove", "next"}, handle : Asked,
            val : Items \cup {Garbage, "OK", "EINVAL", "ENOMEM", "END"}]

LEMMA LookupType ==
    ASSUME TInv, NEW h, NEW val \in Lookup(h)
    PROVE  val \in Items \cup {Garbage, "EINVAL"}
<1>1. CASE indexes = 0 \/ h < FirstIndex \/ h - FirstIndex > indexes
  BY <1>1 DEF Lookup
<1>2. CASE ~(indexes = 0 \/ h < FirstIndex \/ h - FirstIndex > indexes)
  <2>1. PICK e \in Read(h - FirstIndex) : val = IF e.deleted THEN "EINVAL" ELSE e.item
    BY <1>2 DEF Lookup
  <2> QED BY <2>1, ReadEntry DEF Entry
<1> QED BY <1>1, <1>2

LEMMA GetType ==
    ASSUME TInv, NEW t \in Tasks, NEW h \in Asked, Get(t, h) \/ GetToRemove(t, h)
    PROVE  TInv'
<1>1. UNCHANGED <<listVars, mine, due>> /\ pc' \in [Tasks -> {"idle", "found", "scan"}]
      /\ hand' \in [Tasks -> Asked]
  BY DEF Get, GetToRemove, TInv, TypeOK
<1>2. PICK val \in Lookup(h) : reply' = Answer("get", h, val)
  BY DEF Get, GetToRemove
<1>3. reply' \in Replies
  BY <1>2, LookupType DEF Answer, Replies
<1> QED BY <1>1, <1>3 DEF TInv, TypeOK, NextInside, listVars, Replies

LEMMA RemoveType ==
    ASSUME TInv, NEW t \in Tasks, Remove(t)
    PROVE  TInv'
<1> DEFINE i == hand[t] - FirstIndex
<1>1. i \in DOMAIN index /\ i \in Slots
  BY ArrayIsPrefix DEF Remove, TInv
<1>2. index' = [index EXCEPT ![i].deleted = TRUE, ![i].next = free] /\ free' = i
      /\ DOMAIN index' = DOMAIN index
  BY DEF Remove
<1>3. free \in DOMAIN index \cup {NIL} /\ free \in Slots \cup {NIL}
  BY ArrayIsPrefix DEF TInv, TypeOK
<1>4. index'[i] \in Entry /\ index'[i].next = free
  <2>1. index[i] \in Entry
    BY <1>1, ArrayIsPrefix DEF TInv
  <2> QED BY <1>1, <1>2, <1>3, <2>1 DEF Entry
<1>5. \A j \in DOMAIN index : j # i => index'[j] = index[j]
  BY <1>2
<1> HIDE DEF i
<1>6. index' \in [DOMAIN index' -> Entry] /\ NextInside'
  BY <1>1, <1>2, <1>3, <1>4, <1>5 DEF TInv, TypeOK, NextInside
<1>7. /\ UNCHANGED <<indexes, noMem, hand>>
      /\ mine' \in [Tasks -> SUBSET Handles] /\ due' \in [Tasks -> SUBSET Handles]
      /\ pc' \in [Tasks -> {"idle", "found", "scan"}]
      /\ reply' \in Replies
  BY DEF Remove, TInv, TypeOK, Answer, Replies
<1> QED BY <1>1, <1>2, <1>6, <1>7 DEF TInv, TypeOK, Replies

\* The answers a scan may give from slot n on.
LEMMA ScanAnswer ==
    ASSUME TInv, NEW t \in Tasks, NEW n \in Int, ScanFrom(t, n)
    PROVE  \E a \in Replies :
              /\ Advance(t, a)
              /\ a.handle # NIL =>
                    /\ a.handle - FirstIndex >= n
                    /\ \A i \in LiveSlots : i >= n => a.handle - FirstIndex <= i
              /\ a.handle = NIL => \A i \in LiveSlots : i < n
<1>1. PICK extra \in SUBSET Phantoms :
        LET after == {j \in LiveSlots \cup extra : j >= n}
        IN  \/ /\ after = {}
               /\ Advance(t, Answer("next", NIL, "END"))
            \/ \E j \in after :
                /\ \A k \in after : j <= k
                /\ \E e \in Read(j) : Advance(t, Answer("next", j + FirstIndex, e.item))
  BY DEF ScanFrom
<1>2. \A i \in LiveSlots \cup extra : i \in Slots /\ i \in Int
  <2>1. DOMAIN index \subseteq Slots
    BY ArrayIsPrefix DEF TInv
  <2>2. Phantoms \subseteq Slots
    BY DEF Phantoms
  <2>3. Slots \subseteq Int
    BY SysListAssumption DEF Slots
  <2> QED BY <2>1, <2>2, <2>3 DEF LiveSlots
<1> DEFINE after == {j \in LiveSlots \cup extra : j >= n}
<1>3. CASE after = {} /\ Advance(t, Answer("next", NIL, "END"))
  <2>1. Answer("next", NIL, "END") \in Replies
    BY SysListAssumption DEF Answer, Replies, Asked, NIL
  <2>2. \A i \in LiveSlots : i < n
    BY <1>3, <1>2
  <2>3. Answer("next", NIL, "END").handle = NIL
    BY DEF Answer
  <2> QED BY <1>3, <2>1, <2>2, <2>3
<1>4. ASSUME NEW j \in after, \A k \in after : j <= k,
             NEW e \in Read(j), Advance(t, Answer("next", j + FirstIndex, e.item))
      PROVE  \E a \in Replies :
              /\ Advance(t, a)
              /\ a.handle # NIL =>
                    /\ a.handle - FirstIndex >= n
                    /\ \A i \in LiveSlots : i >= n => a.handle - FirstIndex <= i
              /\ a.handle = NIL => \A i \in LiveSlots : i < n
  <2>0. j \in Slots /\ j \in Int
    BY <1>2
  <2>1. j + FirstIndex \in Asked /\ j + FirstIndex # NIL /\ j + FirstIndex - FirstIndex = j
    BY <2>0, HandleOfSlot, SysListAssumption
  <2>2. Answer("next", j + FirstIndex, e.item) \in Replies
    BY <2>1, ReadEntry DEF Answer, Replies, Entry
  <2>3. Answer("next", j + FirstIndex, e.item).handle = j + FirstIndex
    BY DEF Answer
  <2>4. j >= n /\ \A i \in LiveSlots : i >= n => j <= i
    BY <1>4
  <2>5. (j + FirstIndex) - FirstIndex >= n
        /\ \A i \in LiveSlots : i >= n => (j + FirstIndex) - FirstIndex <= i
    BY <1>2, <2>0, <2>4, SysListAssumption
  <2> QED BY <1>4, <2>1, <2>2, <2>3, <2>5
<1> QED BY <1>1, <1>3, <1>4

LEMMA ScanType ==
    ASSUME TInv, NEW t \in Tasks, First(t) \/ NextIndex(t)
    PROVE  TInv'
<1>1. PICK n \in Int : ScanFrom(t, n)
  <2>1. CASE First(t)
    BY <2>1 DEF First
  <2>2. CASE NextIndex(t)
    <3>1. hand[t] - FirstIndex + 1 \in Int
      BY SysListAssumption DEF TInv, TypeOK, Asked
    <3> QED BY <2>2, <3>1 DEF NextIndex
  <2> QED BY <2>1, <2>2
<1>2. PICK a \in Replies : Advance(t, a)
  BY <1>1, ScanAnswer
<1>3. /\ reply' \in Replies /\ hand' \in [Tasks -> Asked]
      /\ pc' \in [Tasks -> {"idle", "found", "scan"}]
      /\ UNCHANGED <<listVars, mine>>
  BY <1>2 DEF Advance, TInv, TypeOK, Replies
<1>4. due' \in [Tasks -> SUBSET Handles]
  <2>1. LiveHandles \subseteq Handles
    BY ArrayIsPrefix, HandleOfSlot DEF TInv, LiveHandles, LiveSlots
  <2> QED BY <2>1 DEF First, NextIndex, TInv, TypeOK
<1> QED BY <1>3, <1>4 DEF TInv, TypeOK, NextInside, listVars, Replies

LEMMA NoMemoryType ==
    ASSUME TInv, NEW t \in Tasks, AddNoMemory(t)
    PROVE  TInv'
<1>1. indexes' \in 0 .. MaxIndexes /\ indexes <= indexes' /\ noMem' \in 0 .. MaxNoMem
  BY SysListAssumption DEF AddNoMemory, TInv, TypeOK
<1>2. reply' \in Replies
  BY SysListAssumption DEF AddNoMemory, Answer, Replies, Asked
<1>3. DOMAIN index' \in {0 .. n - 1 : n \in 0 .. indexes'}
  BY <1>1, ArrayIsPrefix DEF AddNoMemory, TInv, TypeOK
<1> QED BY <1>1, <1>2, <1>3 DEF AddNoMemory, TInv, TypeOK, NextInside, Replies

LEMMA TypeStep == TInv /\ [Next]_vars => TInv'
<1> SUFFICES ASSUME TInv, [Next]_vars PROVE TInv'
  OBVIOUS
<1>1. CASE UNCHANGED vars
  BY <1>1 DEF vars, TInv, TypeOK, NextInside
<1>2. CASE Next
  BY <1>2, AddReuseType, AddGrowType, NoMemoryType, GetType, RemoveType, ScanType DEF Next
<1> QED BY <1>1, <1>2

LEMMA TypeInvariance == Spec => []TInv
BY TypeInit, TypeStep, PTL DEF Spec

(***************************************************************************)
(* Callers that delete their own handles                                   *)
(***************************************************************************)
Owned == ChainWhole /\ FoundIsMine /\ HandlesAreExclusive

LEMMA OwnedInit == Init => Owned
BY DEF Init, Owned, ChainWhole, FoundIsMine, HandlesAreExclusive, Dead

\* A handle that a task holds is that of a slot in use.
LEMMA MineIsLive ==
    ASSUME TInv, Owned, NEW t \in Tasks, NEW h \in mine[t]
    PROVE  h - FirstIndex \in DOMAIN index /\ ~index[h - FirstIndex].deleted
<1>1. h \in LiveHandles
  BY DEF Owned, HandlesAreExclusive
<1>2. PICK i \in DOMAIN index : ~index[i].deleted /\ h = i + FirstIndex
  BY <1>1 DEF LiveHandles, LiveSlots
<1>3. i \in Int
  BY ArrayIsPrefix, SysListAssumption DEF TInv, Slots
<1> QED BY <1>2, <1>3, SysListAssumption

\* When a slot that nobody holds is given to a task, and no other slot stops
\* being in use, handles stay exclusive.
LEMMA IssueKeepsOwned ==
    ASSUME TInv, Owned, NEW t \in Tasks, NEW i \in Slots, NEW it, Issue(t, i, it),
           i \notin LiveSlots, i \in LiveSlots', LiveSlots \subseteq LiveSlots'
    PROVE  FoundIsMine' /\ HandlesAreExclusive'
<1>1. \A u \in Tasks : i + FirstIndex \notin mine[u]
  <2> SUFFICES ASSUME NEW u \in Tasks, i + FirstIndex \in mine[u] PROVE FALSE
    OBVIOUS
  <2>1. i \in Int /\ (i + FirstIndex) - FirstIndex = i
    BY SysListAssumption DEF Slots
  <2>2. i \in DOMAIN index /\ ~index[i].deleted
    BY <2>1, MineIsLive
  <2> QED BY <2>2 DEF LiveSlots
<1>2. /\ mine' = [mine EXCEPT ![t] = @ \cup {i + FirstIndex}]
      /\ mine \in [Tasks -> SUBSET Handles]
      /\ UNCHANGED <<pc, hand>>
  BY DEF Issue, TInv, TypeOK
<1>3. FoundIsMine'
  BY <1>2 DEF Owned, FoundIsMine
<1>4. LiveHandles \subseteq LiveHandles' /\ i + FirstIndex \in LiveHandles'
  BY DEF LiveHandles
<1>5. \A u, w \in Tasks : u # w => mine'[u] \cap mine'[w] = {}
  BY <1>1, <1>2 DEF Owned, HandlesAreExclusive
<1>6. \A u \in Tasks : mine'[u] \subseteq LiveHandles'
  BY <1>2, <1>4 DEF Owned, HandlesAreExclusive
<1> QED BY <1>3, <1>5, <1>6 DEF HandlesAreExclusive

LEMMA AddReuseOwned ==
    ASSUME TInv, Owned, NEW t \in Tasks, NEW it \in Items, AddReuse(t, it)
    PROVE  Owned'
<1>1. free \in DOMAIN index /\ free \in Slots /\ index[free].deleted
  BY ArrayIsPrefix DEF AddReuse, Owned, ChainWhole, Dead, TInv
<1>2. /\ DOMAIN index' = DOMAIN index /\ index'[free] = Occupied(it)
      /\ \A i \in DOMAIN index : i # free => index'[i] = index[i]
      /\ free' = index[free].next
  BY <1>1 DEF AddReuse
<1>3. ~Occupied(it).deleted
  BY DEF Occupied
<1>4. ChainWhole'
  BY <1>1, <1>2, <1>3 DEF Owned, ChainWhole, Dead
<1>5. free \notin LiveSlots /\ free \in LiveSlots' /\ LiveSlots \subseteq LiveSlots'
  BY <1>1, <1>2, <1>3 DEF LiveSlots
<1> QED BY <1>1, <1>4, <1>5, IssueKeepsOwned DEF AddReuse, Owned

LEMMA AddGrowOwned ==
    ASSUME TInv, Owned, NEW t \in Tasks, NEW it \in Items, AddGrow(t, it)
    PROVE  Owned'
<1>1. PICK copied :
        /\ \A i \in 0 .. indexes - 1 : copied[i] \in Read(i)
        /\ index' = [i \in 0 .. indexes |-> IF i = indexes THEN Occupied(it) ELSE copied[i]]
  BY DEF AddGrow
<1>2. /\ indexes \in Slots /\ indexes \in Nat /\ DOMAIN index \subseteq 0 .. indexes - 1
      /\ free = NIL /\ free' = NIL
  BY ArrayIsPrefix, SysListAssumption DEF AddGrow, TInv, TypeOK, Slots
<1>3. \A i \in DOMAIN index : index'[i] = index[i]
  <2> TAKE i \in DOMAIN index
  <2>1. i \in 0 .. indexes - 1 /\ i \in 0 .. indexes /\ i # indexes
    BY <1>2
  <2>2. index'[i] = copied[i] /\ copied[i] \in Read(i)
    BY <2>1, <1>1
  <2> QED BY <2>2 DEF Read
<1>4. \A i \in DOMAIN index' \ DOMAIN index : index'[i].next = NIL
  <2> TAKE i \in DOMAIN index' \ DOMAIN index
  <2>1. CASE i = indexes
    BY <2>1, <1>1 DEF Occupied
  <2>2. CASE i # indexes
    <3>1. i \in 0 .. indexes - 1 /\ index'[i] \in Read(i)
      BY <2>2, <1>1, <1>2
    <3> QED BY <3>1 DEF Read
  <2> QED BY <2>1, <2>2
<1>5. DOMAIN index \subseteq DOMAIN index' /\ indexes \notin DOMAIN index
      /\ indexes \in DOMAIN index' /\ ~index'[indexes].deleted
  BY <1>1, <1>2 DEF Occupied
<1>6. ChainWhole'
  BY <1>2, <1>3, <1>4, <1>5 DEF Owned, ChainWhole, Dead
<1>7. indexes \notin LiveSlots /\ indexes \in LiveSlots' /\ LiveSlots \subseteq LiveSlots'
  BY <1>3, <1>5 DEF LiveSlots
<1> QED BY <1>2, <1>6, <1>7, IssueKeepsOwned DEF AddGrow, Owned

LEMMA RemoveOwned ==
    ASSUME TInv, Owned, NEW t \in Tasks, Remove(t)
    PROVE  Owned'
<1> DEFINE h == hand[t]  i == h - FirstIndex
<1>1. h \in mine[t] /\ h \in Handles
  BY DEF Remove, Owned, FoundIsMine, TInv, TypeOK
<1>2. i \in DOMAIN index /\ ~index[i].deleted /\ h = i + FirstIndex
  BY <1>1, MineIsLive, SysListAssumption DEF Handles
<1>3. /\ DOMAIN index' = DOMAIN index /\ index'[i].deleted /\ index'[i].next = free
      /\ \A j \in DOMAIN index : j # i => index'[j] = index[j]
      /\ free' = i
  <2>1. index[i] \in Entry
    BY <1>2, ArrayIsPrefix DEF TInv
  <2> QED BY <1>2, <2>1 DEF Remove, Entry
<1>4. /\ mine' = [u \in Tasks |-> mine[u] \ {h}]
      /\ pc' = [pc EXCEPT ![t] = "idle"] /\ hand' = hand
      /\ pc \in [Tasks -> {"idle", "found", "scan"}]
  BY DEF Remove, TInv, TypeOK
<1> HIDE DEF h, i
<1>5. ChainWhole'
  BY <1>2, <1>3 DEF Owned, ChainWhole, Dead
<1>6. FoundIsMine'
  <2> SUFFICES ASSUME NEW u \in Tasks, pc'[u] = "found" PROVE hand'[u] \in mine'[u]
    BY DEF FoundIsMine
  <2>1. u # t /\ hand[u] \in mine[u]
    BY <1>4 DEF Owned, FoundIsMine
  <2>2. h \notin mine[u]
    BY <1>1, <2>1 DEF Owned, HandlesAreExclusive
  <2> QED BY <1>4, <2>1, <2>2
<1>7. \A g \in LiveHandles : g # h => g \in LiveHandles'
  <2> SUFFICES ASSUME NEW g \in LiveHandles, g # h PROVE g \in LiveHandles'
    OBVIOUS
  <2>1. PICK j \in DOMAIN index : ~index[j].deleted /\ g = j + FirstIndex
    BY DEF LiveHandles, LiveSlots
  <2>2. j # i
    BY <2>1, <1>2
  <2> QED BY <1>3, <2>1, <2>2 DEF LiveHandles, LiveSlots
<1>8. HandlesAreExclusive'
  BY <1>4, <1>7 DEF Owned, HandlesAreExclusive
<1> QED BY <1>5, <1>6, <1>8 DEF Owned

LEMMA OwnedStep ==
    ASSUME OwnersOnly
    PROVE  TInv /\ Owned /\ [Next]_vars => Owned'
<1> SUFFICES ASSUME TInv, Owned, [Next]_vars PROVE Owned'
  OBVIOUS
<1> USE DEF Owned, ChainWhole, Dead, FoundIsMine, HandlesAreExclusive, LiveHandles, LiveSlots
<1>1. CASE UNCHANGED vars
  BY <1>1 DEF vars
<1>2. ASSUME NEW t \in Tasks, AddNoMemory(t) PROVE Owned'
  BY <1>2 DEF AddNoMemory
<1>3. ASSUME NEW t \in Tasks, NEW h \in Asked, Get(t, h) PROVE Owned'
  BY <1>3 DEF Get, listVars
<1>4. ASSUME NEW t \in Tasks, NEW h \in Asked, GetToRemove(t, h) PROVE Owned'
  <2>1. h \in mine[t] /\ UNCHANGED <<listVars, mine>>
    BY <1>4 DEF GetToRemove
  <2>2. \A u \in Tasks : pc'[u] = "found" => hand'[u] \in mine'[u]
    BY <1>4, <2>1 DEF GetToRemove, TInv, TypeOK
  <2> QED BY <2>1, <2>2 DEF listVars
<1>5. ASSUME NEW t \in Tasks, First(t) \/ NextIndex(t) PROVE Owned'
  <2>1. PICK a : Advance(t, a)
    BY <1>5 DEF First, NextIndex, ScanFrom
  <2>2. UNCHANGED <<listVars, mine>>
        /\ \A u \in Tasks : pc'[u] = "found" => u # t /\ pc[u] = "found" /\ hand'[u] = hand[u]
    BY <2>1 DEF Advance, TInv, TypeOK
  <2> QED BY <2>2 DEF listVars
<1> QED BY <1>1, <1>2, <1>3, <1>4, <1>5, AddReuseOwned, AddGrowOwned, RemoveOwned DEF Next

LEMMA OwnedInvariance == ASSUME OwnersOnly PROVE Spec => [](TInv /\ Owned)
BY TypeInit, TypeStep, OwnedInit, OwnedStep, PTL DEF Spec

(***************************************************************************)
(* Scans                                                                   *)
(***************************************************************************)
\* What is in use stays in use, but for the handle that a task removes.
LEMMA LiveStep ==
    ASSUME TInv, [Next]_vars, NEW g \in LiveHandles
    PROVE  g \in LiveHandles' \/ \E t \in Tasks : Remove(t) /\ g = hand[t]
<1>0. PICK j \in DOMAIN index : ~index[j].deleted /\ g = j + FirstIndex
  BY DEF LiveHandles, LiveSlots
<1>1. SUFFICES ASSUME \A t \in Tasks : Remove(t) => g # hand[t]
               PROVE  j \in DOMAIN index' /\ ~index'[j].deleted
  BY <1>0 DEF LiveHandles, LiveSlots
<1>2. CASE index' = index
  BY <1>0, <1>2
<1>3. ASSUME NEW t \in Tasks, NEW it \in Items, AddReuse(t, it)
      PROVE  j \in DOMAIN index' /\ ~index'[j].deleted
  BY <1>0, <1>3 DEF AddReuse, Occupied, TInv, TypeOK
<1>4. ASSUME NEW t \in Tasks, NEW it \in Items, AddGrow(t, it)
      PROVE  j \in DOMAIN index' /\ ~index'[j].deleted
  <2>1. PICK copied :
        /\ \A i \in 0 .. indexes - 1 : copied[i] \in Read(i)
        /\ index' = [i \in 0 .. indexes |-> IF i = indexes THEN Occupied(it) ELSE copied[i]]
    BY <1>4 DEF AddGrow
  <2>2. j \in 0 .. indexes - 1 /\ j \in 0 .. indexes /\ j # indexes
    BY <1>0, ArrayIsPrefix DEF TInv, TypeOK
  <2>3. index'[j] = copied[j] /\ copied[j] \in Read(j) /\ j \in DOMAIN index'
    BY <2>1, <2>2
  <2> QED BY <1>0, <2>3 DEF Read
<1>5. ASSUME NEW t \in Tasks, Remove(t) PROVE j \in DOMAIN index' /\ ~index'[j].deleted
  <2>1. j # hand[t] - FirstIndex
    <3>1. hand[t] \in Int /\ j \in Int /\ g # hand[t]
      BY <1>0, <1>1, <1>5, ArrayIsPrefix, SysListAssumption DEF TInv, TypeOK, Asked, Slots
    <3> QED BY <1>0, <3>1, SysListAssumption
  <2> QED BY <1>0, <1>5, <2>1 DEF Remove
<1>6. ASSUME NEW t \in Tasks,
             \/ AddNoMemory(t)
             \/ \E h \in Asked : Get(t, h) \/ GetToRemove(t, h)
             \/ First(t) \/ NextIndex(t)
      PROVE  index' = index
  BY <1>6 DEF AddNoMemory, Get, GetToRemove, First, NextIndex, ScanFrom, Advance, listVars
<1>7. CASE UNCHANGED vars
  BY <1>2, <1>7 DEF vars
<1> QED BY <1>2, <1>3, <1>4, <1>5, <1>6, <1>7 DEF Next

\* The answer of a scan leaves behind only what it was told to skip.
LEMMA ScanPasses ==
    ASSUME TInv, NEW t \in Tasks, NEW n \in Int, ScanFrom(t, n)
    PROVE  /\ pc' = [pc EXCEPT ![t] = IF hand'[t] = NIL THEN "idle" ELSE "scan"]
           /\ UNCHANGED <<index, mine>> /\ \A u \in Tasks \ {t} : hand'[u] = hand[u]
           /\ \A h \in LiveHandles : h >= n + FirstIndex =>
                 hand'[t] # NIL /\ hand'[t] <= h
<1>1. PICK a \in Replies :
        /\ Advance(t, a)
        /\ a.handle # NIL =>
              /\ a.handle - FirstIndex >= n
              /\ \A i \in LiveSlots : i >= n => a.handle - FirstIndex <= i
        /\ a.handle = NIL => \A i \in LiveSlots : i < n
  BY ScanAnswer
<1>2. hand'[t] = a.handle /\ a.handle \in Int
  BY <1>1, SysListAssumption DEF Advance, TInv, TypeOK, Replies, Asked
<1>3. ASSUME NEW h \in LiveHandles, h >= n + FirstIndex
      PROVE  hand'[t] # NIL /\ hand'[t] <= h
  <2>1. PICK i \in LiveSlots : h = i + FirstIndex
    BY DEF LiveHandles
  <2>2. i \in Int
    BY ArrayIsPrefix, SysListAssumption DEF LiveSlots, TInv, Slots
  <2>3. i >= n
    BY <1>3, <2>1, <2>2, SysListAssumption
  <2> QED BY <1>1, <1>2, <2>1, <2>2, <2>3, SysListAssumption
<1> QED BY <1>1, <1>2, <1>3 DEF Advance, listVars, TInv, TypeOK

LEMMA AheadInit == Init => ScanAhead
BY DEF Init, ScanAhead

\* A call of a scan leaves what is still due ahead of it, or nothing at its end.
LEMMA AheadScan ==
    ASSUME TInv, ScanAhead, NEW t \in Tasks, First(t) \/ NextIndex(t)
    PROVE  /\ ScanAhead'
           /\ \A u \in Tasks : pc[u] = "scan" /\ pc'[u] = "idle" => due'[u] = {}
<1> DEFINE n == IF pc[t] = "idle" THEN 0 ELSE hand[t] - FirstIndex + 1
           before == IF pc[t] = "idle" THEN LiveHandles ELSE due[t]
<1>1. n \in Int /\ ScanFrom(t, n) /\ pc[t] \in {"idle", "scan"}
      /\ due' = [due EXCEPT ![t] = before \ {hand'[t]}]
  BY SysListAssumption DEF First, NextIndex, TInv, TypeOK, Asked
<1>2. \A h \in LiveHandles : h \in Int /\ h >= FirstIndex
  BY ArrayIsPrefix, SysListAssumption DEF LiveHandles, LiveSlots, TInv, Slots
<1>3. \A h \in before : h \in LiveHandles /\ h >= n + FirstIndex
  <2>1. CASE pc[t] = "idle"
    BY <2>1, <1>2, SysListAssumption
  <2>2. CASE pc[t] = "scan"
    <3>1. \A h \in due[t] : h \in LiveHandles /\ h > hand[t]
      BY <2>2 DEF ScanAhead
    <3>2. hand[t] \in Int /\ before = due[t] /\ n + FirstIndex = hand[t] + 1
      BY <2>2, SysListAssumption DEF TInv, TypeOK, Asked
    <3> HIDE DEF n, before
    <3> QED BY <3>1, <3>2, <1>2
  <2> QED BY <2>1, <2>2, <1>1
<1> HIDE DEF n, before
<1>4. /\ pc' = [pc EXCEPT ![t] = IF hand'[t] = NIL THEN "idle" ELSE "scan"]
      /\ UNCHANGED <<index, mine>> /\ \A u \in Tasks \ {t} : hand'[u] = hand[u]
      /\ \A h \in LiveHandles : h >= n + FirstIndex => hand'[t] # NIL /\ hand'[t] <= h
  BY <1>1, ScanPasses
<1>5. LiveHandles' = LiveHandles
  BY <1>4 DEF LiveHandles, LiveSlots
<1>6. \A h \in before \ {hand'[t]} : h \in LiveHandles /\ hand'[t] # NIL /\ h > hand'[t]
  <2>1. hand'[t] \in Int
    <3>1. TInv'
      BY ScanType
    <3> QED BY <3>1, SysListAssumption DEF TInv, TypeOK, Asked
  <2> QED BY <1>2, <1>3, <1>4, <2>1
<1>7. pc'[t] = "idle" => due'[t] = {}
  BY <1>1, <1>4, <1>6 DEF TInv, TypeOK
<1>8. \A u \in Tasks \ {t} : pc'[u] = pc[u] /\ due'[u] = due[u] /\ hand'[u] = hand[u]
  BY <1>1, <1>4 DEF TInv, TypeOK
<1>9. ScanAhead'
  <2> SUFFICES ASSUME NEW u \in Tasks, pc'[u] = "scan", NEW h \in due'[u]
               PROVE  h \in LiveHandles /\ h > hand'[u]
    BY <1>5 DEF ScanAhead
  <2>1. CASE u = t
    BY <2>1, <1>1, <1>6 DEF TInv, TypeOK
  <2>2. CASE u # t
    BY <2>2, <1>8 DEF ScanAhead
  <2> QED BY <2>1, <2>2
<1> QED BY <1>7, <1>8, <1>9

LEMMA AheadStep ==
    ASSUME TInv, ScanAhead, [Next]_vars
    PROVE  /\ ScanAhead'
           /\ \A u \in Tasks : pc[u] = "scan" /\ pc'[u] = "idle" => due'[u] = {}
<1>1. CASE UNCHANGED vars
  BY <1>1 DEF vars, ScanAhead, LiveHandles, LiveSlots
<1>2. CASE \E t \in Tasks : First(t) \/ NextIndex(t)
  BY <1>2, AheadScan
<1>3. ASSUME NEW t \in Tasks,
             \/ \E it \in Items : AddReuse(t, it) \/ AddGrow(t, it)
             \/ AddNoMemory(t)
             \/ \E h \in Asked : Get(t, h) \/ GetToRemove(t, h)
      PROVE  /\ ScanAhead'
             /\ \A u \in Tasks : pc[u] = "scan" /\ pc'[u] = "idle" => due'[u] = {}
  <2>1. /\ pc[t] = "idle" /\ pc'[t] # "scan" /\ due' = due
        /\ \A u \in Tasks \ {t} : pc'[u] = pc[u] /\ hand'[u] = hand[u]
    BY <1>3 DEF AddReuse, AddGrow, AddNoMemory, Issue, Get, GetToRemove, TInv, TypeOK
  <2>2. \A u \in Tasks : ~Remove(u)
    BY <1>3 DEF Remove, AddReuse, AddGrow, AddNoMemory, Issue, Get, GetToRemove, Answer
  <2>3. LiveHandles \subseteq LiveHandles'
    BY <2>2, LiveStep
  <2> QED BY <2>1, <2>3 DEF ScanAhead
<1>4. ASSUME NEW t \in Tasks, Remove(t)
      PROVE  /\ ScanAhead'
             /\ \A u \in Tasks : pc[u] = "scan" /\ pc'[u] = "idle" => due'[u] = {}
  <2>1. /\ pc[t] = "found" /\ pc'[t] = "idle" /\ hand' = hand
        /\ \A u \in Tasks : due'[u] = due[u] \ {hand[t]}
        /\ \A u \in Tasks \ {t} : pc'[u] = pc[u]
    BY <1>4 DEF Remove, TInv, TypeOK
  <2>2. \A g \in LiveHandles : g # hand[t] => g \in LiveHandles'
    <3> SUFFICES ASSUME NEW g \in LiveHandles, g # hand[t] PROVE g \in LiveHandles'
      OBVIOUS
    <3>1. \A u \in Tasks : Remove(u) => hand[u] = hand[t]
      BY <1>4 DEF Remove, Answer
    <3> QED BY <3>1, LiveStep
  <2> QED BY <2>1, <2>2 DEF ScanAhead
<1> QED BY <1>1, <1>2, <1>3, <1>4 DEF Next

(***************************************************************************)
(* The table of handles                                                    *)
(***************************************************************************)
\* Every slot that is counted has memory.
Full == DOMAIN index = 0 .. indexes - 1

LEMMA FullInit == Init => Full
BY DEF Init, Full

LEMMA FullStep == ASSUME MaxNoMem = 0 PROVE TInv /\ Full /\ [Next]_vars => Full'
<1> SUFFICES ASSUME TInv, Full, [Next]_vars PROVE Full'
  OBVIOUS
<1>1. CASE UNCHANGED <<index, indexes>>
  BY <1>1 DEF Full
<1>2. ASSUME NEW t \in Tasks, NEW it \in Items, AddReuse(t, it) PROVE Full'
  BY <1>2 DEF AddReuse, Full
<1>3. ASSUME NEW t \in Tasks, NEW it \in Items, AddGrow(t, it) PROVE Full'
  <2>1. DOMAIN index' = 0 .. indexes /\ indexes' = indexes + 1 /\ indexes \in Nat
    BY <1>3, SysListAssumption DEF AddGrow, TInv, TypeOK
  <2> QED BY <2>1 DEF Full
<1>4. ASSUME NEW t \in Tasks, AddNoMemory(t) PROVE Full'
  BY <1>4 DEF AddNoMemory, TInv, TypeOK
<1>5. ASSUME NEW t \in Tasks, Remove(t) PROVE Full'
  BY <1>5 DEF Remove, Full
<1>6. ASSUME NEW t \in Tasks,
             \/ \E h \in Asked : Get(t, h) \/ GetToRemove(t, h)
             \/ First(t) \/ NextIndex(t)
      PROVE  UNCHANGED <<index, indexes>>
  BY <1>6 DEF Get, GetToRemove, First, NextIndex, ScanFrom, Advance, listVars
<1>7. CASE UNCHANGED vars
  BY <1>1, <1>7 DEF vars
<1> QED BY <1>1, <1>2, <1>3, <1>4, <1>5, <1>6, <1>7 DEF Next

\* The items in use, by handle.
InUse == [h \in LiveHandles |-> index[h - FirstIndex].item]

\* A handle in use and its slot.
LEMMA LiveSlot ==
    ASSUME TInv, NEW h \in Int
    PROVE  h \in LiveHandles <=> h - FirstIndex \in DOMAIN index /\ ~index[h - FirstIndex].deleted
<1>1. ASSUME NEW i \in LiveSlots, h = i + FirstIndex PROVE i = h - FirstIndex
  BY <1>1, ArrayIsPrefix, SysListAssumption DEF LiveSlots, TInv, Slots
<1>2. (h - FirstIndex) + FirstIndex = h
  BY SysListAssumption
<1> QED BY <1>1, <1>2 DEF LiveHandles, LiveSlots

LEMMA LiveAreHandles ==
    ASSUME TInv PROVE LiveHandles \subseteq Handles /\ Handles \subseteq Int
BY ArrayIsPrefix, HandleOfSlot, SysListAssumption DEF TInv, LiveHandles, LiveSlots, Handles

\* An add that marks slot i in use, and touches no other, gives a handle.
LEMMA AddGives ==
    ASSUME TInv, TInv', NEW t \in Tasks, NEW i \in Slots, NEW it \in Items,
           Issue(t, i, it), i \notin LiveSlots,
           LiveSlots' = LiveSlots \cup {i}, index'[i].item = it,
           \A j \in LiveSlots : index'[j].item = index[j].item
    PROVE  Table!Give(it)
<1> DEFINE h == i + FirstIndex
<1>1. h \in Handles /\ i \in Int /\ h \in Int /\ h - FirstIndex = i
  BY HandleOfSlot, SysListAssumption DEF Slots, Handles
<1>2. h \notin LiveHandles
  BY <1>1, LiveSlot DEF LiveSlots
<1>3. LiveHandles' = LiveHandles \cup {h}
  BY DEF LiveHandles
<1>4. \A g \in LiveHandles : g - FirstIndex \in LiveSlots
  BY LiveSlot, LiveAreHandles DEF LiveSlots
<1> HIDE DEF h
<1>5. [g \in LiveHandles' |-> index'[g - FirstIndex].item]
        = [x \in LiveHandles \cup {h} |-> IF x = h THEN it ELSE InUse[x]]
  BY <1>1, <1>2, <1>3, <1>4 DEF InUse
<1>6. reply' = Answer("add", h, it)
  BY DEF Issue, h
<1> QED BY <1>1, <1>2, <1>5, <1>6 DEF Table!Give, Table!Answer, Answer, InUse

LEMMA GetFinds ==
    ASSUME TInv, Full, ~PastEnd, NEW t \in Tasks, NEW h \in Asked,
           Get(t, h) \/ GetToRemove(t, h)
    PROVE  Table!Find(h)
<1>1. PICK val \in Lookup(h) : reply' = Answer("get", h, val)
  BY DEF Get, GetToRemove
<1>2. UNCHANGED listVars /\ h # FirstIndex + indexes /\ h \in Int /\ indexes \in Nat
  BY SysListAssumption DEF Get, GetToRemove, Presented, Asked, TInv, TypeOK
<1>3. val = IF h \in LiveHandles THEN InUse[h] ELSE "EINVAL"
  <2>1. CASE h - FirstIndex \in DOMAIN index
    <3>1. val \in {IF e.deleted THEN "EINVAL" ELSE e.item : e \in {index[h - FirstIndex]}}
      BY <2>1, <1>2, SysListAssumption DEF Lookup, Read, Full
    <3> QED BY <2>1, <3>1, <1>2, LiveSlot DEF InUse
  <2>2. CASE h - FirstIndex \notin DOMAIN index
    <3>1. h < FirstIndex \/ h - FirstIndex > indexes
      BY <2>2, <1>2, SysListAssumption DEF Full
    <3> QED BY <2>2, <3>1, <1>2, LiveSlot DEF Lookup
  <2> QED BY <2>1, <2>2
<1>4. UNCHANGED InUse
  BY <1>2 DEF InUse, LiveHandles, LiveSlots, listVars
<1> QED BY <1>1, <1>3, <1>4 DEF Table!Find, Table!Answer, Answer, InUse

LEMMA RemoveTakesBack ==
    ASSUME TInv, Owned, NEW t \in Tasks, Remove(t)
    PROVE  \E h \in Handles : Table!TakeBack(h)
<1>0. PICK h \in Handles : h = hand[t] /\ h \in mine[t] /\ h \in Int
  BY SysListAssumption DEF Remove, Owned, FoundIsMine, TInv, TypeOK, Handles
<1>1. h - FirstIndex \in DOMAIN index /\ h \in LiveHandles
  BY <1>0, MineIsLive, LiveSlot
<1>2. /\ DOMAIN index' = DOMAIN index /\ index'[h - FirstIndex].deleted
      /\ \A j \in DOMAIN index : j # h - FirstIndex => index'[j] = index[j]
  <2>1. index[h - FirstIndex] \in Entry
    BY <1>1, ArrayIsPrefix DEF TInv
  <2> QED BY <1>0, <1>1, <2>1 DEF Remove, Entry
<1>3. \A g \in LiveHandles \ {h} : g \in LiveHandles' /\ index'[g - FirstIndex] = index[g - FirstIndex]
  <2> TAKE g \in LiveHandles \ {h}
  <2>1. g \in Int /\ g - FirstIndex # h - FirstIndex
    <3>1. g \in Int /\ g # h
      BY LiveAreHandles
    <3> QED BY <1>0, <3>1, SysListAssumption
  <2>2. g - FirstIndex \in DOMAIN index /\ ~index[g - FirstIndex].deleted
    BY <2>1, LiveSlot
  <2>3. (g - FirstIndex) + FirstIndex = g
    BY <2>1, SysListAssumption
  <2> QED BY <1>2, <2>1, <2>2, <2>3 DEF LiveHandles, LiveSlots
<1>4. \A g \in LiveHandles' : g \in LiveHandles /\ g # h
  <2> TAKE g \in LiveHandles'
  <2>1. PICK j \in DOMAIN index' : ~index'[j].deleted /\ g = j + FirstIndex
    BY DEF LiveHandles, LiveSlots
  <2>2. j \in DOMAIN index /\ j # h - FirstIndex /\ ~index[j].deleted /\ j \in Int
    BY <2>1, <1>2, ArrayIsPrefix, SysListAssumption DEF TInv, Slots
  <2> QED BY <1>0, <2>1, <2>2, SysListAssumption DEF LiveHandles, LiveSlots
<1>5. LiveHandles' = LiveHandles \ {h}
  BY <1>3, <1>4
<1>6. [g \in LiveHandles' |-> index'[g - FirstIndex].item] = [x \in LiveHandles \ {h} |-> InUse[x]]
  BY <1>3, <1>5 DEF InUse
<1>7. reply' = Answer("remove", h, "OK")
  BY <1>0 DEF Remove
<1>8. Table!TakeBack(h)
  BY <1>0, <1>1, <1>5, <1>6, <1>7 DEF Table!TakeBack, Table!Answer, Answer, InUse
<1> QED BY <1>8

\* A call of a scan from slot n on answers the next handle in use.
LEMMA ScanIsNextAbove ==
    ASSUME TInv, Full, NEW t \in Tasks, NEW n \in Int, ScanFrom(t, n)
    PROVE  Table!NextAbove(n + FirstIndex - 1)
<1>1. Phantoms = {}
  <2>1. indexes \in Nat
    BY DEF TInv, TypeOK
  <2> QED BY <2>1, SysListAssumption DEF Phantoms, Full, Slots
<1>2. \/ /\ \A j \in LiveSlots : ~(j >= n)
         /\ Advance(t, Answer("next", NIL, "END"))
      \/ \E j \in LiveSlots :
            /\ j >= n /\ \A k \in LiveSlots : k >= n => j <= k
            /\ \E e \in Read(j) : Advance(t, Answer("next", j + FirstIndex, e.item))
  BY <1>1 DEF ScanFrom
<1>3. \A h \in LiveHandles : h \in Int /\ h - FirstIndex \in LiveSlots
  BY LiveSlot, LiveAreHandles DEF LiveSlots
<1>4. UNCHANGED InUse
  BY <1>2 DEF Advance, listVars, InUse, LiveHandles, LiveSlots
<1>5. CASE /\ \A j \in LiveSlots : ~(j >= n)
           /\ Advance(t, Answer("next", NIL, "END"))
  <2>1. \A x \in LiveHandles : ~(x > n + FirstIndex - 1)
    <3> TAKE x \in LiveHandles
    <3>1. ~(x - FirstIndex >= n) /\ x \in Int
      BY <1>3, <1>5
    <3> QED BY <3>1, SysListAssumption
  <2>2. reply' = Answer("next", -1, "END")
    BY <1>5 DEF Advance, NIL
  <2> QED BY <1>4, <2>1, <2>2 DEF Table!NextAbove, Table!Answer, Answer, InUse
<1>6. ASSUME NEW j \in LiveSlots, j >= n, \A k \in LiveSlots : k >= n => j <= k,
             NEW e \in Read(j), Advance(t, Answer("next", j + FirstIndex, e.item))
      PROVE  Table!NextAbove(n + FirstIndex - 1)
  <2>1. PICK h \in LiveHandles : h = j + FirstIndex /\ j = h - FirstIndex /\ h > n + FirstIndex - 1
    BY <1>6, ArrayIsPrefix, SysListAssumption DEF LiveHandles, LiveSlots, TInv, Slots
  <2>2. \A y \in LiveHandles : y > n + FirstIndex - 1 => h <= y
    <3> TAKE y \in LiveHandles
    <3>1. y \in Int /\ (y - FirstIndex >= n => j <= y - FirstIndex)
      BY <1>3, <1>6
    <3>2. j \in Int
      BY ArrayIsPrefix, SysListAssumption DEF LiveSlots, TInv, Slots
    <3> QED BY <2>1, <3>1, <3>2, SysListAssumption
  <2>3. e = index[h - FirstIndex]
    BY <2>1 DEF Read, LiveSlots
  <2>4. reply' = Answer("next", h, InUse[h])
    BY <1>6, <2>1, <2>3 DEF Advance, InUse
  <2> QED BY <1>4, <2>1, <2>2, <2>4 DEF Table!NextAbove, Table!Answer, Answer, InUse
<1> QED BY <1>2, <1>5, <1>6

LEMMA TableStep ==
    ASSUME OwnersOnly, ~PastEnd, MaxNoMem = 0,
           TInv, TInv', Owned, Full, [Next]_vars
    PROVE  [Table!TableNext]_<<InUse, reply>>
<1>1. ASSUME NEW t \in Tasks, NEW it \in Items, AddReuse(t, it) PROVE Table!TableNext
  <2>1. free \in DOMAIN index /\ free \in Slots /\ index[free].deleted
    BY <1>1, ArrayIsPrefix DEF AddReuse, Owned, ChainWhole, Dead, TInv
  <2>2. DOMAIN index' = DOMAIN index /\ index'[free] = Occupied(it)
        /\ \A i \in DOMAIN index : i # free => index'[i] = index[i]
    BY <1>1, <2>1 DEF AddReuse
  <2>3. Occupied(it).item = it /\ ~Occupied(it).deleted
    BY DEF Occupied
  <2>4. free \notin LiveSlots /\ LiveSlots' = LiveSlots \cup {free}
        /\ index'[free].item = it /\ \A j \in LiveSlots : index'[j].item = index[j].item
    BY <2>1, <2>2, <2>3 DEF LiveSlots
  <2> QED BY <1>1, <2>1, <2>4, AddGives DEF AddReuse, Table!TableNext
<1>2. ASSUME NEW t \in Tasks, NEW it \in Items, AddGrow(t, it) PROVE Table!TableNext
  <2>1. PICK copied :
        /\ \A i \in 0 .. indexes - 1 : copied[i] \in Read(i)
        /\ index' = [i \in 0 .. indexes |-> IF i = indexes THEN Occupied(it) ELSE copied[i]]
    BY <1>2 DEF AddGrow
  <2>2. indexes \in Slots /\ indexes \in Nat
    BY <1>2, SysListAssumption DEF AddGrow, TInv, TypeOK, Slots
  <2>3. Occupied(it).item = it /\ ~Occupied(it).deleted
    BY DEF Occupied
  <2>4. DOMAIN index' = DOMAIN index \cup {indexes} /\ indexes \notin DOMAIN index
    BY <2>1, <2>2 DEF Full
  <2>5. \A i \in DOMAIN index : index'[i] = index[i]
    <3> TAKE i \in DOMAIN index
    <3>1. i \in 0 .. indexes - 1 /\ i \in 0 .. indexes /\ i # indexes
      BY <2>2 DEF Full
    <3>2. index'[i] = copied[i] /\ copied[i] \in Read(i)
      BY <3>1, <2>1
    <3> QED BY <3>2 DEF Read
  <2>6. index'[indexes] = Occupied(it)
    BY <2>1, <2>2
  <2>7. indexes \notin LiveSlots /\ LiveSlots' = LiveSlots \cup {indexes}
        /\ index'[indexes].item = it
        /\ \A j \in LiveSlots : index'[j].item = index[j].item
    BY <2>3, <2>4, <2>5, <2>6 DEF LiveSlots
  <2> QED BY <1>2, <2>2, <2>7, AddGives DEF AddGrow, Table!TableNext
<1>3. ASSUME NEW t \in Tasks, AddNoMemory(t) PROVE Table!TableNext
  BY <1>3 DEF AddNoMemory, TInv, TypeOK
<1>4. ASSUME NEW t \in Tasks, NEW h \in Asked, Get(t, h) \/ GetToRemove(t, h)
      PROVE  Table!TableNext
  <2>1. Table!Find(h)
    BY <1>4, GetFinds
  <2> QED BY <2>1 DEF Table!TableNext
<1>5. ASSUME NEW t \in Tasks, Remove(t) PROVE Table!TableNext
  <2>1. \E h \in Handles : Table!TakeBack(h)
    BY <1>5, RemoveTakesBack
  <2> QED BY <2>1 DEF Table!TableNext
<1>6. ASSUME NEW t \in Tasks, First(t) PROVE Table!TableNext
  <2>1. Table!NextAbove(0 + FirstIndex - 1)
    BY <1>6, ScanIsNextAbove DEF First
  <2>2. 0 + FirstIndex - 1 \in Asked
    BY SysListAssumption DEF Asked
  <2> QED BY <2>1, <2>2 DEF Table!TableNext
<1>7. ASSUME NEW t \in Tasks, NextIndex(t) PROVE Table!TableNext
  <2>1. hand[t] \in Asked /\ hand[t] \in Int /\ hand[t] - FirstIndex + 1 \in Int
    BY SysListAssumption DEF TInv, TypeOK, Asked
  <2>2. Table!NextAbove((hand[t] - FirstIndex + 1) + FirstIndex - 1)
    BY <1>7, <2>1, ScanIsNextAbove DEF NextIndex
  <2>3. (hand[t] - FirstIndex + 1) + FirstIndex - 1 = hand[t]
    BY <2>1, SysListAssumption
  <2> QED BY <2>1, <2>2, <2>3 DEF Table!TableNext
<1>8. CASE UNCHANGED vars
  BY <1>8 DEF vars, InUse, LiveHandles, LiveSlots
<1> QED BY <1>1, <1>2, <1>3, <1>4, <1>5, <1>6, <1>7, <1>8 DEF Next

LEMMA TableStart == Init => Table!TableInit
BY DEF Init, Table!TableInit, Table!Answer, Answer, LiveHandles, LiveSlots

(***************************************************************************)
(* The free list                                                           *)
(***************************************************************************)
\* The slots that list_remove has deleted and list_add has not taken again.
Removed == {i \in DOMAIN index \ LiveSlots : index[i].item # Garbage}

\* c is the free list, k slots long.
IsChain(k, c) ==
    /\ \A n \in 0 .. k - 1 : c[n] \in DOMAIN index
    /\ \A m, n \in 0 .. k - 1 : c[m] = c[n] => m = n
    /\ free = IF k = 0 THEN NIL ELSE c[0]
    /\ \A n \in 0 .. k - 1 : index[c[n]].next = IF n = k - 1 THEN NIL ELSE c[n + 1]
    /\ Removed = {c[n] : n \in 0 .. k - 1}

Chained == \E k \in Nat : \E c : IsChain(k, c)

\* Tasks hold slots that list_add has filled.
MineAreFilled == \A t \in Tasks : \A h \in mine[t] : index[h - FirstIndex].item # Garbage

LEMMA ChainInit == Init => Chained /\ MineAreFilled
<1> SUFFICES ASSUME Init PROVE Chained /\ MineAreFilled
  OBVIOUS
<1>1. Removed = {} /\ free = NIL /\ DOMAIN index = {}
  BY DEF Init, Removed
<1>2. IsChain(0, index)
  BY <1>1 DEF IsChain
<1> QED BY <1>2 DEF Init, Chained, MineAreFilled

\* list_add takes the head.
LEMMA ChainPop ==
    ASSUME TInv, Owned, Chained, NEW t \in Tasks, NEW it \in Items, AddReuse(t, it)
    PROVE  Chained'
<1>a. PICK k \in Nat : \E c : IsChain(k, c)
  BY DEF Chained
<1>1. PICK c : IsChain(k, c)
  BY <1>a
<1>2. /\ free \in DOMAIN index /\ free # NIL /\ free' = index[free].next
      /\ DOMAIN index' = DOMAIN index /\ index'[free] = Occupied(it)
      /\ \A i \in DOMAIN index : i # free => index'[i] = index[i]
  BY DEF AddReuse, TInv, TypeOK
<1>3. k > 0 /\ c[0] = free
  BY <1>1, <1>2 DEF IsChain
<1> DEFINE d == [n \in 0 .. k - 2 |-> c[n + 1]]
<1>4. \A n \in 0 .. k - 2 : n + 1 \in 0 .. k - 1 /\ d[n] = c[n + 1] /\ c[n + 1] # free
  BY <1>1, <1>3 DEF IsChain
<1>5. (k - 1) - 1 = k - 2 /\ k - 1 \in Nat
  BY <1>3
<1>6. Removed' = Removed \ {free}
  <2>1. ~Occupied(it).deleted
    BY DEF Occupied
  <2> QED BY <1>2, <2>1 DEF Removed, LiveSlots
<1>7. \A i \in Removed \ {free} : \E n \in 0 .. k - 2 : i = c[n + 1]
  <2> TAKE i \in Removed \ {free}
  <2>1. PICK m \in 0 .. k - 1 : i = c[m]
    BY <1>1 DEF IsChain
  <2>2. m # 0
    BY <2>1, <1>3
  <2>3. m - 1 \in 0 .. k - 2 /\ (m - 1) + 1 = m
    BY <2>1, <2>2
  <2> QED BY <2>1, <2>3
<1>8. Removed' = {d[n] : n \in 0 .. k - 2}
  <2>1. \A n \in 0 .. k - 2 : d[n] \in Removed \ {free}
    BY <1>1, <1>4 DEF IsChain
  <2>2. \A i \in Removed \ {free} : \E n \in 0 .. k - 2 : i = d[n]
    BY <1>4, <1>7
  <2> QED BY <1>6, <2>1, <2>2
<1>9. free' = IF k - 1 = 0 THEN NIL ELSE d[0]
  <2>1. index[c[0]].next = IF 0 = k - 1 THEN NIL ELSE c[0 + 1]
    BY <1>1, <1>3 DEF IsChain
  <2>2. k - 1 # 0 => 0 \in 0 .. k - 2 /\ d[0] = c[0 + 1]
    BY <1>3, <1>4
  <2> QED BY <1>2, <1>3, <2>1, <2>2
<1>10. \A n \in 0 .. k - 2 : d[n] \in DOMAIN index'
  BY <1>1, <1>2, <1>4 DEF IsChain
<1>11. \A m, n \in 0 .. k - 2 : d[m] = d[n] => m = n
  <2> SUFFICES ASSUME NEW m \in 0 .. k - 2, NEW n \in 0 .. k - 2, c[m + 1] = c[n + 1]
               PROVE  m = n
    BY <1>4
  <2>1. m + 1 = n + 1
    BY <1>1, <1>4 DEF IsChain
  <2> QED BY <2>1
<1>12. \A n \in 0 .. k - 2 : index'[d[n]].next = IF n = k - 2 THEN NIL ELSE d[n + 1]
  <2> TAKE n \in 0 .. k - 2
  <2>1. index'[d[n]] = index[c[n + 1]]
    BY <1>1, <1>2, <1>4 DEF IsChain
  <2>2. index[c[n + 1]].next = IF n + 1 = k - 1 THEN NIL ELSE c[(n + 1) + 1]
    BY <1>1, <1>4 DEF IsChain
  <2>3. n # k - 2 => n + 1 \in 0 .. k - 2 /\ d[n + 1] = c[(n + 1) + 1]
    BY <1>4
  <2>4. n = k - 2 <=> n + 1 = k - 1
    OBVIOUS
  <2> QED BY <2>1, <2>2, <2>3, <2>4
<1> HIDE DEF d
<1>13. IsChain(k - 1, d)'
  BY <1>5, <1>8, <1>9, <1>10, <1>11, <1>12 DEF IsChain
<1> QED BY <1>5, <1>13 DEF Chained

\* list_remove puts the slot before the head.
LEMMA ChainPush ==
    ASSUME TInv, Owned, Chained, MineAreFilled, NEW t \in Tasks, Remove(t)
    PROVE  Chained'
<1>a. PICK k \in Nat : \E c : IsChain(k, c)
  BY DEF Chained
<1>1. PICK c : IsChain(k, c)
  BY <1>a
<1>0. PICK i : i = hand[t] - FirstIndex
  OBVIOUS
<1>2. i \in DOMAIN index /\ ~index[i].deleted /\ index[i].item # Garbage
  <2>1. hand[t] \in mine[t]
    BY DEF Remove, Owned, FoundIsMine
  <2> QED BY <1>0, <2>1, MineIsLive DEF MineAreFilled
<1>3. /\ DOMAIN index' = DOMAIN index /\ index'[i].deleted /\ index'[i].next = free
      /\ index'[i].item = index[i].item
      /\ \A j \in DOMAIN index : j # i => index'[j] = index[j]
      /\ free' = i
  <2>1. index[i] \in Entry
    BY <1>2, ArrayIsPrefix DEF TInv
  <2> QED BY <1>0, <1>2, <2>1 DEF Remove, Entry
<1> DEFINE d == [n \in 0 .. k |-> IF n = 0 THEN i ELSE c[n - 1]]
<1>4. /\ d[0] = i /\ (k + 1) - 1 = k /\ k + 1 \in Nat /\ k + 1 # 0
      /\ \A n \in 0 .. k : n # 0 => n - 1 \in 0 .. k - 1 /\ d[n] = c[n - 1]
      /\ \A n \in 0 .. k - 1 : n + 1 \in 0 .. k /\ d[n + 1] = c[n]
  OBVIOUS
<1>6. \A n \in 0 .. k - 1 : c[n] \in DOMAIN index /\ c[n] # i
  <2>1. \A n \in 0 .. k - 1 : c[n] \in Removed
    BY <1>1 DEF IsChain
  <2> QED BY <1>2, <2>1 DEF Removed, LiveSlots
<1> HIDE DEF d
<1>7. Removed' = Removed \cup {i}
  BY <1>2, <1>3 DEF Removed, LiveSlots
<1>8. Removed' = {d[n] : n \in 0 .. k}
  <2>1. \A n \in 0 .. k : d[n] \in Removed \cup {i}
    <3> TAKE n \in 0 .. k
    <3>1. CASE n = 0
      BY <1>4, <3>1
    <3>2. CASE n # 0
      BY <1>1, <1>4, <3>2 DEF IsChain
    <3> QED BY <3>1, <3>2
  <2>2. \A j \in Removed : \E n \in 0 .. k : j = d[n]
    <3> TAKE j \in Removed
    <3>1. PICK m \in 0 .. k - 1 : j = c[m]
      BY <1>1 DEF IsChain
    <3> QED BY <1>4, <3>1
  <2>3. 0 \in 0 .. k
    OBVIOUS
  <2> QED BY <1>4, <1>7, <2>1, <2>2, <2>3
<1>9. \A n \in 0 .. k : d[n] \in DOMAIN index'
  BY <1>2, <1>3, <1>4, <1>6
<1>10. \A m, n \in 0 .. k : d[m] = d[n] => m = n
  <2> SUFFICES ASSUME NEW m \in 0 .. k, NEW n \in 0 .. k, d[m] = d[n]
               PROVE  m = n
    OBVIOUS
  <2>1. CASE m = 0 \/ n = 0
    BY <1>4, <1>6, <2>1
  <2>2. CASE m # 0 /\ n # 0
    <3>1. m - 1 = n - 1
      BY <1>1, <1>4, <2>2 DEF IsChain
    <3> QED BY <3>1
  <2> QED BY <2>1, <2>2
<1>11. \A n \in 0 .. k : index'[d[n]].next = IF n = k THEN NIL ELSE d[n + 1]
  <2> TAKE n \in 0 .. k
  <2>1. CASE n = 0
    <3>1. index'[d[n]].next = IF k = 0 THEN NIL ELSE c[0]
      BY <1>1, <1>3, <1>4, <2>1 DEF IsChain
    <3>2. k # 0 => 0 \in 0 .. k - 1
      OBVIOUS
    <3>3. k # 0 => d[0 + 1] = c[0]
      BY <1>4, <3>2
    <3> QED BY <2>1, <3>1, <3>3
  <2>2. CASE n # 0
    <3>1. n - 1 \in 0 .. k - 1 /\ d[n] = c[n - 1]
      BY <1>4, <2>2
    <3>2. index'[d[n]] = index[c[n - 1]]
      BY <1>3, <1>6, <3>1
    <3>3. index[c[n - 1]].next = IF n - 1 = k - 1 THEN NIL ELSE c[(n - 1) + 1]
      BY <1>1, <3>1 DEF IsChain
    <3>4. (n - 1) + 1 = n /\ (n - 1 = k - 1 <=> n = k)
      OBVIOUS
    <3>5. n # k => d[n + 1] = c[n]
      <4>1. n # k => n \in 0 .. k - 1
        OBVIOUS
      <4> QED BY <1>4, <4>1
    <3> QED BY <3>2, <3>3, <3>4, <3>5
  <2> QED BY <2>1, <2>2
<1>12. IsChain(k + 1, d)'
  BY <1>3, <1>4, <1>8, <1>9, <1>10, <1>11 DEF IsChain
<1> QED BY <1>4, <1>12 DEF Chained

\* The array grows when the free list is empty, and what the new slots get of
\* memory that was not theirs is no item.
LEMMA GrowFills ==
    ASSUME TInv, NEW t \in Tasks, NEW it \in Items, AddGrow(t, it)
    PROVE  /\ free = NIL /\ free' = NIL
           /\ indexes \in Slots /\ indexes \notin DOMAIN index
           /\ DOMAIN index \subseteq DOMAIN index' /\ index'[indexes] = Occupied(it)
           /\ \A i \in DOMAIN index : index'[i] = index[i]
           /\ \A i \in DOMAIN index' \ DOMAIN index : i # indexes => index'[i].item = Garbage
<1>1. PICK copied :
        /\ \A i \in 0 .. indexes - 1 : copied[i] \in Read(i)
        /\ index' = [i \in 0 .. indexes |-> IF i = indexes THEN Occupied(it) ELSE copied[i]]
  BY DEF AddGrow
<1>2. /\ indexes \in Slots /\ indexes \in Nat /\ DOMAIN index \subseteq 0 .. indexes - 1
      /\ free = NIL /\ free' = NIL
  BY ArrayIsPrefix, SysListAssumption DEF AddGrow, TInv, TypeOK, Slots
<1>3. \A i \in DOMAIN index : index'[i] = index[i]
  <2> TAKE i \in DOMAIN index
  <2>1. i \in 0 .. indexes - 1 /\ i \in 0 .. indexes /\ i # indexes
    BY <1>2
  <2>2. index'[i] = copied[i] /\ copied[i] \in Read(i)
    BY <2>1, <1>1
  <2> QED BY <2>2 DEF Read
<1>4. \A i \in DOMAIN index' \ DOMAIN index : i # indexes => index'[i].item = Garbage
  <2> SUFFICES ASSUME NEW i \in DOMAIN index' \ DOMAIN index, i # indexes
               PROVE  index'[i].item = Garbage
    OBVIOUS
  <2>1. i \in 0 .. indexes - 1 /\ index'[i] \in Read(i)
    BY <1>1, <1>2
  <2> QED BY <2>1 DEF Read
<1>5. DOMAIN index \subseteq DOMAIN index' /\ indexes \notin DOMAIN index
      /\ index'[indexes] = Occupied(it)
  BY <1>1, <1>2
<1> QED BY <1>2, <1>3, <1>4, <1>5

LEMMA ChainGrow ==
    ASSUME TInv, Chained, NEW t \in Tasks, NEW it \in Items, AddGrow(t, it)
    PROVE  Chained'
<1>a. PICK k \in Nat : \E c : IsChain(k, c)
  BY DEF Chained
<1>1. PICK c : IsChain(k, c)
  BY <1>a
<1>2. k = 0
  <2> SUFFICES ASSUME k # 0 PROVE FALSE
    OBVIOUS
  <2>1. 0 \in 0 .. k - 1
    OBVIOUS
  <2>2. free \in DOMAIN index
    BY <1>1, <2>1 DEF IsChain
  <2> QED BY <2>2, GrowFills, ArrayIsPrefix, SysListAssumption DEF TInv, Slots, NIL
<1>3. Removed = {}
  BY <1>1, <1>2 DEF IsChain
<1>4. Removed' = {}
  <2>1. ~Occupied(it).deleted
    BY DEF Occupied
  <2> QED BY <1>3, <2>1, GrowFills DEF Removed, LiveSlots
<1>5. IsChain(0, c)'
  BY <1>4, GrowFills DEF IsChain
<1> QED BY <1>5 DEF Chained

\* What a task holds stays filled: only list_remove empties a slot.
LEMMA FilledIssue ==
    ASSUME TInv, Owned, MineAreFilled, NEW t \in Tasks, NEW i \in Slots, NEW it \in Items,
           Issue(t, i, it), index'[i] = Occupied(it),
           \A j \in LiveSlots : index'[j] = index[j]
    PROVE  MineAreFilled'
<1>1. index'[i].item # Garbage
  BY SysListAssumption DEF Occupied
<1>2. /\ mine' = [mine EXCEPT ![t] = @ \cup {i + FirstIndex}]
      /\ mine \in [Tasks -> SUBSET Handles]
  BY DEF Issue, TInv, TypeOK
<1>3. (i + FirstIndex) - FirstIndex = i
  BY SysListAssumption DEF Slots
<1>4. ASSUME NEW u \in Tasks, NEW h \in mine[u]
      PROVE  index'[h - FirstIndex].item # Garbage
  BY <1>4, MineIsLive DEF LiveSlots, MineAreFilled
<1>5. \A u \in Tasks : mine'[u] \subseteq mine[u] \cup {i + FirstIndex}
  BY <1>2
<1> QED BY <1>1, <1>3, <1>4, <1>5 DEF MineAreFilled

LEMMA FilledRemove ==
    ASSUME TInv, Owned, MineAreFilled, NEW t \in Tasks, Remove(t)
    PROVE  MineAreFilled'
<1>1. \A j \in DOMAIN index : index'[j].item = index[j].item
  BY ArrayIsPrefix DEF Remove, TInv, Entry
<1>2. \A u \in Tasks : mine'[u] \subseteq mine[u]
  BY DEF Remove
<1> QED BY <1>1, <1>2, MineIsLive DEF MineAreFilled

LEMMA ChainStep ==
    ASSUME OwnersOnly
    PROVE  TInv /\ Owned /\ Chained /\ MineAreFilled /\ [Next]_vars
              => Chained' /\ MineAreFilled'
<1> SUFFICES ASSUME TInv, Owned, Chained, MineAreFilled, [Next]_vars
             PROVE  Chained' /\ MineAreFilled'
  OBVIOUS
<1>1. ASSUME UNCHANGED <<index, free, mine>> PROVE Chained' /\ MineAreFilled'
  <2>1. \A k, c : IsChain(k, c) => IsChain(k, c)'
    BY <1>1 DEF IsChain, Removed, LiveSlots
  <2> QED BY <1>1, <2>1 DEF Chained, MineAreFilled
<1>2. ASSUME NEW t \in Tasks, NEW it \in Items, AddReuse(t, it)
      PROVE  Chained' /\ MineAreFilled'
  <2>1. /\ free \in DOMAIN index /\ free \in Slots /\ index[free].deleted
        /\ Issue(t, free, it)
    BY <1>2, ArrayIsPrefix DEF AddReuse, Owned, ChainWhole, Dead, TInv
  <2>2. index'[free] = Occupied(it) /\ \A j \in LiveSlots : index'[j] = index[j]
    BY <1>2, <2>1 DEF AddReuse, LiveSlots
  <2> QED BY <1>2, <2>1, <2>2, ChainPop, FilledIssue
<1>3. ASSUME NEW t \in Tasks, NEW it \in Items, AddGrow(t, it)
      PROVE  Chained' /\ MineAreFilled'
  <2>1. /\ indexes \in Slots /\ Issue(t, indexes, it) /\ index'[indexes] = Occupied(it)
        /\ \A j \in LiveSlots : index'[j] = index[j]
    BY <1>3, GrowFills DEF AddGrow, LiveSlots
  <2> QED BY <1>3, <2>1, ChainGrow, FilledIssue
<1>4. ASSUME NEW t \in Tasks, Remove(t) PROVE Chained' /\ MineAreFilled'
  BY <1>4, ChainPush, FilledRemove
<1>5. ASSUME NEW t \in Tasks,
             \/ AddNoMemory(t) \/ First(t) \/ NextIndex(t)
             \/ \E h \in Asked : Get(t, h) \/ GetToRemove(t, h)
      PROVE  UNCHANGED <<index, free, mine>>
  BY <1>5 DEF AddNoMemory, Get, GetToRemove, First, NextIndex, ScanFrom, Advance, listVars
<1>6. CASE UNCHANGED vars
  BY <1>1, <1>6 DEF vars
<1> QED BY <1>1, <1>2, <1>3, <1>4, <1>5, <1>6 DEF Next

\* A set of numbers has a least one, by the well-founded inclusion of finite sets.
LEMMA LeastNatural ==
    ASSUME NEW T \in SUBSET Nat, T # {}
    PROVE  \E x \in T : \A y \in T : x <= y
<1> DEFINE R == StrictSubsetOrdering(Nat)
           F == FiniteSubsetsOf(Nat)
           Below == {1 .. n : n \in T}
<1>1. IsWellFoundedOn(R, F)
  BY FS_StrictSubsetOrderingWellFounded
<1>2. Below \subseteq F /\ Below # {}
  <2>1. \A n \in T : 1 .. n \in SUBSET Nat
    OBVIOUS
  <2>2. \A n \in T : IsFiniteSet(1 .. n)
    BY FS_Interval
  <2> QED BY <2>1, <2>2 DEF FiniteSubsetsOf
<1>3. \A x, y \in Nat : y < x => <<1 .. y, 1 .. x>> \in R
  <2> SUFFICES ASSUME NEW x \in Nat, NEW y \in Nat, y < x
               PROVE  <<1 .. y, 1 .. x>> \in R
    OBVIOUS
  <2>1. x \in 1 .. x /\ x \notin 1 .. y /\ 1 .. y \subseteq 1 .. x /\ 1 .. x \subseteq Nat
    OBVIOUS
  <2> QED BY <2>1 DEF StrictSubsetOrdering
<1> HIDE DEF R, F
<1>4. \E x \in Below : \A y \in Below : ~ (<<y, x>> \in R)
  <2> HIDE DEF Below
  <2> QED BY <1>1, <1>2, WFMin
<1>5. PICK x \in T : \A y \in T : ~ (<<1 .. y, 1 .. x>> \in R)
  BY <1>4
<1>6. \A y \in T : ~ (y < x)
  BY <1>3, <1>5
<1> QED BY <1>6


\* A chain is no longer than the array, and as long as the deleted are many.
LEMMA ChainLength ==
    ASSUME TInv, NEW k \in Nat, NEW c, IsChain(k, c)
    PROVE  k <= MaxIndexes /\ Cardinality(Removed) = k
<1> DEFINE f == [n \in 0 .. k - 1 |-> c[n]]
<1>1. IsFiniteSet(0 .. k - 1) /\ Cardinality(0 .. k - 1) = k
  BY FS_Interval
<1>2. IsFiniteSet(Slots) /\ Cardinality(Slots) = MaxIndexes
  BY FS_Interval, SysListAssumption DEF Slots
<1>3. f \in Injection(0 .. k - 1, Slots)
  BY ArrayIsPrefix DEF IsChain, Injection, IsInjective, TInv
<1>4. f \in Bijection(0 .. k - 1, Removed)
  BY DEF IsChain, Bijection, Injection, Surjection, IsInjective
<1> HIDE DEF f
<1>5. k <= MaxIndexes
  BY <1>1, <1>2, <1>3, FS_Injection
<1>6. Cardinality(Removed) = k
  BY <1>1, <1>4, FS_Bijection DEF ExistsBijection
<1> QED BY <1>5, <1>6

\* Following next from the head meets the chain, then NIL.
LEMMA ChainIsMet ==
    ASSUME TInv, NEW k \in Nat, NEW c, IsChain(k, c), NEW n \in 0 .. MaxIndexes
    PROVE  ChainSlot[n] = IF n < k THEN c[n] ELSE NIL
<1> DEFINE P(f) == f = [m \in 0 .. MaxIndexes |->
                IF m = 0 THEN free ELSE IF f[m-1] = NIL THEN NIL ELSE index[f[m-1]].next]
           g == [m \in 0 .. MaxIndexes |-> IF m < k THEN c[m] ELSE NIL]
<1>1. \A m \in 0 .. k - 1 : c[m] # NIL
  BY ArrayIsPrefix, SysListAssumption DEF IsChain, TInv, Slots, NIL
<1>2. P(g)
  <2> SUFFICES ASSUME NEW m \in 0 .. MaxIndexes
               PROVE  g[m] = IF m = 0 THEN free
                             ELSE IF g[m-1] = NIL THEN NIL ELSE index[g[m-1]].next
    OBVIOUS
  <2>1. CASE m = 0
    BY <2>1 DEF IsChain
  <2>2. CASE m # 0 /\ m - 1 < k
    <3>1. m - 1 \in 0 .. k - 1 /\ m - 1 \in 0 .. MaxIndexes
      BY <2>2, SysListAssumption
    <3>2. g[m-1] = c[m-1]
      BY <2>2, <3>1
    <3>3. g[m-1] # NIL
      BY <1>1, <3>1, <3>2
    <3>4. index[c[m-1]].next = IF m - 1 = k - 1 THEN NIL ELSE c[(m - 1) + 1]
      BY <3>1 DEF IsChain
    <3>5. (m - 1) + 1 = m /\ (m - 1 = k - 1 <=> ~(m < k))
      BY <2>2, SysListAssumption
    <3> QED BY <2>2, <3>2, <3>3, <3>4, <3>5
  <2>3. CASE m # 0 /\ ~(m - 1 < k)
    <3>1. m - 1 \in 0 .. MaxIndexes /\ ~(m < k)
      BY <2>3, SysListAssumption
    <3> QED BY <2>3, <3>1
  <2> QED BY <2>1, <2>2, <2>3
<1>3. P(ChainSlot)
  BY <1>2 DEF ChainSlot
<1> DEFINE T == {m \in 0 .. MaxIndexes : ChainSlot[m] # g[m]}
<1>4. T = {}
  <2> SUFFICES ASSUME T # {} PROVE FALSE
    OBVIOUS
  <2>1. PICK x \in T : \A y \in T : x <= y
    <3>1. T \in SUBSET Nat
      OBVIOUS
    <3> HIDE DEF T
    <3> QED BY <3>1, LeastNatural
  <2>2. CASE x = 0
    BY <1>2, <1>3, <2>1, <2>2
  <2>3. CASE x # 0
    <3>1. x \in 0 .. MaxIndexes /\ ChainSlot[x] # g[x]
      BY <2>1
    <3>2. x - 1 \in 0 .. MaxIndexes /\ ~(x <= x - 1)
      BY <3>1, <2>3, SysListAssumption
    <3>3. x - 1 \notin T
      <4> HIDE DEF T
      <4> QED BY <2>1, <3>2
    <3>4. ChainSlot[x-1] = g[x-1]
      <4> HIDE DEF g
      <4> QED BY <3>2, <3>3 DEF T
    <3> HIDE DEF g
    <3>5. ChainSlot[x] = IF ChainSlot[x-1] = NIL THEN NIL
                         ELSE index[ChainSlot[x-1]].next
      BY <1>3, <2>3, <3>1
    <3>6. g[x] = IF g[x-1] = NIL THEN NIL ELSE index[g[x-1]].next
      BY <1>2, <2>3, <3>1
    <3> QED BY <3>1, <3>4, <3>5, <3>6
  <2> QED BY <2>2, <2>3
<1> QED BY <1>4

LEMMA ChainIsDeleted == ASSUME TInv, Chained PROVE FreeListIsTheDeleted
<1>a. PICK k \in Nat : \E c : IsChain(k, c)
  BY DEF Chained
<1>1. PICK c : IsChain(k, c)
  BY <1>a
<1> DEFINE met == {n \in 0 .. MaxIndexes : ChainSlot[n] # NIL}
<1>2. k <= MaxIndexes /\ Cardinality(Removed) = k
  BY <1>1, ChainLength
<1>3. \A m \in 0 .. k - 1 : c[m] # NIL
  BY <1>1, ArrayIsPrefix, SysListAssumption DEF IsChain, TInv, Slots, NIL
<1>4. \A n \in 0 .. MaxIndexes : ChainSlot[n] = IF n < k THEN c[n] ELSE NIL
  BY <1>1, ChainIsMet
<1>5. met = 0 .. k - 1
  BY <1>2, <1>3, <1>4, SysListAssumption
<1>6. MaxIndexes \notin met
  BY <1>2, <1>5, SysListAssumption
<1>7. {ChainSlot[n] : n \in met} = Removed
  <2>1. \A n \in 0 .. k - 1 : ChainSlot[n] = c[n]
    BY <1>2, <1>4, SysListAssumption
  <2> HIDE DEF met
  <2> QED BY <1>1, <1>5, <2>1 DEF IsChain
<1>8. Cardinality(met) = k
  <2>1. 0 \in Int /\ k - 1 \in Int
    OBVIOUS
  <2>2. Cardinality(0 .. k - 1) = IF 0 > k - 1 THEN 0 ELSE (k - 1) - 0 + 1
    BY <2>1, FS_Interval
  <2>3. Cardinality(0 .. k - 1) = k
    BY <2>2
  <2> HIDE DEF met
  <2> QED BY <1>5, <2>3
<1> HIDE DEF met
<1> QED BY <1>2, <1>6, <1>7, <1>8 DEF FreeListIsTheDeleted, Removed, met

(***************************************************************************)
(* Theorems                                                                *)
(***************************************************************************)
\* list.c keeps its array, its free list's head and its handles in their types,
\* whatever its callers present to it and whichever mallocs fail.
THEOREM ListTypes == Spec => []TypeOK
BY TypeInvariance, PTL DEF TInv

\* When each handle is deleted by its owner only, no two tasks ever hold the
\* same handle and no handle is deleted under the task that holds it.
THEOREM ExclusiveHandles == OwnersOnly => (Spec => []HandlesAreExclusive)
<1>1. SUFFICES ASSUME OwnersOnly PROVE Spec => []HandlesAreExclusive
  OBVIOUS
<1>2. TInv /\ Owned => HandlesAreExclusive
  BY DEF Owned
<1> QED BY <1>1, <1>2, OwnedInvariance, PTL

\* When each handle is deleted by its owner only, the free list has no cycle and
\* leads to every entry that list_remove deleted, and to no other, whatever is
\* looked up and whichever mallocs fail.
THEOREM FreeListIsWhole == OwnersOnly => (Spec => []FreeListIsTheDeleted)
<1>1. SUFFICES ASSUME OwnersOnly PROVE Spec => []FreeListIsTheDeleted
  OBVIOUS
<1>2. Spec => [](Chained /\ MineAreFilled)
  BY <1>1, OwnedInvariance, ChainInit, ChainStep, PTL DEF Spec
<1>3. TInv /\ Chained => FreeListIsTheDeleted
  BY ChainIsDeleted
<1> QED BY <1>2, <1>3, TypeInvariance, PTL

\* A loop of list_first and list_next meets all that was in use from its start
\* to its end, whatever is added and deleted meanwhile, and by whom.
THEOREM ScansMeetAll == Spec => ScanMeetsAll
<1>1. TInv /\ ScanAhead /\ [Next]_vars => ScanAhead'
  BY AheadStep
<1>2. TInv /\ ScanAhead /\ [Next]_vars =>
        [\A t \in Tasks : pc[t] = "scan" /\ pc'[t] = "idle" => due'[t] = {}]_vars
  BY AheadStep
<1> QED BY <1>1, <1>2, AheadInit, TypeInvariance, PTL DEF Spec, ScanMeetsAll

\* A list whose callers delete their own handles only, present no handle past
\* the last and never run out of memory is a table of handles.
THEOREM ListIsTable ==
    OwnersOnly /\ ~PastEnd /\ MaxNoMem = 0 => (Spec => ImplementsTable)
<1>1. SUFFICES ASSUME OwnersOnly, ~PastEnd, MaxNoMem = 0 PROVE Spec => ImplementsTable
  OBVIOUS
<1>2. Spec => []Full
  <2>1. TInv /\ Full /\ [Next]_vars => Full'
    BY <1>1, FullStep
  <2> QED BY <2>1, FullInit, TypeInvariance, PTL DEF Spec
<1>3. TInv /\ TInv' /\ Owned /\ Full /\ [Next]_vars => [Table!TableNext]_Table!tvars
  BY <1>1, TableStep DEF Table!tvars, InUse
<1>4. Spec => [](TInv /\ Owned)
  BY <1>1, OwnedInvariance
<1> QED BY <1>2, <1>3, <1>4, TableStart, PTL DEF Spec, ImplementsTable, Table!TableSpec
=============================================================================
