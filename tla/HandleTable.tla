---------------------------- MODULE HandleTable ----------------------------
(***************************************************************************)
(* What sys/list.h promises to its callers, without the array, the free    *)
(* list or the lock: a table that hands out small integers (handles) for   *)
(* items.  The pthread library keeps threads, mutexes and keys in such     *)
(* tables, the SPIFFS file system its open files, the sensor, neopixel and *)
(* i2c drivers their instances and transactions.                           *)
(*                                                                         *)
(* A handle is given to one item at a time, a lookup answers the item the  *)
(* handle was given to or EINVAL, and a scan answers the next handle in    *)
(* increasing order that is given to an item.                              *)
(***************************************************************************)
EXTENDS Integers

CONSTANTS
    Items,      \* what callers store
    Handles,    \* the handles the table may give
    Asked       \* the integers callers present, given to an item or not

VARIABLES
    live,       \* the items of the handles that are given: a partial function
    reply       \* the answer of the last call: what it was, for which handle

tvars == <<live, reply>>

Answer(op, h, val) == [op |-> op, handle |-> h, val |-> val]

TableInit ==
    /\ live = [x \in {} |-> x]
    /\ reply = Answer("init", -1, "OK")

\* A handle that is not in use is given to the item.
Give(it) ==
    \E h \in Handles \ DOMAIN live :
        /\ live' = [x \in DOMAIN live \cup {h} |-> IF x = h THEN it ELSE live[x]]
        /\ reply' = Answer("add", h, it)

\* The table is out of memory: nothing changes.
Refuse ==
    /\ reply' = Answer("add", -1, "ENOMEM")
    /\ UNCHANGED live

\* The item of the handle, or EINVAL when it is not given to any.
Find(h) ==
    /\ reply' = Answer("get", h, IF h \in DOMAIN live THEN live[h] ELSE "EINVAL")
    /\ UNCHANGED live

\* A handle is taken back.
TakeBack(h) ==
    /\ h \in DOMAIN live
    /\ live' = [x \in DOMAIN live \ {h} |-> live[x]]
    /\ reply' = Answer("remove", h, "OK")

\* The least handle in use above h, or none.
NextAbove(h) ==
    LET above == {x \in DOMAIN live : x > h}
    IN  /\ \/ /\ above = {}
              /\ reply' = Answer("next", -1, "END")
           \/ \E x \in above :
                /\ \A y \in above : x <= y
                /\ reply' = Answer("next", x, live[x])
        /\ UNCHANGED live

TableNext ==
    \/ \E it \in Items : Give(it)
    \/ Refuse
    \/ \E h \in Asked : Find(h)
    \/ \E h \in Handles : TakeBack(h)
    \/ \E h \in Asked : NextAbove(h)

TableSpec == TableInit /\ [][TableNext]_tvars
=============================================================================
