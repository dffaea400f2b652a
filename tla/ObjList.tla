------------------------------- MODULE ObjList -------------------------------
(***************************************************************************)
(* Lists of watched objects (libtu/objlist.c).  A list is the sequence of  *)
(* its nodes' objects; a node whose object was destroyed holds Dead.  The  *)
(* list is shared by reference, so every operation here maps the old       *)
(* sequence to the new one.                                                *)
(***************************************************************************)
EXTENDS Integers, SequencesExt

CONSTANT Dead

\* reuse_first: a dead node at the head is taken off.
DropDeadHead(l) == IF l # <<>> /\ Head(l) = Dead THEN Tail(l) ELSE l

\* optimise and reuse look at the head twice, never at the tail.
Optimise(l) == DropDeadHead(DropDeadHead(l))

ObjListContains(l, o) == o \in ToSet(l)
NodeOf(l, o) == CHOOSE i \in DOMAIN l : l[i] = o

\* watch_handler: the node of a destroyed object is freed unless it is the
\* last (node->next is NULL) or the first (its prev is the last).
WatchHandler(l, o) ==
    IF o \notin ToSet(l) THEN l
    ELSE LET i == NodeOf(l, o) IN
         IF i \in {1, Len(l)} THEN [l EXCEPT ![i] = Dead] ELSE RemoveAt(l, i)

\* Faulty variants: the new node goes first; a dead tail is dropped.
InsertAtHead(l, o) ==
    IF l # <<>> /\ Head(l) = Dead THEN <<Dead>> \o Optimise(l) ELSE <<o>> \o l

\* objlist_insert_last: a node that is reused is linked, and keeps no object.
ObjListInsertLast(l, o) ==
    IF l # <<>> /\ Head(l) = Dead THEN Append(Optimise(l), Dead)
    ELSE Append(l, o)

\* objlist_remove: the object's node, if there is one, and dead heads.
ObjListRemove(l, o) ==
    Optimise(IF o \in ToSet(l) THEN RemoveAt(l, NodeOf(l, o)) ELSE l)

\* The objects that are on a list, and that none is on it twice.
Listed(l) == ToSet(l) \ {Dead}
ListedOnce(l) == \A i, j \in DOMAIN l : l[i] = l[j] /\ l[i] # Dead => i = j

\* An iteration over the list (objlist_iter) comes to x, and later to y.
Precedes(l, x, y) == \E i, j \in DOMAIN l : i < j /\ l[i] = x /\ l[j] = y
=============================================================================
