-------------------------------- MODULE Lists --------------------------------
(***************************************************************************)
(* The doubly linked lists of libtu/dlist.h as sequences without repeated  *)
(* items: LINK_ITEM appends, LINK_ITEM_FIRST prepends, UNLINK_ITEM takes   *)
(* an item out wherever it is.                                             *)
(***************************************************************************)
EXTENDS Integers, SequencesExt

Unlink(list, item) == RemoveAt(list, CHOOSE i \in DOMAIN list : list[i] = item)

\* The items that are in a set, in their order.
Only(list, S) ==
    LET kept[n \in 0..Len(list)] ==
            IF n = 0 THEN <<>>
            ELSE IF list[n] \in S THEN Append(kept[n - 1], list[n])
            ELSE kept[n - 1]
    IN kept[Len(list)]
Dropping(list, S) == Only(list, ToSet(list) \ S)
=============================================================================
