------------------------------ MODULE MCDeferred ------------------------------
(* Small instances of Deferred: two static slots and the heap's cells. *)
EXTENDS Deferred, TLC
CONSTANTS h1, h2, o1, o2
MCOneHeap == {h1}
MCTwoHeap == {h1, h2}
MCCellsOne == {0, 1, h1}
MCCellsTwo == {0, 1, h1, h2}
\* Sound for safety: objects are alike, and so are the heap's addresses.
Alike == Permutations({o1, o2}) \cup Permutations({h1, h2})
ASSUME NamesDistinct == h1 # h2 /\ o1 # o2
=============================================================================
