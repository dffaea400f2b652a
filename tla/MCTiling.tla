------------------------------ MODULE MCTiling ------------------------------
(* A small instance of Tiling. *)
EXTENDS Tiling, TLC
MCSizes == {[hor |-> 3, ver |-> 4]}
MCWants == {[hor |-> 2, ver |-> 1]}
MCPlaces == {[corner |-> [hor |-> "tl", ver |-> "br"], orient |-> "hor",
              full |-> FALSE]}
MCSteps == {1}
Alike == Permutations(Frames)
=============================================================================
