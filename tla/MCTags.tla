------------------------------- MODULE MCTags -------------------------------
(* Small instances of Tags. *)
EXTENDS Tags, TLC
CONSTANTS r1, r2, r3
\* Sound for safety: regions are alike.
Alike == Permutations({r1, r2, r3})
=============================================================================
