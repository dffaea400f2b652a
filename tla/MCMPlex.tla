------------------------------ MODULE MCMPlex ------------------------------
(* Small instances of MPlex: three regions and two or three placeholders. *)
EXTENDS MPlex, TLC
MCIndices == {AtEnd, AfterCurrent, AfterCurrentAct, 0, 1}
\* Sound for safety: regions are alike, and so are placeholders.
Alike == Permutations(Regions) \cup Permutations(PHolders)
=============================================================================
