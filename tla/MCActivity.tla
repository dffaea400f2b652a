------------------------------ MODULE MCActivity ------------------------------
(* Small instances of Activity: two groups, a frame and a root window. *)
EXTENDS Activity, TLC
CONSTANTS g1, g2, g3, w   \* g3 may be a frame
\* Sound for safety: the two groups are alike.
Alike == Permutations({g1, g2})
=============================================================================
