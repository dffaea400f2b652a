-------------------------------- MODULE Paths --------------------------------
(***************************************************************************)
(* Binary trees as values: an inner node is a record with children tl and  *)
(* br (top or left, bottom or right), a path is the sequence of the sides  *)
(* to go from the root.  The parent pointers of the code are the paths.    *)
(***************************************************************************)
EXTENDS Sequences, SequencesExt

Sides == {"tl", "br"}
Opposite(s) == IF s = "tl" THEN "br" ELSE "tl"
Dirs == {"hor", "ver"}
OtherDir(d) == IF d = "hor" THEN "ver" ELSE "hor"
\* A value for each direction.
PerDir(F(_)) == [hor |-> F("hor"), ver |-> F("ver")]
Both(x) == [hor |-> x, ver |-> x]

IsSplit(t) == "tl" \in DOMAIN t

\* The node at path p, and the tree with u in its place.
RECURSIVE At(_, _), Put(_, _, _)
At(t, p) == IF p = <<>> THEN t ELSE At(t[Head(p)], Tail(p))
Put(t, p, u) ==
    IF p = <<>> THEN u
    ELSE [t EXCEPT ![Head(p)] = Put(t[Head(p)], Tail(p), u)]

RECURSIVE PathsOf(_)
PathsOf(t) ==
    {<<>>} \cup (IF IsSplit(t)
                 THEN {<<"tl">> \o p : p \in PathsOf(t.tl)}
                      \cup {<<"br">> \o p : p \in PathsOf(t.br)}
                 ELSE {})
=============================================================================
