------------------------------ MODULE FrameTree ------------------------------
(***************************************************************************)
(* What a tiling promises, whatever becomes of sizes and of the status     *)
(* display: a binary tree of frames, which a request changes where it was  *)
(* made and nowhere else.                                                  *)
(***************************************************************************)
EXTENDS Paths

CONSTANT Frames
VARIABLE tree

Frame(f) == [reg |-> f]
FramePaths(t) == {p \in PathsOf(t) : ~IsSplit(At(t, p))}
Used(t) == {At(t, p).reg : p \in FramePaths(t)}

Init == \E f \in Frames : tree = Frame(f)

\* A new frame on side s of the node at p.
Split(p, s, dir, f) ==
    LET pair == [dir |-> dir, tl |-> At(tree, p), br |-> At(tree, p)]
    IN tree' = Put(tree, p, [pair EXCEPT ![s] = Frame(f)])

\* A frame goes, and its sibling takes the place of both; a new frame takes
\* that of the last.
Close(p) ==
    /\ p # <<>>
    /\ tree' = Put(tree, Front(p), At(tree, Front(p))[Opposite(Last(p))])
Renew(f) == tree' = Frame(f)

Flipped(t) == [t EXCEPT !.tl = t.br, !.br = t.tl]
Flip(p) == tree' = Put(tree, p, Flipped(At(tree, p)))

\* The node at p turned: its directions swapped if swap, then those of its
\* splits that divide in one of dirs flipped, the node itself only if top.
RECURSIVE Turned(_, _, _, _)
Turned(t, swap, dirs, top) ==
    IF ~IsSplit(t) THEN t
    ELSE LET dir == IF swap THEN OtherDir(t.dir) ELSE t.dir
             u == [t EXCEPT !.dir = dir,
                            !.tl = Turned(@, swap, dirs, TRUE),
                            !.br = Turned(@, swap, dirs, TRUE)]
         IN IF top /\ dir \in dirs THEN Flipped(u) ELSE u
Turn(p) ==
    \E swap, top \in BOOLEAN, dirs \in SUBSET Dirs :
        tree' = Put(tree, p, Turned(At(tree, p), swap, dirs, top))

\* What concerns the sizes alone, or is refused.
Stay == UNCHANGED tree

Next ==
    \/ Stay
    \/ \E p \in PathsOf(tree), s \in Sides, dir \in Dirs,
          f \in Frames \ Used(tree) : Split(p, s, dir, f)
    \/ \E p \in FramePaths(tree) : Close(p)
    \/ \E f \in Frames : Renew(f) /\ ~IsSplit(tree)
    \/ \E p \in PathsOf(tree) : IsSplit(At(tree, p)) /\ Flip(p)
    \/ \E p \in PathsOf(tree) : Turn(p)

Spec == Init /\ [][Next]_tree
=============================================================================
