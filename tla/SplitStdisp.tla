----------------------------- MODULE SplitStdisp -----------------------------
(***************************************************************************)
(* The status display in the split tree (mod_tiling/split-stdisp.c).  It   *)
(* lies along one edge of the tiling, in the direction orient, and starts  *)
(* at a corner, which is a side in each direction.  When it is to be       *)
(* longer it is unsunk: its parent is rotated with the parent's parent, so *)
(* that it lies along both of that one's children.  When it can be shorter *)
(* it is sunk, and lies along one node only.                               *)
(***************************************************************************)
EXTENDS SplitTree

\* stdisp_recommended_w and _h, in the direction it is oriented.
Recommended(w, st) ==
    LET d == st.orient
    IN IF ~st.reg THEN StMin
       ELSE IF st.full THEN w.size[d]
       ELSE maxof(StMin, w.want[d])

DirOk(split, st) == split.dir = OtherDir(st.orient)
SideOf(split) == IF IsST(split.tl) THEN "tl" ELSE "br"

\* Faulty variant: the other child of p comes to the other side of a.
RotatedTurned(a, sp, sy) ==
    LET p == a[sp]
    IN [p EXCEPT ![Opposite(sy)] = [a EXCEPT ![sp] = a[Opposite(sp)],
                                             ![Opposite(sp)] = p[Opposite(sy)]]]
\* rotate_right, rotate_left, flip_right and flip_left: p, which is on side
\* sp of a, is put above it.  y on side sy of p stays there; the other child
\* of p comes to a in the place of p.
Rotated(a, sp, sy) ==
    LET p == a[sp]
    IN [p EXCEPT ![Opposite(sy)] = [a EXCEPT ![sp] = p[Opposite(sy)]]]

\* rot_rs_rotate_right, rot_rs_rotate_left, rot_rs_flip_right and
\* rot_rs_flip_left.  y is lengthened to what a was in a's direction, and the
\* other child x of a gets the room of the other child q of p.
RotRs(w, path, sp, sy) ==
    LET a == At(w.tree, path)
        p == a[sp]
        sx == Opposite(sp)
        sa == Opposite(sy)
        x == a[sx]
        y == p[sy]
        q == p[sa]
        d == a.dir
        e == OtherDir(d)
        Long(g) == [g EXCEPT !.size[d] = a.g.size[d],
                             !.pos[d] = IF sp = "br" THEN a.g.pos[d] ELSE @]
        Short(g) == [g EXCEPT !.size[e] = q.g.size[e],
                              !.pos[e] = IF sy = "tl" THEN q.g.pos[e] ELSE @]
        top == [Rotated(a, sp, sy) EXCEPT !.g = Long(@), ![sa].g = Short(@)]
        turned == [w EXCEPT !.tree = Put(@, path, top)]
        xdone == Resized(turned, path \o <<sa, sx>>, Short(x.g), Both(sy), FALSE)
    IN Resized(xdone, Append(path, sy), Long(y.g), Both(Opposite(sp)), FALSE)

\* rot_para_right and rot_para_left, where sp = sy: both divide one way.
RotPara(w, path, s) ==
    LET a == At(w.tree, path)
        d == a.dir
        top == Rotated(a, s, s)
        low == top[Opposite(s)]
        pos == IF s = "tl" THEN low.tl.g.pos[d] ELSE a.g.pos[d]
        end == low.br.g.pos[d] + low.br.g.size[d]
        lowg == [low.g EXCEPT !.pos[d] = pos, !.size[d] = end - pos]
        topg == [top.g EXCEPT !.pos[d] = a.g.pos[d], !.size[d] = a.g.size[d]]
    IN [w EXCEPT !.tree =
            Put(@, path, [top EXCEPT !.g = topg, ![Opposite(s)].g = lowg])]

\* split_try_sink_stdisp, one round, never forced: the split at path, which
\* is the status display's parent, goes under its other child.
CanSink(w, path) ==
    LET a == At(w.tree, path)
        s == SideOf(a)
        st == a[s]
        other == a[Opposite(s)]
    IN /\ Kind(other, "split") /\ DirOk(a, st)
       /\ IF other.dir = a.dir
          THEN Recommended(w, st) < a.g.size[st.orient]
          ELSE other[st.corner[st.orient]].g.size[st.orient]
                    >= Recommended(w, st)
Sink(w, path) ==
    LET a == At(w.tree, path)
        s == Opposite(SideOf(a))
        near == a[SideOf(a)].corner[a[SideOf(a)].orient]
    IN IF a[s].dir = a.dir THEN RotPara(w, path, s)
       ELSE RotRs(w, path, s, Opposite(near))
\* Where the split at path is after it was sunk.
SunkTo(w, path) ==
    LET a == At(w.tree, path)
        s == SideOf(a)
        near == a[s].corner[a[s].orient]
    IN Append(path, IF a[Opposite(s)].dir = a.dir THEN s ELSE near)

\* split_try_unsink_stdisp, one round: the split at path, which is the status
\* display's parent, is put above its own parent.
CanUnsink(w, path, force) ==
    /\ path # <<>>
    /\ LET a == At(w.tree, Front(path))
           p == At(w.tree, path)
           st == p[SideOf(p)]
       IN /\ DirOk(p, st)
          /\ IF a.dir = p.dir
             THEN /\ force \/ Recommended(w, st) > p.g.size[st.orient]
                  /\ Last(path) = SideOf(p)
             ELSE force \/ st.g.size[st.orient] < Recommended(w, st)
Unsink(w, path) ==
    LET p == At(w.tree, path)
    IN IF At(w.tree, Front(path)).dir = p.dir
       THEN RotPara(w, Front(path), Last(path))
       ELSE RotRs(w, Front(path), Last(path), SideOf(p))

RECURSIVE UnsinkAll(_, _), SinkAll(_, _)
UnsinkAll(w, path) ==
    IF CanUnsink(w, path, FALSE)
    THEN UnsinkAll(Unsink(w, path), Front(path))
    ELSE w
SinkAll(w, path) ==
    IF CanSink(w, path) THEN SinkAll(Sink(w, path), SunkTo(w, path)) ELSE w

\* split_regularise_stdisp.
Regularised(w) ==
    LET path == STPath(w.tree)
        st == At(w.tree, path)
        size == st.g.size[st.orient]
    IN IF path = <<>> THEN w
       ELSE IF size < Recommended(w, st) THEN UnsinkAll(w, Front(path))
       ELSE IF size > Recommended(w, st) THEN SinkAll(w, Front(path))
       ELSE w

\* splittree_begin_resize and splittree_end_resize.
Begun(w) == [w EXCEPT !.saw = FALSE]
Ended(w) == [(IF w.saw THEN Regularised(w) ELSE w) EXCEPT !.saw = FALSE]

\* Faulty variant: it stays where it is.
DodgedNot(w, path, keep) == [w |-> w, path |-> path, ok |-> TRUE]
\* dodge_stdisp: the status display is moved out of the node at path, which
\* then is at the path returned; with keep it may stay an immediate child.
\* split is the path from the node to the status display's parent.
RECURSIVE Dodged(_, _, _), DodgedFrom(_, _, _, _)
Dodged(w, path, keep) ==
    LET node == At(w.tree, path)
    IN IF IsST(node) \/ ~HasST(node)
       THEN [w |-> w, path |-> path, ok |-> TRUE]
       ELSE DodgedFrom(w, path, keep, Front(STPath(node)))
Seen(w) == [w EXCEPT !.saw = TRUE]
DodgedFrom(w, path, keep, split) ==
    LET Past(q) == Append(path, Opposite(SideOf(At(q.tree, path))))
        Up(q) == IF Len(split) = 1
                 THEN [w |-> Seen(q), path |-> Past(q), ok |-> TRUE]
                 ELSE Dodged(q, path, keep)
    IN IF split = <<>>
       THEN [w |-> Seen(w), path |-> IF keep THEN path ELSE Past(w), ok |-> TRUE]
       ELSE IF ~CanUnsink(w, path \o split, TRUE)
       THEN [w |-> Seen(w), path |-> path, ok |-> FALSE]
       ELSE Up(Unsink(w, path \o split))
=============================================================================
