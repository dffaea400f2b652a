-------------------------------- MODULE Tiling --------------------------------
(***************************************************************************)
(* A WTiling (mod_tiling/tiling.c and split.c): frames are split, removed, *)
(* resized, flipped, transposed and rotated, while the status display is   *)
(* put in, changes its size, and is taken away.                            *)
(***************************************************************************)
EXTENDS SplitStdisp

CONSTANTS
    Frames,
    Sizes,      \* sizes of the tiling
    Wants,      \* sizes the status display asks for
    SplitMins,  \* least sizes of a new frame
    Steps,      \* by how much a frame is asked to grow
    Places      \* where a status display may be put

ASSUME TilingAssumption ==
    /\ Inf \in Nat /\ StMin \in Nat \ {0} /\ FrameMin \in Nat \ {0}
    /\ Sizes \cup Wants \subseteq [Dirs -> 1..Inf]
    /\ SplitMins \subseteq Nat /\ Steps \subseteq Int
    /\ Places \subseteq [corner : [Dirs -> Sides], orient : Dirs, full : BOOLEAN]

VARIABLE w

FramePaths == {p \in PathsOf(w.tree) : Kind(At(w.tree, p), "frame")}
WithoutST == ~HasST(w.tree)
STManaged == ~WithoutST /\ At(w.tree, STPath(w.tree)).reg

\* splittree_begin_resize comes first in each operation, so that what is left
\* in saw_stdisp does not matter.
Done(q) == [q EXCEPT !.saw = FALSE]

Init ==
    \E f \in Frames, size \in Sizes, want \in Wants :
        LET area == [pos |-> Both(0), size |-> size]
        IN w = [tree |-> SplitRegion(f, area), size |-> size,
                want |-> want, saw |-> FALSE]

-----------------------------------------------------------------------------
(* Resizing. *)

\* split_resize.
Resize(q, path, g, prim) ==
    Ended(Resized(Begun(Updated(q, path)), path, g, prim, FALSE))

\* Division of C.
Quot(a, b) == IF a < 0 THEN -((-a) \div b) ELSE a \div b

\* bnd, in direction d.
Bnd(g, node, d) ==
    LET old == node.g
        ud == maxof(g.pos[d] - old.pos[d], old.pos[d] - g.pos[d])
        end == (g.pos[d] + g.size[d]) - (old.pos[d] + old.size[d])
        dd == maxof(end, -end)
        size == Bound(g.size[d], node.min[d], node.max[d])
    IN IF ud + dd = 0 THEN g
       ELSE [g EXCEPT !.size[d] = size,
                      !.pos[d] = @ + Quot((g.size[d] - size) * ud, ud + dd)]

\* What splittree_rqgeom passes on as a WPrimn: flags & REGION_RQGEOM_WEAK_X,
\* which is PRIMN_TL (1), and flags & REGION_RQGEOM_WEAK_Y, PRIMN_BR (2).
WeakPrim(weak) ==
    PerDir(LAMBDA d : IF ~weak[d] THEN "any" ELSE IF d = "hor" THEN "tl" ELSE "br")

\* splittree_rqgeom without REGION_RQGEOM_TRYONLY.
RqNode(q, path, g, weak) ==
    LET node == At(q.tree, path)
        prim == WeakPrim(weak)
        \* Where any edge may move, all of the growth goes to the br edge.
        Placed(b) ==
            [pos |-> PerDir(LAMBDA d : IF weak[d] THEN node.g.pos[d] ELSE b.pos[d]),
             size |-> PerDir(LAMBDA d : IF weak[d]
                          THEN b.size[d] + node.g.pos[d] - b.pos[d]
                          ELSE b.size[d])]
        Answered(got) == Ended(Resized(got.w, path, got.g, prim, FALSE))
    IN Answered(DoRqGeom(Begun(q), path,
                         Placed(Bnd(Bnd(g, node, "hor"), node, "ver")), weak, FALSE))
RqStdisp(q, size, weak) ==
    LET path == STPath(q.tree)
        node == At(q.tree, path)
        across == OtherDir(node.orient)
    IN IF node.g.size[across] = size[across] THEN q
       ELSE RqNode(Updated(q, <<>>), path,
                   [node.g EXCEPT !.size[across] = size[across]], weak)
RqGeom(q, g, path, weak) ==
    LET bounded == Updated(q, <<>>)
    IN IF IsST(At(q.tree, path)) THEN RqStdisp(Regularised(bounded), g.size, weak)
       ELSE RqNode(bounded, path, g, weak)

\* split_rqgeom and tiling_managed_rqgeom: one edge of a frame is to move.
Rq(path) ==
    \E d \in Dirs, side \in Sides, step \in Steps :
        LET node == At(w.tree, path)
            g == [node.g EXCEPT
                     !.size[d] = maxof(1, @ + step),
                     !.pos[d] = IF side = "tl" THEN @ - step ELSE @]
        IN w' = Done(RqGeom(w, g, path, Both(FALSE)))
\* split_rqgeom of a script: a node is to have another size, wherever.
RqWeak(path) ==
    \E step \in Steps :
        LET node == At(w.tree, path)
            g == [node.g EXCEPT !.size = PerDir(LAMBDA d : @[d] + step)]
        IN w' = Done(RqGeom(w, g, path, Both(TRUE)))

\* tiling_fitrep, without and with REGION_FIT_ROTATE.
Fitted(q, size) ==
    LET r == [q EXCEPT !.size = size] IN Resize(r, <<>>, TilingArea(r), AnyPrim)
Fit(size) == w' = Done(Fitted(w, size))

-----------------------------------------------------------------------------
(* Flipping and transposing. *)

\* The areas of the children of t after they changed places.
BrFlipped(t) == [t.br.g EXCEPT !.pos[t.dir] = t.g.pos[t.dir]]
TlFlipped(t) ==
    [t.tl.g EXCEPT !.pos[t.dir] =
        t.g.pos[t.dir] + t.g.size[t.dir] - t.tl.g.size[t.dir]]
\* Faulty variant: the second pointer is read after it was overwritten.
FlippedOnto(t0, want) ==
    LET In(t) ==
            [t EXCEPT !.tl = DoResize(t.br, BrFlipped(t), AnyPrim, FALSE, want)]
    IN In(Bounds(t0, want))
\* splitsplit_flip_default.
Flipped(t0, want) ==
    LET In(t) ==
            [t EXCEPT !.tl = DoResize(t.br, BrFlipped(t), AnyPrim, FALSE, want),
                      !.br = DoResize(t.tl, TlFlipped(t), AnyPrim, FALSE, want)]
    IN In(Bounds(t0, want))

\* splitsplit_flip.
Flip(path) ==
    LET In(d) == IF d.ok /\ IsSplit(At(d.w.tree, d.path))
                 THEN Ended([d.w EXCEPT !.tree =
                          Put(@, d.path, Flipped(At(@, d.path), w.want))])
                 ELSE d.w
    IN w' = Done(In(Dodged(Begun(w), path, FALSE)))

\* do_flip and splittree_flip_dir, which does not flip the node itself.
RECURSIVE DoFlip(_, _, _)
FlipDir(t, dirs, want) ==
    IF ~IsSplit(t) THEN t
    ELSE [t EXCEPT !.tl = DoFlip(@, dirs, want), !.br = DoFlip(@, dirs, want)]
DoFlip(t, dirs, want) ==
    FlipDir(IF IsSplit(t) /\ t.dir \in dirs /\ ~HasChildST(t)
            THEN Flipped(t, want) ELSE t, dirs, want)
\* split_fliptrans_to.
FlipTransTo(q, path, g, trans, dirs) ==
    LET Flipt(r, p) ==
            Ended([r EXCEPT !.tree = Put(@, p, FlipDir(At(@, p), dirs, q.want))])
        Trans(got, p) == Flipt(Resized(got.w, p, got.g, AnyPrim, trans), p)
        Here(d) ==
            [ok |-> d.ok,
             w |-> IF d.ok
                   THEN Trans(DoRqGeom(Updated(d.w, d.path), d.path, g,
                                       Both(FALSE), FALSE), d.path)
                   ELSE d.w]
    IN Here(Dodged(Begun(q), path, TRUE))

\* split_transpose.
Transpose(path) ==
    w' = Done(FlipTransTo(w, path, At(w.tree, path).g, TRUE, Dirs).w)

\* tiling_fitrep with REGION_FIT_ROTATE, split_rotate_to.
Rotate(size) ==
    \E trans \in BOOLEAN, dirs \in {Dirs, {"hor"}, {"ver"}} :
        /\ trans = (dirs # Dirs)
        /\ LET Else(r) == IF r.ok THEN r.w ELSE Fitted(r.w, size)
               Turned(q) == FlipTransTo(q, <<>>, TilingArea(q), trans, dirs)
           IN w' = Done(Else(Turned([w EXCEPT !.size = size])))

-----------------------------------------------------------------------------
(* Splitting and removing. *)

\* splittree_split and tiling_do_split: a new frame f on side s of the node at
\* path, with so of the area g for the node and the rest for the frame.
Halved(q, path, s, dir, f, g, so) ==
    LET Part(x, e) == [g EXCEPT
            !.size[dir] = x,
            !.pos[dir] = IF e = "tl" THEN @ ELSE @ + g.size[dir] - x]
        old == Resized(q, path, Part(so, Opposite(s)),
                       [AnyPrim EXCEPT ![dir] = s], FALSE)
        new == SplitRegion(f, Part(g.size[dir] - so, s))
        Pair(node) == [SplitSplit(dir, node, node, g) EXCEPT ![s] = new]
    IN Ended([old EXCEPT !.tree = Put(@, path, Pair(At(@, path)))])
\* There is room in the node for both.
SplitInside(q, path, s, dir, f, rest) ==
    Halved([q EXCEPT !.saw = @ \/ \E p \in PathsOf(q.tree) :
                 IsStrictPrefix(p, path) /\ HasChildST(At(q.tree, p))],
             path, s, dir, f, At(q.tree, path).g, rest)
\* The node has to get larger first; if it cannot, nothing is split.
SplitLarger(q, path, s, dir, mins, f, size) ==
    LET node == At(q.tree, path)
        Got(tryonly) == DoRqGeom(q, path, [node.g EXCEPT !.size[dir] = size],
                                 Both(TRUE), tryonly)
        So(room) == IF mins > room \div 2 THEN room - mins
                    ELSE maxof(room \div 2, node.min[dir])
        With(got) == Halved(got.w, path, s, dir, f, got.g, So(got.g.size[dir]))
    IN IF Got(TRUE).g.size[dir] < mins + node.min[dir] THEN q
       ELSE With(Got(FALSE))
SplitNode(q, path, s, dir, mins, f) ==
    LET node == At(q.tree, path)
        half == maxof(mins, node.g.size[dir] \div 2)
        rest == maxof(node.min[dir], node.g.size[dir] - half)
    IN IF half + rest = node.g.size[dir] THEN SplitInside(q, path, s, dir, f, rest)
       ELSE SplitLarger(q, path, s, dir, mins, f, half + rest)
Split(path, s, dir, mins, f) ==
    LET In(d) == IF ~d.ok \/ IsST(At(d.w.tree, d.path)) THEN d.w
                 ELSE SplitNode(Updated(d.w, <<>>), d.path, s, dir, mins, f)
    IN w' = Done(In(Dodged(Begun(w), path, FALSE)))

\* Faulty variant: the sibling keeps its size.
RemovedOnly(q, path) ==
    LET split == At(q.tree, Front(path))
    IN [q EXCEPT !.tree = Put(@, Front(path), split[Opposite(Last(path))])]
\* splitsplit_remove once the sibling is no status display, or cannot be
\* helped.
RemovedHere(q, path) ==
    LET split == At(q.tree, Front(path))
        other == split[Opposite(Last(path))]
    IN Resize([q EXCEPT !.tree = Put(@, Front(path), other)], Front(path),
              split.g, [AnyPrim EXCEPT ![split.dir] = Last(path)])

\* splitsplit_remove.
Removed(q, path) ==
    LET up == Front(path)
        p == At(q.tree, up)
    IN IF IsST(p[Opposite(Last(path))]) /\ CanUnsink(q, up, TRUE)
       THEN RemovedHere(Unsink(q, up), Front(up) \o <<Last(path), Last(up)>>)
       ELSE RemovedHere(q, path)

\* tiling_managed_remove of a frame.
RemoveFrame(path) ==
    IF Cardinality(FramesIn(w.tree)) = 1
    THEN \E f \in Frames :
            w' = [w EXCEPT !.tree = Put(@, path, [At(@, path) EXCEPT !.reg = f])]
    ELSE w' = Done(Removed(w, path))

-----------------------------------------------------------------------------
(* The status display. *)

\* tiling_unmanage_stdisp, and tiling_managed_remove of the status display.
UnmanageStdisp(permanent) ==
    LET path == STPath(w.tree)
    IN w' = IF permanent THEN Done(Removed(w, path))
            ELSE [w EXCEPT !.tree = Put(@, path,
                                        [At(@, path) EXCEPT !.reg = FALSE])]

\* tiling_create_stdispnode.
WithStdisp(q, corner, orient, full) ==
    LET d == OtherDir(orient)
        g == [TilingArea(q) EXCEPT
                 !.size[d] = 0,
                 !.pos[d] = IF corner[d] = "br" THEN q.size[d] ELSE 0]
        s == corner[d]
        split == SplitSplit(d, q.tree, q.tree, TilingArea(q))
    IN [q EXCEPT !.tree = [split EXCEPT
                    ![s] = SplitST(orient, corner, full, g)]]

\* tiling_manage_stdisp.
ManageStdisp(corner, orient, full) ==
    LET path == STPath(w.tree)
        st == At(w.tree, path)
        stays == ~WithoutST /\ st.corner = corner /\ st.orient = orient
        d == OtherDir(orient)
        Asking(q, at) == RqGeom(q, [At(q.tree, at).g EXCEPT
                                       !.size[d] = maxof(StMin, w.want[d])],
                                at, Both(TRUE))
        New(q) == Asking(q, STPath(q.tree))
    IN w' = Done(IF stays
                 THEN Asking([w EXCEPT !.tree = Put(@, path,
                                [st EXCEPT !.full = full, !.reg = TRUE])], path)
                 ELSE New(WithStdisp(IF WithoutST THEN w ELSE Removed(w, path),
                                     corner, orient, full)))

\* The status display's contents change: it asks for another size.
StdispAsks(want) ==
    LET path == STPath(w.tree)
        g == [At(w.tree, path).g EXCEPT !.size = want]
    IN w' = Done(RqGeom([w EXCEPT !.want = want], g, path, Both(TRUE)))

-----------------------------------------------------------------------------
(* Saving and loading. *)

\* load_splitsplit and load_splitregion, of what splitsplit_get_config and
\* the others save; the status display is not loaded.
RECURSIVE Loaded(_, _, _)
Loaded(t, g, want) ==
    IF Kind(t, "frame") THEN SplitRegion(t.reg, g)
    ELSE
      LET d == t.dir
          tls == maxof(t.tl.g.size[d], 1)
          brs == maxof(t.br.g.size[d], 1)
          size == (g.size[d] * tls) \div (tls + brs)
          tlg == [g EXCEPT !.size[d] = size]
          brg == [g EXCEPT !.size[d] = @ - size, !.pos[d] = @ + size]
      IN IF IsST(t.tl)
         THEN DoResize(Loaded(t.br, brg, want), g, Both("tl"), FALSE, want)
         ELSE IF IsST(t.br)
         THEN DoResize(Loaded(t.tl, tlg, want), g, Both("br"), FALSE, want)
         ELSE SplitSplit(d, Loaded(t.tl, tlg, want), Loaded(t.br, brg, want), g)

\* The end and the next start: tiling_get_configuration, tiling_load.
Reload(size) ==
    LET q == [w EXCEPT !.size = size]
    IN w' = [q EXCEPT !.tree = Loaded(@, TilingArea(q), w.want)]

-----------------------------------------------------------------------------
Next ==
    \/ \E p \in PathsOf(w.tree), s \in Sides, dir \in Dirs, mins \in SplitMins,
          f \in Frames \ FramesIn(w.tree) : Split(p, s, dir, mins, f)
    \/ \E p \in FramePaths : RemoveFrame(p)
    \/ \E p \in FramePaths : Rq(p)
    \/ \E p \in PathsOf(w.tree) : ~IsST(At(w.tree, p)) /\ RqWeak(p)
    \/ \E size \in Sizes : Fit(size)
    \/ \E size \in Sizes : Rotate(size)
    \/ \E p \in PathsOf(w.tree) : IsSplit(At(w.tree, p)) /\ Flip(p)
    \/ \E p \in PathsOf(w.tree) : Transpose(p)
    \/ \E at \in Places : ManageStdisp(at.corner, at.orient, at.full)
    \/ \E permanent \in BOOLEAN : ~WithoutST /\ UnmanageStdisp(permanent)
    \/ \E want \in Wants : STManaged /\ StdispAsks(want)
    \/ \E size \in Sizes : Reload(size)

Spec == Init /\ [][Next]_w

-----------------------------------------------------------------------------
(* Properties. *)

\* At most one status display, and each frame once.
TypeOK ==
    LET t == w.tree
        leaves == {p \in PathsOf(t) : ~IsSplit(At(t, p))}
    IN /\ w.size \in Sizes /\ w.want \in Wants /\ ~w.saw
       /\ Cardinality(STPaths(t)) <= 1
       /\ FramesIn(t) \subseteq Frames /\ FramesIn(t) # {}
       /\ Cardinality(leaves) =
              Cardinality(FramesIn(t)) + Cardinality(STPaths(t))

\* The children of each split divide its area between them, and the root has
\* the whole tiling: no two frames overlap and no room is lost.
RECURSIVE Divided(_)
Divided(t) ==
    /\ \A d \in Dirs : t.g.size[d] >= 0
    /\ IsSplit(t) =>
        LET d == t.dir
            first == t.tl.g.size[d]
        IN /\ t.tl.g = [t.g EXCEPT !.size[d] = first]
           /\ t.br.g = [t.g EXCEPT !.size[d] = @ - first, !.pos[d] = @ + first]
           /\ Divided(t.tl) /\ Divided(t.br)
Tiled(q) == q.tree.g = TilingArea(q) /\ Divided(q.tree)

StaysTiled ==
    [][Tiled(w) => Tiled(w') \/ \E p \in PathsOf(w.tree) \ {<<>>} : Transpose(p)]_w

\* The status display lies along the right edge of its sibling and touches
\* its corner of the tiling.
StdispInCorner ==
    /\ TypeOK
    /\ ~WithoutST =>
           LET path == STPath(w.tree)
               split == At(w.tree, Front(path))
               st == At(w.tree, path)
           IN /\ DirOk(split, st)
              /\ Last(path) = st.corner[split.dir]
              /\ \A d \in Dirs :
                   IF st.corner[d] = "tl" THEN st.g.pos[d] = 0
                   ELSE st.g.pos[d] + st.g.size[d] = w.size[d]

\* The frames' tree.
RECURSIVE Strip(_)
Strip(t) ==
    IF ~IsSplit(t) THEN [reg |-> t.reg]
    ELSE IF IsST(t.tl) THEN Strip(t.br)
    ELSE IF IsST(t.br) THEN Strip(t.tl)
    ELSE [dir |-> t.dir, tl |-> Strip(t.tl), br |-> Strip(t.br)]

Layout == INSTANCE FrameTree WITH tree <- Strip(w.tree)
KeepsLayout == Layout!Spec
=============================================================================
