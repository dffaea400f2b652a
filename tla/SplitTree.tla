------------------------------ MODULE SplitTree ------------------------------
(***************************************************************************)
(* The split tree of a WTiling (mod_tiling/split.c, split-stdisp.c): its   *)
(* leaves are frames and at most one status display (WSplitST), and each   *)
(* WSplitSplit divides its area between two nodes.  The status display is  *)
(* moved up and down in the tree ("unsunk" and "sunk") to make it longer   *)
(* or shorter.                                                             *)
(*                                                                         *)
(* A tiling is a record w: its tree, its size, want, the size the status   *)
(* display asks for, and saw, for saw_stdisp, which is set only within an  *)
(* operation.  The area g of a node has a position and a size in each      *)
(* direction, so that the code's cases for horizontal and vertical are     *)
(* one; min and max are the bounds that were last computed.  Floating      *)
(* splits, and the unused space that only they have, are left out.         *)
(***************************************************************************)
EXTENDS Paths, Integers, FiniteSets

CONSTANTS
    Inf,        \* INT_MAX
    FrameMin,   \* the least size of a frame
    StMin       \* CF_STDISP_MIN_SZ

\* Of two, as in libtu.
minof(x, y) == IF x < y THEN x ELSE y
maxof(x, y) == IF x > y THEN x ELSE y
AnyPrim == Both("any")

Kind(t, k) == t.kind = k
IsST(t) == Kind(t, "st")

\* split_init, splitregion_init, splitst_init, splitsplit_init.
Unbounded == [min |-> Both(0), max |-> Both(Inf)]
SplitRegion(f, g) ==
    [kind |-> "frame", reg |-> f, g |-> g,
     min |-> Unbounded.min, max |-> Unbounded.max]
SplitST(orient, corner, full, g) ==
    [kind |-> "st", reg |-> TRUE, orient |-> orient, corner |-> corner,
     full |-> full, g |-> g, min |-> Unbounded.min, max |-> Unbounded.max]
SplitSplit(dir, tl, br, g) ==
    [kind |-> "split", dir |-> dir, tl |-> tl, br |-> br, g |-> g,
     min |-> Unbounded.min, max |-> Unbounded.max]

HasChildST(t) == Kind(t, "split") /\ (IsST(t.tl) \/ IsST(t.br))
STPaths(t) == {p \in PathsOf(t) : IsST(At(t, p))}
RECURSIVE HasST(_), STPath(_)
HasST(t) == IF IsSplit(t) THEN HasST(t.tl) \/ HasST(t.br) ELSE IsST(t)
STPath(t) ==
    IF IsST(t) THEN <<>>
    ELSE LET s == IF HasST(t.tl) THEN "tl" ELSE "br" IN <<s>> \o STPath(t[s])
FramesIn(t) == {At(t, p).reg : p \in {p \in PathsOf(t) : Kind(At(t, p), "frame")}}

TilingArea(w) == [pos |-> Both(0), size |-> w.size]

-----------------------------------------------------------------------------
(* Bounds.                                                                 *)

Add(x, y) == IF Inf \in {x, y} THEN Inf ELSE x + y
Bound(x, min, max) ==
    IF x < min THEN min ELSE IF x > max THEN max ELSE x

\* splitregion_update_bounds, splitst_update_bounds; splitsplit_update_bounds
\* without its recursion.
OwnBounds(t, want) ==
    CASE Kind(t, "frame") ->
            [t EXCEPT !.min = Both(FrameMin),
                      !.max = Both(Inf)]
      [] Kind(t, "st") ->
            LET size == PerDir(LAMBDA d : IF t.reg THEN want[d] ELSE StMin)
            IN [t EXCEPT !.min = [size EXCEPT ![t.orient] = StMin],
                         !.max = [size EXCEPT ![t.orient] = Inf]]
      [] Kind(t, "split") ->
            LET min == PerDir(LAMBDA d :
                    IF d = t.dir THEN Add(t.tl.min[d], t.br.min[d])
                    ELSE maxof(t.tl.min[d], t.br.min[d]))
                max == PerDir(LAMBDA d :
                    IF d = t.dir THEN Add(t.tl.max[d], t.br.max[d])
                    ELSE maxof(minof(t.tl.max[d], t.br.max[d]), min[d]))
            IN [t EXCEPT !.min = min, !.max = max]

\* split_update_bounds, recursive.
RECURSIVE Bounds(_, _)
Bounds(t, want) ==
    IF Kind(t, "split")
    THEN OwnBounds([t EXCEPT !.tl = Bounds(t.tl, want),
                             !.br = Bounds(t.br, want)], want)
    ELSE OwnBounds(t, want)

-----------------------------------------------------------------------------
(* Resizing, from the root to the leaves.                                  *)

\* adjust_sizes: sizes <<tl, br>> for nsize; both were sz.
Adjusted(tls, brs, nsize, sz, tl, br, prim) ==
    LET T(x) == Bound(x, tl.min, tl.max)
        B(x) == Bound(x, br.min, br.max)
    IN IF prim = "br"
       THEN LET t == T(nsize - B(brs + nsize - sz))
            IN <<t, B(nsize - t)>>
       ELSE LET b == B(nsize - T(IF prim = "tl" THEN tls + nsize - sz
                                 ELSE (tls * nsize) \div sz))
            IN <<T(nsize - b), b>>

\* split_do_resize.  The dynamic function of an inner node is
\* splitsplit_do_resize, which changes the direction of splits if it is to
\* transpose, but not that of the status display's.
\* The tl part of nsize; both were sz.  If the limits leave no solution it is
\* in proportion.
TlSize(tls, sz, nsize, adjusted) ==
    IF adjusted[1] + adjusted[2] = nsize THEN adjusted[1]
    ELSE IF sz <= 2 THEN nsize \div 2
    ELSE (tls * nsize) \div sz
Divide(tl, br, d, nsize, sz, adjusted) ==
    TlSize(tl.g.size[d], sz, nsize, IF sz > 2 THEN adjusted
                                    ELSE <<tl.g.size[d], br.g.size[d]>>)
Limits(c, dir) ==
    [min |-> c.min[dir], max |-> maxof(c.min[dir], c.max[dir])]

RECURSIVE DoResize(_, _, _, _, _), Filled(_, _, _, _, _, _, _)
DoResize(t, g, prim, transpose, want) ==
    IF ~Kind(t, "split")
    THEN IF IsST(t) /\ ~t.reg THEN [t EXCEPT !.g = g]
         ELSE [OwnBounds(t, want) EXCEPT !.g = g]
    ELSE
      LET dir == IF transpose /\ ~HasChildST(t) THEN OtherDir(t.dir)
                 ELSE t.dir
          tls == t.tl.g.size[t.dir]
          brs == t.br.g.size[t.dir]
          tlsize == Divide(t.tl, t.br, t.dir, g.size[dir], tls + brs,
                           Adjusted(tls, brs, g.size[dir], tls + brs,
                                    Limits(t.tl, dir), Limits(t.br, dir),
                                    prim[dir]))
      IN Filled(t, g, dir, tlsize, prim, transpose, want)
\* The split resized with tlsize for its tl child, and the direction dir.
Filled(t, g, dir, tlsize, prim, transpose, want) ==
    LET tlg == [g EXCEPT !.size[dir] = tlsize]
        brg == [g EXCEPT !.size[dir] = @ - tlsize, !.pos[dir] = @ + tlsize]
    IN OwnBounds([t EXCEPT
           !.tl = DoResize(t.tl, tlg, prim, transpose, want),
           !.br = DoResize(t.br, brg, prim, transpose, want),
           !.dir = dir, !.g = g], want)

\* The node at path p of the tiling resized.
Resized(w, p, g, prim, transpose) ==
    LET node == At(w.tree, p)
    IN [w EXCEPT !.tree = Put(w.tree, p, DoResize(node, g, prim, transpose, w.want)),
                 !.saw = @ \/ HasST(node)]

\* split_update_bounds of the node at p.
Updated(w, p) ==
    [w EXCEPT !.tree = Put(w.tree, p, Bounds(At(w.tree, p), w.want))]

-----------------------------------------------------------------------------
(* Requests, from a leaf to the root.  What is asked for in direction d is *)
(* ask[d]: by how much the tl and the br edge are to move outwards, and    *)
(* whether any edge will do.                                               *)

\* flexibility and calc_amount: what other gives of rs, or takes.
Amount(rs, other, d) ==
    LET size == other.g.size[d]
        stretch == IF IsST(other) THEN maxof(0, other.max[d] - size) ELSE Inf
    IN IF rs > 0 THEN minof(rs, maxof(0, size - other.min[d]))
       ELSE -minof(-rs, stretch)

\* The split at p gets the area up.g from above, and divides it between the
\* child on side s, which gets the first of the sizes, and its sibling.
Granted(up, p, s, d, sizes, tryonly) ==
    LET Area(size, side) ==
            [up.g EXCEPT !.size[d] = size,
                         !.pos[d] = IF side = "tl" THEN @
                                    ELSE @ + up.g.size[d] - size]
        other == Opposite(s)
        prim == [AnyPrim EXCEPT ![d] = s]
        done == Resized([up.w EXCEPT !.tree =
                            Put(@, p, [At(@, p) EXCEPT !.g = up.g])],
                        Append(p, other), Area(sizes[2], other), prim, FALSE)
    IN [w |-> IF tryonly THEN up.w ELSE done, g |-> Area(sizes[1], s)]

\* Sizes for the node and its sibling in the size given from above, after the
\* node took amount from its sibling.
Shares(size, ns, os, node, other, d) ==
    LET Hard(c) == [min |-> c.min[d], max |-> c.max[d]]
    IN Adjusted(ns, os, size, ns + os, Hard(node), Hard(other), "tl")

\* splitsplit_do_rqsize: the area for the child on side s of the split at p,
\* which is got from its sibling and from above.
RECURSIVE RqSize(_, _, _, _, _), RqUp(_, _, _, _, _, _, _)
RqSize(w, p, s, ask, tryonly) ==
    LET split == At(w.tree, p)
        d == split.dir
        edge == IF s = "tl" \/ ask[d].any THEN "br" ELSE "tl"
    IN RqUp(w, p, s, ask, edge,
            Amount(ask[d][edge], split[Opposite(s)], d), tryonly)
RqUp(w, p, s, ask, edge, amount, tryonly) ==
    LET split == At(w.tree, p)
        d == split.dir
        node == split[s]
        other == split[Opposite(s)]
        rest == [ask EXCEPT ![d] = [@ EXCEPT ![edge] = @ - amount]]
        Shared(up) ==
            Granted(up, p, s, d,
                    Shares(up.g.size[d], maxof(0, node.g.size[d] + amount),
                           maxof(0, other.g.size[d] - amount), node, other, d),
                    tryonly)
    IN Shared(IF p = <<>> THEN [w |-> w, g |-> TilingArea(w)]
              ELSE RqSize(w, Front(p), Last(p), rest, tryonly))

\* split_do_rqgeom_ for the node at p, with initra; weak[d]: any edge will do.
DoRqGeom(w, p, g, weak, tryonly) ==
    LET old == At(w.tree, p).g
        End(a, d) == a.pos[d] + a.size[d]
        ask == PerDir(LAMBDA d :
            IF weak[d]
            THEN [tl |-> 0, any |-> TRUE,
                  br |-> (End(g, d) - End(old, d)) + (old.pos[d] - g.pos[d])]
            ELSE [tl |-> old.pos[d] - g.pos[d], any |-> FALSE,
                  br |-> End(g, d) - End(old, d)])
    IN IF p = <<>> THEN [w |-> w, g |-> TilingArea(w)]
       ELSE RqSize(w, Front(p), Last(p), ask, tryonly)
=============================================================================
