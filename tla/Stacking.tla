------------------------------ MODULE Stacking ------------------------------
(***************************************************************************)
(* The stacking list of a window (ioncore/stacking.c): its nodes, the      *)
(* lowest first, in the order of their levels, some of them stacked above  *)
(* another.  A list is a sequence s of nodes; level and above are functions *)
(* of nodes, for st->level and st->above.                                  *)
(***************************************************************************)
EXTENDS Lists

CONSTANT None

Bottom == 0      \* STACKING_LEVEL_BOTTOM, and so on
Normal == 1
Modal == 1024

\* S and all that is stacked above any of S, at any remove (is_above,
\* check_unweave).
WithAbove(above, S) ==
    LET grown[n \in 0..Cardinality(DOMAIN above)] ==
            IF n = 0 THEN S
            ELSE grown[n - 1]
                 \cup {x \in DOMAIN above : above[x] \in grown[n - 1]}
    IN grown[Cardinality(DOMAIN above)]
\* x and all that it is stacked above.
WithBelow(above, x) == {p \in DOMAIN above : x \in WithAbove(above, {p})}

\* The place of x from the place ab on: on top of its level, or under it
\* (below).
PlaceOn(s, ab, x, level, below) ==
    LET over == {i \in ab..Len(s) :
                    \/ level[s[i]] > level[x]
                    \/ below /\ level[s[i]] = level[x]}
    IN IF over = {} THEN Len(s) + 1 ELSE Min(over)
\* Faulty variant: the place of each node is looked for from the bottom.
WeaveFromBottom(s, nodes, level, below) ==
    LET woven[n \in 0..Len(nodes)] ==
            IF n = 0 THEN s
            ELSE LET q == woven[n - 1]
                     i == PlaceOn(q, 1, nodes[n], level, below)
                 IN InsertAt(q, i, nodes[n])
    IN woven[Len(nodes)]
\* stacking_do_weave: each of nodes is put in its place, which is looked for
\* from the place of the one before, ab.  Its enforce_level_sanity finds nodes
\* in order already, "should do nothing".
Woven(q, x, level, below) ==
    LET i == PlaceOn(q.s, q.ab, x, level, below)
    IN [s |-> InsertAt(q.s, i, x), ab |-> i + 1]
Weave(s, nodes, level, below) ==
    LET woven[n \in 0..Len(nodes)] ==
            IF n = 0 THEN [s |-> s, ab |-> 1]
            ELSE Woven(woven[n - 1], nodes[n], level, below)
    IN woven[Len(nodes)].s

\* stacking_unweave, of the members of a group: each stays below what is
\* stacked above it.
Unweaved(above, members) ==
    WithAbove(above, {x \in members : above[x] = None})

\* stacking_unstack: what was stacked above x no more is.
Unstacked(above, x) ==
    [y \in DOMAIN above |-> IF x \in {y, above[y]} THEN None ELSE above[y]]

\* Faulty variant: what is stacked above x stays where it is.
RestackAlone(s, x, level, above, lower) ==
    Weave(Unlink(s, x), <<x>>, level, lower)
\* stacking_restack: x is raised, or lowered, in its level, with all that is
\* stacked above it and, when lowered, all that it is stacked above.
Restack(s, x, level, above, lower) ==
    LET over == WithAbove(above, {x}) \ {x}
        under == IF lower THEN WithBelow(above, x) ELSE {x}
    IN Weave(Dropping(s, over \cup under), Only(s, under) \o Only(s, over),
             level, lower)

\* Faulty variant: the search goes on below a modal node.
FindBelowModal(s, level, toTry, include, approve) ==
    LET c == Reverse(Only(s, include \cup {toTry}))
        found == {i \in DOMAIN c : c[i] \in approve}
    IN IF toTry \in ToSet(c) THEN toTry
       ELSE IF found = {} THEN None ELSE c[Min(found)]
\* stacking_find_to_focus: from the top, but not below the level of a modal
\* node, the node to try, or else the first that is approved.
FindToFocus(s, level, toTry, include, approve) ==
    LET c == Reverse(Only(s, include \cup {toTry}))
        Barred(i) == \E j \in 1..(i - 1) :
                         level[c[j]] >= Modal /\ level[c[i]] < level[c[j]]
        seen == {i \in DOMAIN c : \A j \in 1..i : ~Barred(j)}
        found == {i \in seen : c[i] \in approve}
    IN IF toTry \in {c[i] : i \in seen} THEN toTry
       ELSE IF found = {} THEN None ELSE c[Min(found)]

\* stacking_must_focus
MustFocus(s, level, x, mapped) ==
    LET top == FindToFocus(s, level, None, mapped \ {x}, mapped)
    IN top = None \/ (level[x] > level[top] /\ level[x] >= Modal)
=============================================================================
