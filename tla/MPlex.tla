-------------------------------- MODULE MPlex --------------------------------
(***************************************************************************)
(* A multiplexer of regions: what frames and screens are                   *)
(* (ioncore/mplex.c, mplexpholder.c, llist.c, part of frame.c).            *)
(*                                                                         *)
(* A WMPlex manages regions.  The numbered ones are on its mutually        *)
(* exclusive list mx_list, of which only mx_current is to be seen; the     *)
(* others (dialogs, docks, scratchpads) may be shown besides.              *)
(* Placeholders mark places on the list: each hangs on the node it comes   *)
(* after, or on misc_phs before all nodes.  When a floating frame is       *)
(* disposed of, its placeholders are left as a list of their own, out of   *)
(* which the frame can be made again.                                      *)
(*                                                                         *)
(* The mplex and its lists are one record, m, and each function of the     *)
(* code that changes them an operator on it, so that actions are made of   *)
(* calls as handlers are.  A region's lnode is the region itself.          *)
(***************************************************************************)
EXTENDS Lists

CONSTANTS
    Regions,
    PHolders,  \* placeholders others keep, of numbered regions; those of
               \* unnumbered ones mark no place.  Whether one has
               \* MPLEX_ATTACH_HIDDEN is left open until it is used.
    Temp,      \* the placeholder mplex_do_attach makes for itself
    None,
    Indices    \* the indices asked for: Last, AfterCurrent, ... or a Nat

AtEnd == -1
AfterCurrent == -2
AfterCurrentAct == -3

ASSUME MPlexAssumption ==
    /\ None \notin Regions \cup PHolders \cup {Temp}
    /\ Temp \notin PHolders
    /\ Regions \cap (PHolders \cup {Temp}) = {}
    /\ IsFiniteSet(Regions) /\ IsFiniteSet(PHolders)
    /\ Indices \subseteq Nat \cup {AtEnd, AfterCurrent, AfterCurrentAct}

VARIABLES
    m,        \* the WMPlex, see Blank
    ring,     \* placeholders left by a frame, with a recreate_pholder
    failed,   \* how the process failed: no; assertion; loop, a list that
              \* ends in a cycle; selflink, a node linked after itself
    numbered, \* history: regions that were given a number while shown
    veto      \* history: current regions that were hidden on request

vars == <<m, ring, failed, numbered, veto>>

\* A new mplex: not mapped yet; small is MPLEX_MANAGED_UNVIEWABLE.
Blank(small) ==
    [ mgd     |-> {},        \* what it manages
      mx      |-> <<>>,      \* mx_list
      current |-> None,      \* mx_current
      misc    |-> <<>>,      \* misc_phs
      phs     |-> [r \in Regions |-> <<>>],  \* phs of each node
      hidden  |-> {},
      mapped  |-> {},        \* those of mgd with REGION_MAPPED
      up      |-> FALSE,     \* REGION_MAPPED of the mplex
      small   |-> small ]

Init ==
    /\ \E small \in BOOLEAN : m = Blank(small)
    /\ ring = <<>>
    /\ failed = "no"
    /\ numbered = {} /\ veto = {}

-----------------------------------------------------------------------------
(* Placeholder lists. *)

Index(s, x) == CHOOSE i \in DOMAIN s : s[i] = x
OrNone(s) == IF s = <<>> THEN None ELSE Last(s)
\* LIST_PREV on mx_list
Previous(q, r) ==
    LET i == Index(q, r) IN IF i = 1 THEN None ELSE q[i - 1]

\* The placeholders on a node, or those before all nodes.
PhsOf(q, node) == IF node = None THEN q.misc ELSE q.phs[node]
WithPhs(q, node, s) ==
    IF node = None THEN [q EXCEPT !.misc = s] ELSE [q EXCEPT !.phs[node] = s]

\* mplexpholder_do_link: after a placeholder, or first of those on a node.
Link(q, ph, after, node) ==
    LET s == PhsOf(q, node)
        i == IF after = None THEN 0 ELSE Index(s, after)
    IN WithPhs(q, node, InsertAt(s, i + 1, ph))
\* Faulty variant: the placeholder stays.
UnlinkedNot(q, ph) == q
\* mplexpholder_do_unlink, when it is on a list of the mplex
Unlinked(q, ph) ==
    [q EXCEPT !.misc = Dropping(@, {ph}),
              !.phs = [r \in Regions |-> Dropping(q.phs[r], {ph})]]

\* Faulty variant: each is linked before the one moved before it.
MovePhsReversed(q, from, to) ==
    WithPhs(WithPhs(q, from, <<>>), to, PhsOf(q, to) \o Reverse(q.phs[from]))
\* mplex_move_phs, to the end of those on another node
MovePhs(q, from, to) ==
    WithPhs(WithPhs(q, from, <<>>), to, PhsOf(q, to) \o q.phs[from])

\* mplex_managed_remove's move of the placeholders of a node that goes
MovePhsBefore(q, r) == MovePhs(q, r, Previous(q.mx, r))

\* mplex_flatten_phs: all placeholders before all nodes
Flatten(q) ==
    LET moved[n \in 0..Len(q.mx)] ==
            IF n = 0 THEN q ELSE MovePhs(moved[n - 1], q.mx[n], None)
    IN moved[Len(q.mx)]

-----------------------------------------------------------------------------
(* The list of nodes. *)

\* The last of the regions with activity right after the current one; the
\* current one may have been unlinked just before.
AfterBusy(q, busy) ==
    LET list == q.mx
        i == Index(list, q.current)
    IN IF q.current \notin ToSet(list) THEN q.current
       ELSE list[CHOOSE j \in i..Len(list) :
                    /\ \A k \in (i + 1)..j : list[k] \in busy
                    /\ j < Len(list) => list[j + 1] \notin busy]

\* llist_index_to_after.  Past the end it finds no node, as for index 0.
IndexToAfter(q, index, busy) ==
    CASE index = AtEnd -> OrNone(q.mx)
      [] index = AfterCurrent -> q.current
      [] index = AfterCurrentAct -> AfterBusy(q, busy)
      [] index \in 1..Len(q.mx) -> q.mx[index]
      [] OTHER -> None

\* llist_link_after
LinkAfter(list, after, r) ==
    IF after = None THEN <<r>> \o list
    ELSE InsertAt(list, Index(list, after) + 1, r)

\* Faulty variant: at the end means right after the last node.
NewPHolderFirst(q, ph, index, busy) ==
    Link(q, ph, None, IndexToAfter(q, index, busy))
\* mplexpholder_init, of a numbered one
NewPHolder(q, ph, index, busy) ==
    LET node == IndexToAfter(q, index, busy)
        after == IF index = AtEnd THEN OrNone(PhsOf(q, node)) ELSE None
    IN Link(q, ph, after, node)
\* mplexpholder_init, the place of a region that is on the list
PHolderOf(q, ph, r) == Link(q, ph, OrNone(q.phs[r]), r)

-----------------------------------------------------------------------------
(* What is shown. *)

MayBeMapped(q) == q.up /\ ~q.small   \* SUBS_MAY_BE_MAPPED
Shown(q) == q.mgd \ q.hidden

\* Faulty variant: the region that was current stays shown.
DisplayBeside(q, r) ==
    LET mapped == IF MayBeMapped(q) THEN q.mapped \cup {r} ELSE q.mapped
    IN IF r \notin q.hidden THEN q
       ELSE [q EXCEPT !.hidden = @ \ {r}, !.mapped = mapped,
                !.current = IF r \in ToSet(q.mx) THEN r ELSE @]
\* Faulty variant: the window is mapped whether or not it may be.
DisplayAlways(q, r) ==
    LET old == IF r \in ToSet(q.mx) THEN {q.current} \ {None} ELSE {}
    IN IF r \notin q.hidden THEN q
       ELSE [q EXCEPT !.hidden = (@ \ {r}) \cup old,
                      !.mapped = (@ \cup {r}) \ old,
                      !.current = IF r \in ToSet(q.mx) THEN r ELSE @]

\* mplex_do_node_display.  The current region is hidden last, even when it is
\* r itself.
Display(q, r) ==
    LET old == IF r \in ToSet(q.mx) THEN {q.current} \ {None} ELSE {}
        mapped == IF MayBeMapped(q) THEN q.mapped \cup {r}
                  ELSE q.mapped \ {r}
    IN IF r \notin q.hidden THEN q
       ELSE [q EXCEPT !.hidden = (@ \ {r}) \cup old,
                      !.mapped = IF q.up THEN mapped \ old ELSE mapped,
                      !.current = IF r \in ToSet(q.mx) THEN r ELSE @]

\* mplex_managed_remove
ManagedRemove(q, r) ==
    LET list == q.mx
        i == Index(list, r)
        next == IF r \notin ToSet(list) \/ q.current # r THEN None
                ELSE IF i > 1 THEN list[i - 1]
                ELSE IF Len(list) > 1 THEN list[2] ELSE None
        unlinked ==
            IF r \notin ToSet(list) THEN q
            ELSE [MovePhsBefore(q, r) EXCEPT
                     !.mx = Unlink(list, r),
                     !.current = IF @ = r THEN None ELSE @]
        removed == [unlinked EXCEPT
                       !.mgd = @ \ {r}, !.hidden = @ \ {r},
                       !.mapped = @ \ {r}]
    IN IF next = None THEN removed ELSE Display(removed, next)
\* One after the other.
AllRemoved(q, list) ==
    LET removed[n \in 0..Len(list)] ==
            IF n = 0 THEN q ELSE ManagedRemove(removed[n - 1], list[n])
    IN removed[Len(list)]

\* Faulty variant: the placeholders from ph on stay on the node before.
LinkNodeOnly(q, r, ph) ==
    LET at == {n \in Regions : ph \in ToSet(q.phs[n])}
        node == IF at = {} THEN None ELSE CHOOSE n \in at : TRUE
    IN [q EXCEPT !.mx = LinkAfter(q.mx, node, r)]
\* Faulty variant: they are linked to the new node without being unlinked.
LinkNodeTwice(q, r, ph) ==
    LET at == {n \in Regions : ph \in ToSet(q.phs[n])}
        node == IF at = {} THEN None ELSE CHOOSE n \in at : TRUE
        s == PhsOf(q, node)
    IN [q EXCEPT !.mx = LinkAfter(q.mx, node, r),
                 !.phs[r] = SubSeq(s, Index(s, ph), Len(s))]
\* A new node is linked where ph is; the placeholders from ph on follow it.
LinkNode(q, r, ph) ==
    LET at == {n \in Regions : ph \in ToSet(q.phs[n])}
        node == IF at = {} THEN None ELSE CHOOSE n \in at : TRUE
        s == PhsOf(q, node)
        i == Index(s, ph)
    IN [WithPhs(q, node, SubSeq(s, 1, i - 1)) EXCEPT
           !.mx = LinkAfter(q.mx, node, r),
           !.phs[r] = SubSeq(s, i, Len(s))]

\* mplex_do_attach_final, for a region that comes with its window mapped.
\* focused: the server last said that the focus is in the mplex.
AttachAt(q, r, ph, unnumbered, hide, switchto, focused) ==
    LET current == q.current # None \/ (focused /\ q.mgd # {})
        kept == hide /\ (unnumbered \/ q.mx # <<>>)
        sw == ~kept /\ (switchto \/ (~unnumbered /\ ~current))
        hidden == kept \/ (~sw /\ ~unnumbered)
        linked == IF unnumbered THEN q ELSE LinkNode(q, r, ph)
        managed == [linked EXCEPT
                       !.mgd = @ \cup {r}, !.hidden = @ \cup {r},
                       !.mapped = @ \cup {r}]
    IN IF hidden THEN [managed EXCEPT !.mapped = @ \ {r}]
       ELSE Display(managed, r)

\* doit_reparent: a region is detached from its manager, which may be the
\* same mplex, before it is attached.
Detached(q, r) == IF r \in q.mgd THEN ManagedRemove(q, r) ELSE q

-----------------------------------------------------------------------------
(* Actions. *)

OnLine(q) == ToSet(q.misc) \cup UNION {ToSet(q.phs[r]) : r \in Regions}
Present == OnLine(m) \cup ToSet(ring)

\* The history: what was numbered while shown, or hidden on request though
\* current, until it is hidden or shown again, or leaves.
Notes(now, vetoed, left) ==
    /\ numbered' = ((numbered \ left) \cup now) \cap (m'.mgd \ m'.hidden)
    /\ veto' = ((veto \ left) \cup vetoed) \cap (m'.mgd \cap m'.hidden)

\* The regions with activity, where it matters.
BusySets(index) ==
    IF index = AfterCurrentAct THEN SUBSET (ToSet(m.mx) \ {m.current})
    ELSE {{}}
\* Whether the focus is in the mplex, where it matters.
Focused == IF m.mgd # {} THEN BOOLEAN ELSE {FALSE}
\* The ways to attach: MPLEX_ATTACH_HIDDEN overrides MPLEX_ATTACH_SWITCHTO.
Ways == {<<FALSE, FALSE>>, <<FALSE, TRUE>>, <<TRUE, FALSE>>}

\* mplex_do_attach: a region of any sort, at an index
Attach(r, index, unnumbered, hide, switchto) ==
    \E focused \in Focused, busy \in BusySets(index) :
        LET placed == IF unnumbered THEN m
                      ELSE NewPHolder(m, Temp, index, busy)
            attached == AttachAt(Detached(placed, r), r, Temp, unnumbered,
                                 hide, switchto, focused)
        IN /\ m' = Unlinked(attached, Temp)
           /\ Notes({}, {}, {r})
           /\ UNCHANGED <<ring, failed>>

\* mplexpholder_do_attach, with an mplex
UsePHolder(ph, r, hide, switchto) ==
    /\ ph \in OnLine(m)
    /\ \E focused \in Focused :
           m' = AttachAt(Detached(m, r), r, ph, FALSE, hide, switchto,
                         focused)
    /\ Notes({}, {}, {r})
    /\ UNCHANGED <<ring, failed>>

\* mplexpholder_attach_recreate: a new frame takes over all placeholders of
\* the one that was, and a region is attached at one of them.
Recreate(ph, r, hide) ==
    /\ ph \in ToSet(ring) /\ m = Blank(m.small)
    /\ m' = AttachAt([m EXCEPT !.misc = ring], r, ph, FALSE, hide, FALSE,
                      FALSE)
    /\ ring' = <<>>
    /\ Notes({}, {}, {r})
    /\ UNCHANGED failed

Leave(r) ==
    /\ r \in m.mgd
    /\ m' = ManagedRemove(m, r)
    /\ Notes({}, {}, {})
    /\ UNCHANGED <<ring, failed>>

\* mplex_set_index.  After mx_current, when that is r itself, just unlinked,
\* its node is linked after itself and is on no list.
SetIndex(r, index) ==
    /\ r \in m.mgd
    /\ \E busy \in BusySets(index) :
        LET on == r \in ToSet(m.mx)
            list == IF on THEN Unlink(m.mx, r) ELSE m.mx
            out == [(IF on THEN MovePhsBefore(m, r) ELSE m) EXCEPT !.mx = list]
            after == IndexToAfter(out, index, busy)
        IN IF after = r
           THEN /\ failed' = "selflink"
                /\ UNCHANGED <<m, ring, numbered, veto>>
           ELSE /\ m' = [out EXCEPT !.mx = LinkAfter(list, after, r)]
                /\ Notes(IF on THEN {} ELSE {r}, {}, {})
                /\ UNCHANGED <<ring, failed>>

\* do_switch, from mplex_switch_nth, mplex_switch_next, mplex_switch_prev
Switch(r) ==
    /\ r \in ToSet(m.mx)
    /\ m' = Display(m, r)
    /\ Notes({}, {}, {})
    /\ UNCHANGED <<ring, failed>>
SwitchNth(n) == n \in DOMAIN m.mx /\ Switch(m.mx[n])
SwitchNext ==
    LET i == IF m.current = None THEN 0 ELSE Index(m.mx, m.current)
    IN m.mx # <<>> /\ Switch(m.mx[IF i = Len(m.mx) THEN 1 ELSE i + 1])
\* Without a current one, LIST_PREV_WRAP is the first one too.
SwitchPrev ==
    LET i == IF m.current = None THEN 2 ELSE Index(m.mx, m.current)
    IN m.mx # <<>> /\ Switch(m.mx[IF i = 1 THEN Len(m.mx) ELSE i - 1])

\* mplex_set_hidden
Hide(r) ==
    /\ r \in Shown(m)
    /\ m' = [m EXCEPT !.hidden = @ \cup {r},
                      !.mapped = IF MayBeMapped(m) THEN @ \ {r} ELSE @]
    /\ Notes({}, {r} \cap {m.current}, {})
    /\ UNCHANGED <<ring, failed>>
Unhide(r) ==
    /\ r \in m.mgd \cap m.hidden
    /\ m' = Display(m, r)
    /\ Notes({}, {}, {})
    /\ UNCHANGED <<ring, failed>>

\* mplex_do_prepare_focus, for region_goto: pseudomodal regions in the way,
\* which are not numbered, are hidden.
Goto(r, inTheWay) ==
    /\ r \in m.mgd /\ inTheWay \subseteq Shown(m) \ (ToSet(m.mx) \cup {r})
    /\ LET displayed == Display(m, r)
       IN m' = [displayed EXCEPT !.hidden = @ \cup inTheWay,
                                 !.mapped = @ \ inTheWay]
    /\ Notes({}, {}, {})
    /\ UNCHANGED <<ring, failed>>

\* mplex_map, mplex_unmap
Map ==
    /\ m' = [m EXCEPT !.up = TRUE,
                      !.mapped = IF m.small THEN @ ELSE @ \cup Shown(m)]
    /\ UNCHANGED <<ring, failed, numbered, veto>>
Unmap ==
    /\ m' = [m EXCEPT !.up = FALSE,
                      !.mapped = IF m.small THEN @ ELSE @ \ Shown(m)]
    /\ UNCHANGED <<ring, failed, numbered, veto>>

\* mplex_do_fit_managed: the size becomes, or is no more, too small for
\* anything inside.
Fit ==
    /\ m' = [m EXCEPT !.small = ~@,
                      !.mapped = IF ~m.up THEN @
                                 ELSE IF m.small THEN @ \cup Shown(m)
                                 ELSE @ \ Shown(m)]
    /\ UNCHANGED <<ring, failed, numbered, veto>>

\* create_mplexpholder: at an index, for client windows to come, or at the
\* end, for what is to be loaded; or where a region is.  Those migrated from
\* another mplex come at the end too.
MakePHolder(ph, index) ==
    /\ ph \notin Present
    /\ \E busy \in BusySets(index) :
           m' = NewPHolder(m, ph, index, busy)
    /\ UNCHANGED <<ring, failed, numbered, veto>>
GetPHolder(ph, r) ==
    /\ ph \notin Present /\ r \in ToSet(m.mx)
    /\ m' = PHolderOf(m, ph, r)
    /\ UNCHANGED <<ring, failed, numbered, veto>>

\* mplexpholder_deinit, on a list of the mplex
DropPHolder(ph) ==
    /\ ph \in OnLine(m)
    /\ m' = Unlinked(m, ph)
    /\ UNCHANGED <<ring, failed, numbered, veto>>
\* The same when the frame is gone.  Only a placeholder that is alone or in
\* the middle comes out well: when the first one goes, the last one's next
\* pointer is set as if it were a ring, and the next get_head does not end;
\* when the last one goes, get_head stops at it and the assertion fails.
DropFromRing(ph) ==
    /\ ph \in ToSet(ring)
    /\ failed' = IF Len(ring) = 1 THEN "no"
                 ELSE IF ph = Head(ring) THEN "loop"
                 ELSE IF ph = Last(ring) THEN "assertion" ELSE "no"
    /\ ring' = IF failed' = "no" THEN Unlink(ring, ph) ELSE ring
    /\ UNCHANGED <<m, numbered, veto>>

\* frame_rescue_clientwins, and mplex_deinit if everything could be rescued
\* or is destroyed.  way: the placeholders are left for the frame to be made
\* again, migrated to another mplex, or kept.
Rescue(kept, way) ==
    LET going == Dropping(m.mx, kept)
        others == SetToSeq(m.mgd \ (kept \cup ToSet(m.mx)))
        flat == Flatten(AllRemoved(m, going \o others))
        left == IF way = "keep" THEN flat ELSE [flat EXCEPT !.misc = <<>>]
    IN /\ kept \subseteq m.mgd
       /\ way = "recreate" => flat.misc # <<>> /\ ring = <<>>
       /\ ring' = IF way = "recreate" THEN flat.misc ELSE ring
       /\ IF kept = {} THEN \E small \in BOOLEAN : m' = Blank(small)
          ELSE m' = left
       /\ Notes({}, {}, {})
       /\ UNCHANGED failed

\* mplex_deinit: what is managed is destroyed, the placeholders are stale.
Destroy ==
    /\ \E small \in BOOLEAN : m' = Blank(small)
    /\ UNCHANGED <<ring, failed>>
    /\ Notes({}, {}, {})

Works ==
    \/ \E r \in Regions, index \in Indices :
        \/ \E way \in Ways : Attach(r, index, FALSE, way[1], way[2])
        \/ SetIndex(r, index)
    \/ \E r \in Regions, way \in Ways :
           Attach(r, AtEnd, TRUE, way[1], way[2])
    \/ \E ph \in PHolders, r \in Regions :
        \/ \E way \in Ways : UsePHolder(ph, r, way[1], way[2])
        \/ \E hide \in BOOLEAN : Recreate(ph, r, hide)
        \/ GetPHolder(ph, r)
    \/ \E ph \in PHolders :
        \/ \E index \in Indices : MakePHolder(ph, index)
        \/ DropPHolder(ph)
        \/ DropFromRing(ph)
    \/ \E n \in DOMAIN m.mx : SwitchNth(n)
    \/ SwitchNext \/ SwitchPrev
    \/ \E r \in Regions :
        \/ Leave(r) \/ Hide(r) \/ Unhide(r)
        \/ \E inTheWay \in SUBSET Shown(m) : Goto(r, inTheWay)
    \/ Map \/ Unmap \/ Fit \/ Destroy
    \/ \E kept \in SUBSET m.mgd, way \in {"recreate", "migrate", "keep"} :
           Rescue(kept, way)
Stopped == failed # "no" /\ UNCHANGED vars
Next == (failed = "no" /\ Works) \/ Stopped
Spec == Init /\ [][Next]_vars

-----------------------------------------------------------------------------
(* Properties. *)

\* The line of the list and its placeholders, as users see it.
Line(q) ==
    LET line[n \in 0..Len(q.mx)] ==
            IF n = 0 THEN q.misc
            ELSE line[n - 1] \o (<<q.mx[n]>> \o q.phs[q.mx[n]])
    IN line[Len(q.mx)]

\* Nothing is twice on the list or in two places, no placeholder hangs on a
\* node that is gone, and what the lists point to is managed
\* (mplex.c:150, 172).
Placed(q) ==
    /\ IsInjective(q.mx)
    /\ \A n \in Regions \cup {None} :
        /\ IsInjective(PhsOf(q, n))
        /\ \A o \in (Regions \cup {None}) \ {n} :
               ToSet(PhsOf(q, n)) \cap ToSet(PhsOf(q, o)) = {}
    /\ \A r \in Regions \ ToSet(q.mx) : q.phs[r] = <<>>
    /\ ToSet(q.mx) \cup q.hidden \cup q.mapped \subseteq q.mgd
    /\ q.current \in ToSet(q.mx) \cup {None}
PlacedOnce ==
    Placed(m) /\ IsInjective(ring) /\ OnLine(m) \cap ToSet(ring) = {}

\* The fields have their types, and nothing is in two places.
TypeOK ==
    /\ m \in [mgd : SUBSET Regions, mx : Seq(Regions),
              current : Regions \cup {None}, misc : Seq(PHolders),
              phs : [Regions -> Seq(PHolders)], hidden : SUBSET Regions,
              mapped : SUBSET Regions, up : BOOLEAN, small : BOOLEAN]
    /\ ring \in Seq(PHolders)
    /\ failed \in {"no", "assertion", "loop", "selflink"}
    /\ numbered \subseteq Regions /\ veto \subseteq Regions
    /\ PlacedOnce

\* Of the mutually exclusive list only mx_current is to be seen, and it is
\* seen unless it was hidden on request; a region that got its number while
\* it was shown is the exception (mplex.c:318, 845).
OnlyCurrentShown ==
    /\ Shown(m) \cap ToSet(m.mx) \subseteq {m.current} \cup numbered
    /\ m.current \in m.hidden => m.current \in veto

\* ICCCM: client windows are mapped when, and only when, the mplex is, there
\* is room, and they are not hidden, in whatever order that comes about
\* (mplex.c:404, 455).
MappedAsShown == m.mapped = IF MayBeMapped(m) THEN Shown(m) ELSE {}

\* What is seen is what is meant to be, in all orders of switching, hiding and
\* mapping.
SeenAsMeant == TypeOK /\ OnlyCurrentShown /\ MappedAsShown

\* A region that takes a placeholder gets right before it, and so
\* after what was before the placeholder, even if it is on the list already
\* (mplex.c:1290).
ReturnsInPlace ==
    \A ph \in OnLine(m), r \in Regions :
        LET l == Line(AttachAt(Detached(m, r), r, ph, FALSE, FALSE, FALSE,
                               FALSE))
        IN Index(l, ph) = Index(l, r) + 1

\* The list and its placeholders are a line in which nothing moves unasked,
\* across disposal and recreation of the frame (mplexpholder.c, frame.c:636).
PL == INSTANCE PlaceLine WITH
    Places <- PHolders, line <- Line(m), aside <- ring
KeepsLine == PL!Spec

\* What the code asserts when a placeholder is unlinked, next->prev==ph
\* (mplexpholder.c:95): it finds the list as it left it.
UnlinkAsserts == failed # "assertion"

=============================================================================
