------------------------------- MODULE Groups -------------------------------
(***************************************************************************)
(* Groups of regions and how regions leave them and return                 *)
(* (ioncore/group.c, group-cw.c, group-ws.c, grouppholder.c, return.c,     *)
(* fullscreen.c, detach.c and part of attach.c).                           *)
(*                                                                         *)
(* The members of all groups in a window, of those not shown too, are on   *)
(* the one stacking list of the window; a group is not on it.  A           *)
(* placeholder remembers a member's place in a group.  A WGroupCW, the     *)
(* group of a client window and its dialogs, goes when its last member     *)
(* leaves, and can be made again out of its placeholders.                  *)
(*                                                                         *)
(* The groups are one record, w, and each function of the code that        *)
(* changes them an operator on it.  A region without a group is anywhere   *)
(* else: full screen, in a frame, or yet to be created.                    *)
(***************************************************************************)
EXTENDS Stacking

CONSTANTS
    GroupsWS,  \* groups that are not of the next sort, such as workspaces
    GroupsCW,  \* WGroupCW
    Windows, Regions, PHolders,
    Asked      \* the places each region is attached at: groups and kinds

Groups == GroupsWS \cup GroupsCW

ASSUME GroupsAssumption ==
    /\ None \notin Groups \cup Windows \cup Regions \cup PHolders
    /\ GroupsWS \cap GroupsCW = {}
    /\ IsFiniteSet(Regions) /\ IsFiniteSet(PHolders)
    /\ Asked \in [Regions ->
           SUBSET (Groups \X {"bottom", "normal", "modal", "transient"})]

VARIABLE w

\* A place in a group: level, stack_above and bottom of WGroupAttachParams.
\* What a placeholder that is on no list remembers is never read.
NoPlace == [level |-> Normal, above |-> None, bottom |-> FALSE]
NoGroup == [win |-> None, bottom |-> None, phs |-> <<>>]
NoNode == [mgr |-> None, level |-> Normal, above |-> None]

Init ==
    w = [ stack  |-> [v \in Windows |-> <<>>],  \* WWindow.stacking
          node   |-> [r \in Regions |-> NoNode],
          mapped |-> {},   \* members with REGION_MAPPED
          group  |-> [g \in Groups |-> NoGroup],  \* win: its parent
          up     |-> {},   \* groups that are fully mapped
          phs    |-> {},   \* the placeholders there are
          place  |-> [p \in PHolders |-> NoPlace],
          rings  |-> {},   \* lists of a group that is gone, with a
                           \* recreate_pholder
          ret    |-> [r \in Regions |-> None],  \* return placeholders
          lost   |-> {},   \* placeholders nobody knows any more
          dead   |-> <<>>, \* deferred for destruction, in a handler
          failed |-> "no" ]

-----------------------------------------------------------------------------
(* Reading. *)

Level(q) == [r \in Regions |-> q.node[r].level]
Above(q) == [r \in Regions |-> q.node[r].above]
Members(q, g) == {r \in Regions : q.node[r].mgr = g}
StackOf(q, g) == q.stack[q.group[g].win]
Alive(q) == {g \in Groups : q.group[g].win # None}
Kept(q) == q.phs \ (q.lost \cup ToSet(q.dead)
                    \cup {q.ret[r] : r \in Regions})
GroupOf(q, p) ==
    LET at == {g \in Alive(q) : p \in ToSet(q.group[g].phs)}
    IN IF at = {} THEN None ELSE CHOOSE g \in at : TRUE
InRing(q, p) == {s \in q.rings : p \in ToSet(s)}

\* find_to_focus, in the group only; none is tried if toTry is None
GroupFocus(q, g, toTry) ==
    FindToFocus(StackOf(q, g), Level(q), toTry, q.mapped, Members(q, g))
\* find_to_focus, in the window
WindowFocus(q, g, toTry) ==
    FindToFocus(StackOf(q, g), Level(q), toTry, q.mapped, Regions)

-----------------------------------------------------------------------------
(* Placeholders. *)

\* grouppholder_init
NewPHolder(q, p, g, place) ==
    [q EXCEPT !.phs = @ \cup {p}, !.place[p] = place,
              !.group[g].phs = <<p>> \o @]
\* Faulty variant: it forgets what the region is stacked above.
PlaceOfNoAbove(q, r) ==
    [level |-> q.node[r].level, above |-> None,
     bottom |-> q.group[q.node[r].mgr].bottom = r]
\* The place of a member, group_managed_get_pholder
PlaceOf(q, r) ==
    [level |-> q.node[r].level, above |-> q.node[r].above,
     bottom |-> q.group[q.node[r].mgr].bottom = r]

\* grouppholder_deinit.  In the list a group left, with more than one in it,
\* only one in the middle comes out well: see MPlex!DropFromRing.
Dropped(q, p) ==
    LET gone == [q EXCEPT !.phs = @ \ {p}, !.lost = @ \ {p},
                          !.place[p] = NoPlace]
        g == GroupOf(q, p)
        ring == CHOOSE s \in q.rings : p \in ToSet(s)
        rest == Unlink(ring, p)
        others == q.rings \ {ring}
    IN CASE g # None -> [gone EXCEPT !.group[g].phs = Unlink(@, p)]
         [] g = None /\ InRing(q, p) = {} -> gone
         [] OTHER ->
              [gone EXCEPT
                 !.rings = others \cup ({rest} \ {<<>>}),
                 !.failed = CASE Len(ring) > 1 /\ p = Head(ring) -> "loop"
                              [] Len(ring) > 1 /\ p = Last(ring) ->
                                     "assertion"
                              [] OTHER -> @]
\* The deferred destructions run before the next event.
Settled(q) ==
    LET settled[n \in 0..Len(q.dead)] ==
            IF n = 0 THEN [q EXCEPT !.dead = <<>>]
            ELSE Dropped(settled[n - 1], q.dead[n])
    IN settled[Len(q.dead)]

\* Faulty variant: the region keeps it.
UnsetReturnKept(q, r) ==
    IF q.ret[r] = None THEN q ELSE [q EXCEPT !.dead = Append(@, q.ret[r])]
\* region_unset_return
UnsetReturn(q, r) ==
    IF q.ret[r] = None THEN q
    ELSE [q EXCEPT !.ret[r] = None, !.dead = Append(@, q.ret[r])]

\* A region that is destroyed: stack_above_watch of placeholders is reset.
Unwatched(q, r) ==
    [q EXCEPT !.place = [p \in PHolders |->
        IF @[p].above = r THEN [@[p] EXCEPT !.above = None] ELSE @[p]]]

-----------------------------------------------------------------------------
(* Members. *)

\* Faulty variant: what was stacked above the one that left keeps pointing
\* to it.
RemovedWatched(q, r) ==
    LET g == q.node[r].mgr
        v == q.group[g].win
    IN UnsetReturn([q EXCEPT !.stack[v] = Unlink(@, r),
                             !.node[r] = NoNode,
                             !.mapped = @ \ {r},
                             !.group[g].bottom = IF @ = r THEN None ELSE @],
                   r)
\* group_managed_remove
Removed(q, r) ==
    LET g == q.node[r].mgr
        v == q.group[g].win
        above == Unstacked(Above(q), r)
    IN UnsetReturn([q EXCEPT !.stack[v] = Unlink(@, r),
                             !.node = [x \in Regions |->
                                 IF x = r THEN NoNode
                                 ELSE [@[x] EXCEPT !.above = above[x]]],
                             !.mapped = @ \ {r},
                             !.group[g].bottom = IF @ = r THEN None ELSE @],
                   r)
\* region_detach_manager
Detached(q, r) ==
    IF q.node[r].mgr = None THEN UnsetReturn(q, r) ELSE Removed(q, r)

\* group_do_attach_final.  A region that comes mapped to a group that is not
\* shown stays so.
Attached(q, g, r, place, wasMapped) ==
    LET v == q.group[g].win
        stabove == IF place.above \in Members(q, g) THEN place.above
                   ELSE None
        level == IF stabove = None THEN place.level
                 ELSE q.node[stabove].level
        node == [mgr |-> g, level |-> level, above |-> stabove]
        linked == [q EXCEPT !.node[r] = node]
    IN [linked EXCEPT
          !.stack[v] = Weave(@, <<r>>, Level(linked), FALSE),
          !.mapped = IF g \in q.up \/ wasMapped THEN @ \cup {r} ELSE @,
          !.group[g].bottom = IF place.bottom THEN r ELSE @]

-----------------------------------------------------------------------------
(* Groups. *)

\* region_disposeroot of a member: its group, when it leaves it empty; one
\* that is not a WGroupCW only if it was its bottom.
DisposeRoot(q, r) ==
    LET g == q.node[r].mgr
    IN IF /\ g # None /\ Members(q, g) = {r}
          /\ g \in GroupsCW \/ q.group[g].bottom = r
       THEN g ELSE None

\* region_deinit of a region that is destroyed with its group
Destroyed(q, r) ==
    Unwatched(UnsetReturn([q EXCEPT !.node[r] = NoNode], r), r)
\* One after the other.
AllDestroyed(q, list) ==
    LET destroyed[n \in 0..Len(list)] ==
            IF n = 0 THEN q ELSE Destroyed(destroyed[n - 1], list[n])
    IN destroyed[Len(list)]
\* group_deinit: its members are destroyed, its placeholders are stale
GroupDestroyed(q, g) ==
    LET v == q.group[g].win
        members == Members(q, g)
        stale == ToSet(q.group[g].phs)
        off == [q EXCEPT !.stack[v] = Dropping(@, members),
                         !.mapped = @ \ members, !.up = @ \ {g},
                         !.group[g] = NoGroup,
                         !.place = [p \in PHolders |->
                             IF p \in stale THEN NoPlace ELSE @[p]],
                         !.phs = @ \ (stale \cap q.lost),
                         !.lost = @ \ stale]
        shorn == [off EXCEPT !.node = [x \in Regions |->
                     IF @[x].above \in members
                     THEN [@[x] EXCEPT !.above = None] ELSE @[x]]]
    IN AllDestroyed(shorn, SetToSeq(members))

\* Faulty variant: its placeholders are lost with it.
RescuedNot(q, g) == q
\* groupcw_rescue_clientwins: the placeholders are left, so that the group
\* can be made again.  Other groups have no such handler.
Rescued(q, g) ==
    IF g \in GroupsCW /\ q.group[g].phs # <<>>
    THEN [q EXCEPT !.rings = @ \cup {q.group[g].phs},
                   !.group[g].phs = <<>>]
    ELSE q
\* region_postdetach_dispose, of a group that was left empty
Disposed(q, g) ==
    IF g = None \/ g \notin Alive(q) \/ Members(q, g) # {} THEN q
    ELSE GroupDestroyed(Rescued(q, g), g)

\* group_do_attach and doit_reparent
Refused(q, g, place) == place.bottom /\ q.group[g].bottom # None
Attach(q, g, r, place, wasMapped) ==
    LET mapped == wasMapped \/ r \in q.mapped
    IN Disposed(Attached(Detached(q, r), g, r, place, mapped),
                DisposeRoot(q, r))

\* group_map, group_unmap
Shown(q, g) ==
    [q EXCEPT !.up = @ \cup {g}, !.mapped = @ \cup Members(q, g)]
HiddenAll(q, gone) ==
    [q EXCEPT !.up = @ \ gone,
              !.mapped = {r \in @ : q.node[r].mgr \notin gone}]

\* grouppholder_attach_recreate, for a placeholder that is left of a group: a
\* new group takes them over.  up: it is shown by its new manager, last.
Recreated(q, p, g, v, r, wasMapped, up) ==
    LET ring == CHOOSE s \in q.rings : p \in ToSet(s)
        place == [q.place[p] EXCEPT !.above = None]
        made == [q EXCEPT !.group[g] = [NoGroup EXCEPT !.win = v]]
        full == Attach(made, g, r, place, wasMapped)
        taken == [full EXCEPT !.rings = @ \ {ring}, !.group[g].phs = ring]
    IN IF up THEN Shown(taken, g) ELSE taken

Restacked(q, r, lower) ==
    LET v == q.group[q.node[r].mgr].win
    IN [q EXCEPT !.stack[v] = Restack(@, r, Level(q), Above(q), lower)]
\* mplex_do_node_display, of a group; it hides others.  The bottom of a
\* WGroupCW is lowered.
Displayed(q, g, others) ==
    LET shown == HiddenAll(Shown(q, g), others)
        b == q.group[g].bottom
    IN IF g \in GroupsCW /\ b # None THEN Restacked(shown, b, TRUE)
       ELSE shown

\* group_managed_prepare_focus, for region_goto: the group is displayed and
\* what gets the focus, if anything in the group can, is raised.
Gone(q, r, others, raise) ==
    LET g == q.node[r].mgr
        d == IF g \in q.up THEN q ELSE Displayed(q, g, others)
        within == GroupFocus(d, g, r)
        foc == IF within # None THEN within ELSE WindowFocus(d, g, None)
    IN IF foc # None /\ raise /\ d.node[foc].level > Bottom
       THEN Restacked(d, foc, FALSE) ELSE d

-----------------------------------------------------------------------------
(* Actions. *)

\* Nothing more is said of a program that failed.
Becomes(q) == w.failed = "no" /\ w' = q

\* Whether a region comes mapped, where that is not known.
Mapped(r) == IF w.node[r].mgr = None THEN BOOLEAN ELSE {FALSE}
\* The placeholder a region that is to return gets: the one it has, or a new
\* one at its place.
ReturnOf(r) == IF w.ret[r] # None THEN {w.ret[r]} ELSE PHolders \ w.phs
WithReturn(q, r, p) ==
    IF q.ret[r] = p THEN [q EXCEPT !.ret[r] = None]
    ELSE NewPHolder(q, p, q.node[r].mgr, PlaceOf(q, r))

\* group_get_attach_params: BOTTOM is the default level of a bottom.
Place(kind) ==
    CASE kind = "bottom" -> [NoPlace EXCEPT !.level = Bottom, !.bottom = TRUE]
      [] kind \in {"normal", "transient"} -> NoPlace
      [] kind = "modal"  -> [NoPlace EXCEPT !.level = Modal]
PlacesFor(r, g) == {Place(a[2]) : a \in {b \in Asked[r] : b[1] = g}}
\* A transient is to be above its leader.
Leaders(g) == {r \in Members(w, g) : <<g, "bottom">> \in Asked[r]}
AboveLeader(r, g) ==
    IF <<g, "transient">> \notin Asked[r] THEN {}
    ELSE {[NoPlace EXCEPT !.above = l] : l \in Leaders(g) \ {r}}

CreateGroup(g, v) ==
    /\ g \notin Alive(w)
    /\ Becomes([w EXCEPT !.group[g] = [NoGroup EXCEPT !.win = v]])

\* group_attach, group_attach_new
AttachTo(g, r, place) ==
    /\ g \in Alive(w) /\ ~Refused(w, g, place)
    /\ \E wasMapped \in Mapped(r) :
           Becomes(Settled(Attach(w, g, r, place, wasMapped)))

\* A member is attached somewhere else (destroyed is FALSE), or destroyed,
\* possibly with the group it would leave empty (chain).
LeaveGroup(r, destroyed, chain) ==
    LET root == IF chain THEN DisposeRoot(w, r) ELSE None
        q == Disposed(Detached(w, r), root)
    IN /\ w.node[r].mgr # None /\ (destroyed \/ chain)
       /\ Becomes(Settled(IF destroyed THEN Unwatched(q, r) ELSE q))

\* group_fitrep, to another window
Move(g, v) ==
    LET u == w.group[g].win
        moved == Unweaved(Above(w), Members(w, g))
    IN /\ g \in Alive(w) /\ v # u
       /\ Becomes([w EXCEPT
                   !.group[g].win = v,
                   !.stack[u] = Dropping(@, moved),
                   !.stack[v] = Weave(@, Only(w.stack[u], moved), Level(w),
                                      FALSE)])

\* The group is destroyed, with what could not be rescued.
DestroyGroup(g, rescued) ==
    /\ g \in Alive(w)
    /\ LET q == IF rescued THEN Rescued(w, g) ELSE w
       IN Becomes(Settled(GroupDestroyed(q, g)))

\* group_map, group_unmap, called by the manager
Show(g) == g \in Alive(w) \ w.up /\ Becomes(Shown(w, g))
Hide(g) == g \in w.up /\ Becomes(HiddenAll(w, {g}))
Display(g, others) ==
    /\ g \in Alive(w) \ w.up /\ others \subseteq w.up
    /\ Becomes(Displayed(w, g, others))

\* group_managed_rqorder, to the front or the back
RqOrder(r, lower) ==
    w.node[r].mgr # None /\ Becomes(Restacked(w, r, lower))
\* group_set_bottom
SetBottom(g, r) ==
    /\ g \in Alive(w) /\ r \in Members(w, g) \cup {None}
    /\ r # None => <<g, "bottom">> \in Asked[r]
    /\ Becomes([w EXCEPT !.group[g].bottom = r])
\* region_goto
Goto(r, others, raise) ==
    /\ w.node[r].mgr # None /\ others \subseteq w.up \ {w.node[r].mgr}
    /\ Becomes(Gone(w, r, others, raise))

\* A placeholder for what is to come: a place given by the layout, or one for
\* a transient above its leader.
MakePHolder(p, g, place) ==
    /\ p \notin w.phs /\ g \in Alive(w)
    /\ Becomes(NewPHolder(w, p, g, place))
DropPHolder(p) == p \in Kept(w) /\ Becomes(Dropped(w, p))

\* pholder_do_attach: the worlds in which r is attached at p
At(q, p, r, wasMapped) ==
    LET g == GroupOf(q, p)
    IN IF g # None
       THEN IF Refused(q, g, q.place[p]) THEN {}
            ELSE {Attach(q, g, r, q.place[p], wasMapped)}
       ELSE IF InRing(q, p) = {} THEN {}
       ELSE {Recreated(q, p, h, v, r, wasMapped, up) :
                 h \in GroupsCW \ Alive(q), v \in Windows, up \in BOOLEAN}
\* pholder_attach_mcfgoto: a region that could control the focus gets it.
AndGone(Q, r) ==
    Q \cup {Gone(q, r, others, raise) :
                q \in Q, others \in {{}}, raise \in BOOLEAN}

UsePHolder(p, r) ==
    /\ p \in Kept(w)
    /\ \E g \in Groups :
        /\ [w.place[p] EXCEPT !.above = None] \in PlacesFor(r, g)
        /\ GroupOf(w, p) = g \/ (g \in GroupsCW /\ GroupOf(w, p) = None)
    /\ \E wasMapped \in Mapped(r) :
        \E q \in At(w, p, r, wasMapped) : Becomes(Settled(q))

\* region_enter_fullscreen, of a member
Fullscreened(r, p) ==
    LET q == Disposed(Detached(WithReturn(w, r, p), r), DisposeRoot(w, r))
    IN Settled([q EXCEPT !.ret[r] = p])
EnterFullscreen(r) ==
    w.node[r].mgr # None /\ \E p \in ReturnOf(r) : Becomes(Fullscreened(r, p))
\* ioncore_do_detach, to a group further up, from a frame in it at level
\* BOTTOM; a modal region becomes a normal one.
DetachTo(r, g) ==
    /\ w.node[r].mgr \in GroupsCW /\ g \in GroupsWS \cap Alive(w)
    /\ w.group[w.node[r].mgr].bottom # r
    /\ \E p \in ReturnOf(r) :
        LET q == Attach(WithReturn(w, r, p), g, r, NoPlace, FALSE)
        IN Becomes(Settled([q EXCEPT !.ret[r] = p]))

\* region_leave_fullscreen.  If the place does not take it, the placeholder
\* is forgotten though not destroyed.
LeaveFullscreen(r) ==
    LET p == w.ret[r]
        taken == [w EXCEPT !.ret[r] = None]
    IN /\ p # None
       /\ \E wasMapped \in Mapped(r) :
            \E q \in AndGone(At(taken, p, r, wasMapped), r) :
               Becomes(Settled(Dropped(q, p)))
NoReturn(q, p) ==
    LET g == GroupOf(q, p)
    IN IF g # None THEN Refused(q, g, q.place[p]) ELSE InRing(q, p) = {}
LoseReturn(r) ==
    LET p == w.ret[r]
        taken == [w EXCEPT !.ret[r] = None]
    IN /\ p # None /\ NoReturn(w, p)
       /\ Becomes(IF GroupOf(w, p) = None THEN Dropped(taken, p)
               ELSE [taken EXCEPT !.lost = @ \cup {p}])
\* ioncore_detach, the other way.  The placeholder is doomed by the very
\* attaching it is used for.
Reattach(r) ==
    /\ w.ret[r] # None
    /\ \E wasMapped \in Mapped(r) :
        \E q \in AndGone(At(w, w.ret[r], r, wasMapped), r) :
            Becomes(Settled(q))
\* ioncore_detach_extl, "forget"
Forget(r) == w.ret[r] # None /\ Becomes(Settled(UnsetReturn(w, r)))

Next ==
    \/ \E g \in Groups :
        \/ \E v \in Windows : CreateGroup(g, v) \/ Move(g, v)
        \/ \E r \in Regions : \E place \in PlacesFor(r, g) :
               AttachTo(g, r, place)
        \/ \E rescued \in BOOLEAN : DestroyGroup(g, rescued)
        \/ Show(g) \/ Hide(g)
        \/ \E others \in SUBSET w.up : Display(g, others)
        \/ \E r \in Regions \cup {None} : SetBottom(g, r)
        \/ \E p \in PHolders, r \in Regions :
            \E place \in PlacesFor(r, g) \cup AboveLeader(r, g) :
                MakePHolder(p, g, place)
        \/ \E r \in Regions : DetachTo(r, g)
    \/ \E r \in Regions :
        \/ \E destroyed \in BOOLEAN, chain \in BOOLEAN :
               LeaveGroup(r, destroyed, chain)
        \/ \E lower \in BOOLEAN : RqOrder(r, lower)
        \/ \E others \in SUBSET w.up, raise \in BOOLEAN :
               Goto(r, others, raise)
        \/ EnterFullscreen(r) \/ LeaveFullscreen(r) \/ LoseReturn(r)
        \/ Reattach(r) \/ Forget(r)
    \/ \E p \in PHolders :
        \/ DropPHolder(p)
        \/ \E r \in Regions : UsePHolder(p, r)
Spec == Init /\ [][Next]_w

-----------------------------------------------------------------------------
(* Properties. *)

\* The fields have their types, no destruction is left over when a handler is
\* done, and a region's return placeholder is one there is: region_unset_return
\* forgets what it defers for destruction.
TypeOK ==
    /\ w.stack \in [Windows -> Seq(Regions)]
    /\ w.node \in [Regions ->
           [mgr : Groups \cup {None}, level : Nat,
            above : Regions \cup {None}]]
    /\ w.group \in [Groups ->
           [win : Windows \cup {None}, bottom : Regions \cup {None},
            phs : Seq(PHolders)]]
    /\ w.mapped \subseteq Regions /\ w.up \subseteq Alive(w)
    /\ w.lost \subseteq w.phs /\ w.phs \subseteq PHolders
    /\ w.ret \in [Regions -> w.phs \cup {None}]
    /\ w.dead = <<>>
    /\ w.failed \in {"no", "loop", "assertion"}

\* The lists that are kept apart agree.  A window's stacking list holds, once,
\* the members of the groups in it, the lowest level first
\* (enforce_level_sanity); what a node is stacked above is of its group and its
\* level and is under it (stacking_unstack leaves none pointing to a node that
\* is freed); a group's bottom is a member; and a placeholder is on one list,
\* that of its group or of those left by one.
StackAgrees(v) ==
    /\ IsInjective(w.stack[v])
    /\ \A r \in Regions : r \in ToSet(w.stack[v]) <=>
           w.node[r].mgr # None /\ w.group[w.node[r].mgr].win = v
    /\ \A i, j \in DOMAIN w.stack[v] :
           LET x == w.node[w.stack[v][i]]
               y == w.node[w.stack[v][j]]
           IN /\ i < j => x.level <= y.level
              /\ x.above = w.stack[v][j] =>
                     j < i /\ y.mgr = x.mgr /\ y.level = x.level
ListsAgree ==
    /\ TypeOK
    /\ \A v \in Windows : StackAgrees(v)
    /\ \A r \in Regions : w.node[r].above # None =>
           w.node[r].mgr = w.node[w.node[r].above].mgr
    /\ \A g \in Groups :
           w.group[g].bottom # None => w.group[g].bottom \in Members(w, g)
    /\ \A p \in PHolders :
           Cardinality({g \in Groups : p \in ToSet(w.group[g].phs)})
           + Cardinality(InRing(w, p)) <= (IF p \in w.phs THEN 1 ELSE 0)

\* While a modal member of a group is mapped in a window nothing under its
\* level is chosen for the focus there, in the window or in one group
\* (stacking_find_to_focus looks down a list that may have changed since,
\* through groups that are moved, shown and left); and what is to get the
\* focus whatever has it (stacking_must_focus) is what is chosen.
ModalKeepsFocus ==
    \A g \in Alive(w) :
        LET here == ToSet(StackOf(w, g)) \cap w.mapped
        IN /\ \A t \in Members(w, g) \cup {None} :
                \A f \in {WindowFocus(w, g, t), GroupFocus(w, g, t)} \ {None} :
                    /\ f \in here \cup {t}
                    /\ \A m \in here : w.node[m].level < Modal
                                    \/ w.node[m].level <= w.node[f].level
           /\ \A x \in here \cap Members(w, g) :
                MustFocus(StackOf(w, g), Level(w), x, here) =>
                    {WindowFocus(w, g, x), WindowFocus(w, g, None)} = {x}

\* A member that goes full screen comes back to its place, though another
\* member (x) has left in between and the group with it: to its level, above
\* what it was above if that is there, and as the bottom if it was.  A
\* WGroupCW that went is made again (groupcw_rescue_clientwins,
\* grouppholder_attach_recreate); another group that went with its bottom is
\* not, and there is no such way back.
ComesBack(r, p, x) ==
    LET g == w.node[r].mgr
        out == Fullscreened(r, p)
        later == IF x = None \/ out.node[x].mgr = None THEN out
                 ELSE Settled(Disposed(Detached(out, x), DisposeRoot(out, x)))
        stays == g \in Alive(later)
        back == At([later EXCEPT !.ret[r] = None], p, r, FALSE)
    IN g \in GroupsCW \/ stays =>
        /\ back # {}
        /\ \A q \in back :
            /\ q.node[r] = [w.node[r] EXCEPT
                               !.mgr = IF stays THEN g ELSE q.node[r].mgr,
                               !.above = IF stays /\ @ # x THEN @ ELSE None]
            /\ q.node[r].mgr \in {g} \cup GroupsCW
            /\ (q.group[q.node[r].mgr].bottom = r)
                   <=> (w.group[g].bottom = r)
ReturnsAsLeft ==
    \A r \in Regions, p \in PHolders \ w.phs :
        w.node[r].mgr # None /\ w.ret[r] = None /\ w.failed = "no" =>
            \A x \in (Regions \ {r}) \cup {None} : ComesBack(r, p, x)
=============================================================================
