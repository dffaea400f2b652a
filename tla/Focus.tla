-------------------------------- MODULE Focus ---------------------------------
(***************************************************************************)
(* The input focus: the belief of the window manager, kept by the focus    *)
(* events it handles (ioncore/focus.c, eventh.c), and the X server that    *)
(* has the focus and sends the events, after the fact.  Between the two is *)
(* the queue of events, read one at a time; clients take, drop and lose    *)
(* the focus meanwhile.                                                    *)
(*                                                                         *)
(* Regions here have a window of their own, and the parent of a region is  *)
(* its manager.  The server is modelled by the protocol the code relies    *)
(* on: the events of a change of focus, in order, and the reverting of a   *)
(* focus whose window is no longer viewable.                               *)
(***************************************************************************)
EXTENDS Lists

CONSTANTS
    Frames,   \* windows that contain others (WMPlex)
    Clients,  \* windows of clients (WClientWin): they contain none
    Root,     \* the root window and its screen, one of the frames
    None,
    Home,     \* the parents at the beginning
    MaxActs   \* bound of the checked instance: acts of the user and clients

Windows == Frames \cup Clients

ASSUME WindowsAssumption ==
    /\ Root \in Frames /\ None \notin Windows
    /\ Frames \cap Clients = {} /\ IsFiniteSet(Windows)
    /\ Home \in [Windows -> Frames \cup {None}]
    /\ Home[Root] = None
    /\ \E depth \in [Windows -> 0..Cardinality(Windows)] :
          \A w \in Windows \ {Root} :
             Home[w] # None /\ depth[Home[w]] < depth[w]
    /\ MaxActs \in Nat

VARIABLES
    live,      \* regions that exist
    parent,    \* their parents
    mapped,    \* regions with REGION_MAPPED
    active,    \* regions with REGION_ACTIVE
    sub,       \* active_sub of each region
    history,   \* focus_current: the list of regions by latest focus
    next,      \* focus_next: the region to be given the focus
    source,    \* focus_next_source
    await,     \* the region await_watch watches
    dying,     \* regions inside destroy_obj, the innermost first
    idle,      \* the main loop has found no events and has yet to flush focus
    gone,      \* clients whose window the server has already destroyed
    xfocus,    \* the focus of the server
    xrevert,   \* what it reverts to: "parent" or "none"
    queue,     \* events on their way to the window manager
    acts       \* acts of the user and the clients so far

prog == <<active, sub, history, next, source, await>>
tree == <<live, parent, mapped, gone, dying>>
server == <<xfocus, xrevert>>
vars == <<prog, tree, server, idle, queue, acts>>

\* The sources of focus_next: the lower, the stronger.
Other == 0
PointerHack == 1
EnterWindow == 2
Fallback == 3

-----------------------------------------------------------------------------
(* The tree of windows.                                                    *)

\* A window and its parents, up to the root, where par gives the parents.
ChainIn(par, w) ==
    LET Chain[x \in Windows] ==
            IF par[x] = None THEN <<x>> ELSE <<x>> \o Chain[par[x]]
    IN  Chain[w]

AboveIn(par, w) == IF w = None THEN {} ELSE ToSet(ChainIn(par, w))
Chain(w) == ChainIn(parent, w)
Above(w) == AboveIn(parent, w)
Children(w) == {c \in live : parent[c] = w}
Below(w) == {c \in live : w \in Above(c)}

\* region_is_fully_mapped
FullyMapped(w) == Above(w) \subseteq mapped
Viewable(w) == FullyMapped(w) /\ w \in live \ gone
First(s) == IF s = <<>> THEN None ELSE Head(s)

-----------------------------------------------------------------------------
(* The server.                                                             *)

Event(type, w) == [type |-> type, win |-> w]
Events(type, ws) == [i \in DOMAIN ws |-> Event(type, ws[i])]

\* The events of a focus that moves from one window to another: focus-outs
\* up to the windows they share, focus-ins down from there.
FocusEvents(from, to) ==
    IF from = to THEN <<>>
    ELSE IF from = None
    THEN <<Event("Out", Root)>> \o Events("In", Reverse(Chain(to)))
    ELSE IF to = None
    THEN Events("Out", Chain(from)) \o <<Event("InNone", Root)>>
    ELSE LET up == Chain(from)
             down == Chain(to)
             shared == Cardinality(ToSet(up) \cap ToSet(down))
             outs == SubSeq(up, 1, Len(up) - shared)
             ins == SubSeq(down, 1, Len(down) - shared)
         IN  (IF outs = <<>> THEN <<Event("OutInferior", from)>>
              ELSE Events("Out", outs))
             \o (IF ins = <<>> THEN <<Event("In", to)>>
                 ELSE Events("In", Reverse(ins)))

MoveFocus(to, revert, more) ==
    /\ xfocus' = to /\ xrevert' = revert
    /\ queue' = queue \o FocusEvents(xfocus, to) \o more

\* The parents of a window no longer viewable that the focus may revert to.
ViewableAbove(w) == Only(Tail(Chain(w)), {p \in live : FullyMapped(p)})

\* Window w, and all in it, is no longer viewable.
Unview(w, more) ==
    IF w \in Above(xfocus)
    THEN MoveFocus(IF xrevert = "parent" THEN Head(ViewableAbove(w)) ELSE None,
                   "none", more)
    ELSE UNCHANGED server /\ queue' = queue \o more

\* XSetInputFocus: BadMatch, for a window not viewable, is ignored.
SetInputFocus(w) ==
    IF Viewable(w) THEN MoveFocus(w, "parent", <<>>)
    ELSE UNCHANGED <<server, queue>>

Act == acts < MaxActs /\ acts' = acts + 1

\* A client takes the focus to one of the windows.
ClientFocuses(w, revert) ==
    /\ Act /\ Viewable(w)
    /\ MoveFocus(w, revert, <<>>)
    /\ UNCHANGED <<prog, tree, idle>>

\* A client gives the focus to nobody.
ClientDrops ==
    /\ Act /\ xfocus # None
    /\ MoveFocus(None, "none", <<>>)
    /\ UNCHANGED <<prog, tree, idle>>

\* A client's window is destroyed.
ClientGoes(w) ==
    /\ Act /\ w \in (Clients \cap live) \ gone
    /\ Unview(w, <<Event("Gone", w)>>)
    /\ gone' = gone \cup {w}
    /\ UNCHANGED <<prog, live, parent, mapped, dying, idle>>

\* The pointer enters a window.
PointerEnters(w) ==
    /\ Act /\ Viewable(w)
    /\ queue' = Append(queue, Event("Enter", w))
    /\ UNCHANGED <<prog, tree, server, idle>>

-----------------------------------------------------------------------------
(* Handling events.                                                        *)

\* check_clear_await: only on the way to the window awaited may the wait
\* go on.
ClearedAwait(w) == IF w \in Above(await) \ {await} THEN await ELSE None

\* region_focuslist_push, and without what manages the region.
Pushed(w) == <<w>> \o Dropping(history, Above(w))

\* region_got_focus
GotFocus(w) ==
    /\ await' = ClearedAwait(w)
    /\ history' = IF sub[w] = None THEN Pushed(w) ELSE history
    /\ active' = active \cup {w}
    /\ sub' = IF w \notin active /\ parent[w] # None
              THEN [sub EXCEPT ![parent[w]] = w] ELSE sub

\* The parent of w no longer has w for its active region.
NoSub(w) == [p \in Windows |-> IF p = parent[w] /\ sub[p] = w
                               THEN None ELSE sub[p]]

\* Faulty variant: the parent is left with its active region.
LostFocusKeeping(w) ==
    /\ active' = active \ {w}
    /\ UNCHANGED <<sub, history, await>>

\* region_lost_focus
LostFocus(w) ==
    /\ active' = active \ {w}
    /\ sub' = IF w \in active THEN NoSub(w) ELSE sub
    /\ UNCHANGED <<history, await>>

\* Faulty variant: a pending request does not survive a focus event.
FocusNextAfterAny(type) ==
    IF type = "InNone"
    THEN next' = Root /\ source' = Fallback
    ELSE next' = None /\ UNCHANGED source

\* Faulty variant: a focus dropped on the root window is left there.
FocusNextAfterDrop(type) ==
    IF next # None /\ source < Fallback
    THEN UNCHANGED <<next, source>>
    ELSE next' = None /\ UNCHANGED source

\* ioncore_handle_focus_in, past region_got_focus: if the focus was dropped on
\* the root window it is to be restored, unless a request is pending.
FocusNextAfter(type) ==
    IF next # None /\ source < Fallback
    THEN UNCHANGED <<next, source>>
    ELSE IF type = "InNone"
    THEN next' = Root /\ source' = Fallback
    ELSE next' = None /\ UNCHANGED source

\* region_prepare_focus: what is to have the focus is shown.
Shown(w) == mapped \cup Above(w)

\* Faulty variant: the pointer is followed whatever is pending.
EnteredAlways(w) ==
    IF w \in active \/ w \in Above(next)
    THEN UNCHANGED <<next, source, mapped>>
    ELSE next' = w /\ source' = EnterWindow /\ mapped' = Shown(w)

\* ioncore_handle_enter_window
Entered(w) ==
    IF \/ w \in active
       \/ next # None /\ source < EnterWindow
       \/ w \in Above(next)
    THEN UNCHANGED <<next, source, mapped>>
    ELSE next' = w /\ source' = EnterWindow /\ mapped' = Shown(w)

Running == dying = <<>> /\ ~idle

HandleFocusIn(e) ==
    /\ e.type \in {"In", "InNone"} /\ e.win \in live
    /\ GotFocus(e.win)
    /\ FocusNextAfter(e.type)
    /\ UNCHANGED tree

\* Faulty variant: a focus that moves inwards is lost.
HandleFocusOutAll(e) ==
    /\ e.type \in {"Out", "OutInferior"} /\ e.win \in live
    /\ LostFocus(e.win)
    /\ UNCHANGED <<next, source, tree>>

\* ioncore_handle_focus_out
HandleFocusOut(e) ==
    /\ e.type \in {"Out", "OutInferior"} /\ e.win \in live
    /\ IF e.type = "Out" THEN LostFocus(e.win) ELSE GotFocus(e.win)
    /\ UNCHANGED <<next, source, tree>>

HandleEnter(e) ==
    /\ e.type = "Enter" /\ e.win \in live
    /\ Entered(e.win)
    /\ UNCHANGED <<active, sub, history, await, live, parent, gone, dying>>

\* Regions alive above w, the nearest first.
LiveAbove(w) == Dropping(Tail(Chain(w)), ToSet(dying))

\* destroy_obj up to the deinit function: the watch on the region awaited
\* moves to the nearest parent not being destroyed, too.
EnterDestroy(w) ==
    /\ dying' = <<w>> \o dying
    /\ await' = IF await = w THEN Head(LiveAbove(w)) ELSE await

\* clientwin_destroyed
HandleGone(e) ==
    /\ e.type = "Gone" /\ e.win \in live
    /\ EnterDestroy(e.win)
    /\ UNCHANGED <<active, sub, history, next, source,
                   live, parent, mapped, gone>>

\* Events for what is no longer there.
HandleStray(e) == e.win \notin live /\ UNCHANGED <<prog, tree>>

HandleEvent ==
    /\ Running /\ queue # <<>>
    /\ queue' = Tail(queue)
    /\ \/ HandleFocusIn(Head(queue))
       \/ HandleFocusOut(Head(queue))
       \/ HandleEnter(Head(queue))
       \/ HandleGone(Head(queue))
       \/ HandleStray(Head(queue))
    /\ UNCHANGED <<server, idle, acts>>

-----------------------------------------------------------------------------
(* Flushing the focus.                                                     *)

\* The main loop finds nothing to read; the server goes on.
FindIdle ==
    /\ Running /\ queue = <<>> /\ next # None
    /\ idle' = TRUE
    /\ UNCHANGED <<prog, tree, server, queue, acts>>

\* mplex_do_set_focus: where a request for a region ends.
Targets(w) ==
    {t \in live : /\ Children(t) \cap mapped = {}
                  /\ w \in Above(t) /\ Above(t) \ Above(w) \subseteq mapped}

\* region_finalise_focusing
FinaliseFocusing(w) ==
    IF w \in active /\ await = None
    THEN UNCHANGED <<await, server, queue>>
    ELSE await' = w /\ SetInputFocus(w)

\* ioncore_flushfocus
FlushFocus ==
    /\ idle /\ idle' = FALSE
    /\ next' = None
    /\ \E w \in Targets(next) : FinaliseFocusing(w)
    /\ UNCHANGED <<active, sub, history, source, tree, acts>>

\* region_set_focus, region_warp: a request of a binding, a script or a
\* manager.
SetFocus(w) ==
    /\ Act /\ Running /\ w \in live
    /\ next' = w /\ source' = Other
    /\ UNCHANGED <<active, sub, history, await, tree, server, queue, idle>>

\* region_goto: the same, after showing the region.
Goto(w) ==
    /\ Act /\ Running /\ w \in live \ mapped
    /\ mapped' = Shown(w)
    /\ next' = w /\ source' = Other
    /\ UNCHANGED <<active, sub, history, await, live, parent, gone, dying,
                   server, queue, idle>>

\* A request for the focus: the region and the source of the request.
Request(w, src) == [next |-> w, source |-> src]
Pending == Request(next, source)
FocusNextIs(r) == next' = r.next /\ source' = r.source

\* region_pointer_focus_hack, for a region shown or not, while the list is
\* hist and the request pend: the request afterwards.
Hack(w, shown, hist, pend) ==
    LET act == IF await # None THEN await ELSE First(hist) IN
    IF \/ pend.next # None /\ pend.source <= PointerHack
       \/ w \in active /\ await = None
       \/ ~shown
       \/ act = None
       \/ act \in ToSet(dying)
       \/ ~FullyMapped(act)
    THEN pend
    ELSE Request(act, PointerHack)

\* region_may_control_focus
MayControlFocus(par, w, nxt) ==
    /\ w \notin ToSet(dying)
    /\ \/ w \in active
       \/ w \in AboveIn(par, await) \cup AboveIn(par, nxt)
       \/ nxt # None /\ nxt \in AboveIn(par, w)

-----------------------------------------------------------------------------
(* Windows come, go and move.                                              *)

\* mplex_managed_remove: a frame that loses its current child w asks for the
\* focus for another child, if the focus is for the frame to control.  Without
\* an active child the current one may or may not be w.
AfterRemoval(par, f, w, pend) ==
    LET others == {c \in Children(f) \ {w} : c \in mapped} IN
    IF \/ ~MayControlFocus(par, f, pend.next)
       \/ sub[f] \notin {w, None}
    THEN {pend}
    ELSE {Request(c, Other) : c \in others}
         \cup IF sub[f] = w /\ others # {} THEN {} ELSE {pend}

\* mplex_do_attach_final: a region attached is switched to, or shown behind
\* what is there, or not shown.
AfterAttach(how, par, w, f, pend) ==
    IF how = "switch" /\ MayControlFocus(par, f, pend.next)
    THEN Request(w, Other)
    ELSE IF how = "behind"
    THEN Hack(w, AboveIn(par, w) \ {w} \subseteq mapped, history, pend)
    ELSE pend

Hows == {"switch", "behind", "hidden"}
Showing(w, how) == IF how = "hidden" THEN mapped \ {w} ELSE mapped \cup {w}

\* A region is created and attached to a frame, under a name that no event on
\* its way has.
Create(w, f, how) ==
    /\ Act /\ Running
    /\ w \notin live /\ f \in live \cap Frames
    /\ \A i \in DOMAIN queue : queue[i].win # w
    /\ live' = live \cup {w}
    /\ parent' = [parent EXCEPT ![w] = f]
    /\ mapped' = Showing(w, how)
    /\ FocusNextIs(AfterAttach(how, parent', w, f, Pending))
    /\ UNCHANGED <<active, sub, history, await, gone, dying, server, idle,
                   queue>>

\* do_switch: a frame displays another child, w, in the place of u.
Switch(w, u) ==
    /\ Act /\ Running
    /\ w \in live \ mapped /\ u \in mapped /\ parent[u] = parent[w]
    /\ mapped' = (mapped \cup {w}) \ {u}
    /\ FocusNextIs(IF MayControlFocus(parent, parent[w], next)
                   THEN Request(w, Other)
                   ELSE Hack(u, FullyMapped(u), history, Pending))
    /\ Unview(u, <<>>)
    /\ UNCHANGED <<active, sub, history, await, live, parent, gone, dying,
                   idle>>

\* region_map
Map(w) ==
    /\ Act /\ Running /\ w \in live \ mapped
    /\ mapped' = mapped \cup {w}
    /\ UNCHANGED <<prog, live, parent, gone, dying, server, idle, queue>>

\* window_unmap, hide_clientwin
Unmap(w) ==
    /\ Act /\ Running /\ w \in mapped \ {Root}
    /\ FocusNextIs(Hack(w, FullyMapped(w), history, Pending))
    /\ Unview(w, <<>>)
    /\ mapped' = mapped \ {w}
    /\ UNCHANGED <<active, sub, history, await, live, parent, gone, dying,
                   idle>>

\* region_unset_parent, for the active region of the parent
UnsetParent(w) == sub' = NoSub(w)

\* doit_reparent: the window moves to the new parent (window_do_fitrep), then
\* the old frame removes the region and the new one attaches it.
Reparent(w, f, how) ==
    /\ Act /\ Running
    /\ w \in live \ {Root} /\ f \in (live \cap Frames) \ Below(w)
    /\ f # parent[w]
    /\ UnsetParent(w)
    /\ Unview(w, <<>>)
    /\ parent' = [parent EXCEPT ![w] = f]
    /\ mapped' = Showing(w, how)
    /\ \E pend \in AfterRemoval(parent', parent[w], w, Pending) :
          FocusNextIs(AfterAttach(how, parent', w, f, pend))
    /\ UNCHANGED <<active, history, await, live, gone, dying, idle>>

\* destroy_obj, of the user's making or for the children of what is destroyed.
Destroy(w) ==
    /\ Act /\ Running /\ w \in live \ {Root}
    /\ EnterDestroy(w)
    /\ UNCHANGED <<active, sub, history, next, source, live, parent, mapped,
                   gone, server, idle, queue>>

DestroyChild(w) ==
    /\ dying # <<>> /\ w \in Children(Head(dying))
    /\ EnterDestroy(w)
    /\ UNCHANGED <<active, sub, history, next, source, live, parent, mapped,
                   gone, server, idle, queue, acts>>

\* The list without a region.
Forgotten(w) == IF w \in ToSet(history) THEN Unlink(history, w) ELSE history

\* Faulty variant: the region still counts as mapped.
DeinitMapped(w) ==
    /\ live' = live \ {w}
    /\ parent' = [parent EXCEPT ![w] = None]
    /\ gone' = gone \ {w}
    /\ active' = active \ {w}
    /\ sub' = [NoSub(w) EXCEPT ![w] = None]
    /\ history' = Forgotten(w)
    /\ UNCHANGED <<await, mapped>>

\* region_deinit, but for focus_next; and the memory is free.
Deinit(w) ==
    /\ live' = live \ {w}
    /\ parent' = [parent EXCEPT ![w] = None]
    /\ mapped' = mapped \ {w}
    /\ gone' = gone \ {w}
    /\ active' = active \ {w}
    /\ sub' = [NoSub(w) EXCEPT ![w] = None]
    /\ history' = Forgotten(w)
    /\ UNCHANGED await

\* Faulty variant: the request for the region stays.
NoLongerNextKept(w, pend) == pend

\* region_deinit: a region destroyed is not the one to get the focus.
NoLongerNext(w, pend) ==
    [pend EXCEPT !.next = IF @ = w THEN None ELSE @]

\* region_deinit: the manager, if not being destroyed, may ask for the focus
\* for another region.
AfterDeinit(w, pend) ==
    {NoLongerNext(w, p) :
        p \in AfterRemoval(parent, parent[w], w, NoLongerNext(w, pend))}

\* window_deinit: the hack comes after the region is out of the tree.
DeinitWindow(w) ==
    \E pend \in AfterDeinit(w, Pending) :
       FocusNextIs(Hack(w, w \in mapped, Forgotten(w), pend))

\* clientwin_deinit: the hack comes before, and only if there is a window.
DeinitClient(w) ==
    LET hacked == IF w \in gone THEN Pending
                  ELSE Hack(w, FullyMapped(w), history, Pending)
    IN  \E pend \in AfterDeinit(w, hacked) : FocusNextIs(pend)

FinishDestroy ==
    /\ dying # <<>> /\ Children(Head(dying)) = {}
    /\ LET w == Head(dying) IN
       /\ IF w \in Clients THEN DeinitClient(w) ELSE DeinitWindow(w)
       /\ Deinit(w)
       /\ IF w \in gone THEN UNCHANGED <<server, queue>> ELSE Unview(w, <<>>)
    /\ dying' = Tail(dying)
    /\ UNCHANGED <<idle, acts>>

-----------------------------------------------------------------------------
(* The specification.                                                      *)

\* All is shown, and one of the windows has had the focus for some time.
InitAt(w) ==
    /\ live = Windows /\ parent = Home
    /\ mapped = Windows
    /\ xfocus = w /\ xrevert = "parent"
    /\ active = AboveIn(Home, w)
    /\ sub = [p \in Windows |->
                 IF p = w \/ p \notin active THEN None
                 ELSE CHOOSE c \in active : Home[c] = p]
    /\ history = <<w>>
    /\ next = None /\ source = Other /\ await = None
    /\ dying = <<>> /\ idle = FALSE /\ gone = {}
    /\ queue = <<>> /\ acts = 0

Init == \E w \in Windows : InitAt(w)

ProgramNext == HandleEvent \/ FindIdle \/ FlushFocus
                \/ FinishDestroy \/ \E w \in Windows : DestroyChild(w)

ClientNext ==
    \/ \E w \in Windows, revert \in {"parent", "none"} :
          ClientFocuses(w, revert)
    \/ ClientDrops
    \/ \E w \in Windows : ClientGoes(w) \/ PointerEnters(w)

UserNext ==
    \/ \E w \in Windows : SetFocus(w) \/ Goto(w)
    \/ \E w \in Windows : Map(w) \/ Unmap(w) \/ Destroy(w)
    \/ \E w, u \in Windows : Switch(w, u)
    \/ \E w, f \in Windows, how \in Hows :
          Create(w, f, how) \/ Reparent(w, f, how)

Next == ProgramNext \/ ClientNext \/ UserNext

Spec == Init /\ [][Next]_vars

\* The window manager runs its main loop.
FairSpec == Spec /\ WF_vars(ProgramNext)

-----------------------------------------------------------------------------
(* Properties.                                                             *)

\* Every variable has its type (the structures of focus.c and global.h).
TypeOK ==
    /\ live \subseteq Windows /\ mapped \subseteq live /\ gone \subseteq live
    /\ parent \in [Windows -> Frames \cup {None}]
    /\ active \subseteq Windows
    /\ sub \in [Windows -> Windows \cup {None}]
    /\ history \in Seq(Windows) /\ dying \in Seq(Windows)
    /\ {next, await, xfocus} \subseteq Windows \cup {None}
    /\ source \in Other..Fallback
    /\ idle \in BOOLEAN
    /\ xrevert \in {"parent", "none"}
    /\ queue \in Seq([type : {"In", "InNone", "Out", "OutInferior", "Enter",
                              "Gone"}, win : Windows])
    /\ acts \in 0..MaxActs

\* Nothing refers to a region that has been freed: not the request, not the
\* wait, not the list, not the active regions of parents (region_deinit has
\* to go through them all); the wait is not for a region that is being
\* destroyed (await_watch_handler), the list has a region once, and the active
\* region of a parent is a child of it and is active.
RefersToLive ==
    /\ TypeOK
    /\ {next, await} \subseteq live \cup {None}
    /\ await \notin ToSet(dying)
    /\ ToSet(history) \subseteq live /\ IsInjective(history)
    /\ \A p \in Windows : sub[p] # None =>
          sub[p] \in live \cap active /\ parent[sub[p]] = p

Quiet == queue = <<>> /\ dying = <<>>

\* When all events have been handled, the regions marked active are those the
\* server's focus is in, and the region with the focus has no active region
\* in it and is the head of the list.  With the focus dropped, the root window
\* passes for active.
BeliefTrue ==
    Quiet =>
        /\ active = IF xfocus = None THEN {Root} ELSE Above(xfocus)
        /\ xfocus # None =>
              /\ First(history) = xfocus
              /\ sub[xfocus] = None

\* What the user asked for last, viewable then, gets the focus.
RequestServed ==
    \A w \in Windows :
        (/\ acts = MaxActs /\ Running /\ gone = {}
         /\ Children(Root) \cap mapped # {}
         /\ next = w /\ source = Other /\ Viewable(w))
            ~> xfocus \in Below(w)

\* A focus that has been dropped comes back, if there is a window for it and
\* none is lost meanwhile (ioncore_handle_focus_in).
FocusRestored ==
    (/\ acts = MaxActs /\ Running /\ gone = {}
     /\ \E i \in DOMAIN queue : queue[i].type = "InNone"
     /\ xfocus = None /\ next = None
     /\ Children(Root) \cap mapped # {})
        ~> xfocus # None
===============================================================================
