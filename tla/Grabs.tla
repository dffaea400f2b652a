-------------------------------- MODULE Grabs --------------------------------
(***************************************************************************)
(* The grabs of the keyboard and the pointer, and the modes that hold them *)
(* (ioncore/grab.c, key.c, pointer.c, kbresize.c, begin and end of         *)
(* resize.c, presize.c, the dragging of tabs in frame-pointer.c,           *)
(* mod_menu/grabmenu.c, eventh.c).                                         *)
(*                                                                         *)
(* Grabs are stacked.  The topmost gets the keys until its handler is      *)
(* done, its holder goes or the user presses Escape; one that ends below   *)
(* the top is marked, and goes with those above it.  A press of a button   *)
(* starts a loop that reads events until the button is released or no grab *)
(* is left; timers go on in it.                                            *)
(*                                                                         *)
(* Everything is one record, w, and each function that changes it an       *)
(* operator on it.  A function bound to a key or a button makes at most    *)
(* one of the calls below, and puts off the destruction of regions, as     *)
(* those exported do.                                                      *)
(***************************************************************************)
EXTENDS SequencesExt

CONSTANTS
    Root,     \* the root window; its keys are grabbed
    Frames,   \* windows whose keys are grabbed, REGION_BINDINGS_ARE_GRABBED
    Clients,  \* client windows: their keys are not for us
    Inputs,   \* menus and queries: they read their keys themselves
    Buttons,  \* what buttons are bound to: press, drag and click
    None

Windows == {Root} \cup Frames \cup Clients \cup Inputs
Grabbing == {Root} \cup Frames
MAX_GRABS == 4
Handlers == {"submap", "wait", "quote", "resize", "pointer", "menu"}
PressCalls == {"none", "moveres", "tab", "pmenu", "kbresize"}

\* The keyboard's resizing begun by a press, of a button that drags to move
\* or resize: releasing it ends the mode and leaves the keyboard grabbed.
ASSUME GrabsAssumption ==
    /\ None \notin Windows
    /\ Inputs \cap ({Root} \cup Frames) = {}
    /\ Buttons \subseteq
         [press : PressCalls, drag : PressCalls, click : PressCalls]
    /\ \A b \in Buttons :
         ~("kbresize" \in {b.press, b.drag}
           /\ "moveres" \in {b.press, b.drag})

VARIABLE w

NoPointer == [reg |-> None, held |-> FALSE, motion |-> FALSE,
              drag |-> "none", begin |-> FALSE]

Init ==
    w = [ alive   |-> {Root},
          stack   |-> <<>>,    \* grabs: the last one is current_grab
          current |-> 0,       \* its index
          grabbed |-> FALSE,   \* whether X reports all keys to us
          mode    |-> "normal",   \* input_mode
          target  |-> None,    \* of the move/resize mode, tmpmode
          timer   |-> "no",    \* resize_timer
          sub     |-> {},      \* windows with a submapstat
          pointer |-> NoPointer,
          button  |-> None,    \* what the pressed one is bound to
          loop    |-> FALSE,   \* in ioncore_handle_buttonpress
          tabwin  |-> None,    \* the frame a tab is dragged from
          ending  |-> {},      \* menus deferred to finish
          failed  |-> None ]   \* who died with a submapstat

Top(q) == Last(q.stack)
Held(q, h) == {g \in Range(q.stack) : g.handler = h /\ ~g.remove}

-----------------------------------------------------------------------------
(* grab.c *)

\* do_grab_install and grab_kb_ptr
Installed(q) ==
    [q EXCEPT !.current = Len(q.stack), !.grabbed = TRUE, !.mode = "grab"]

\* ioncore_grab_establish
Establish(q, reg, h) ==
    IF Len(q.stack) < MAX_GRABS
    THEN Installed([q EXCEPT !.stack =
             Append(@, [holder |-> reg, handler |-> h, remove |-> FALSE])])
    ELSE q

\* Faulty variant: only the topmost is taken off.
DoGrabRemoveOne(q) ==
    LET rest == [q EXCEPT !.stack = Front(@), !.current = 0,
                          !.grabbed = FALSE, !.mode = "normal"]
    IN IF rest.stack = <<>> THEN rest ELSE Installed(rest)
\* do_grab_remove: the marked ones at the top go
DoGrabRemove(q) ==
    LET kept == {i \in DOMAIN q.stack : ~q.stack[i].remove}
        rest == [q EXCEPT !.stack = IF kept = {} THEN <<>>
                                    ELSE SubSeq(@, 1, Max(kept)),
                          !.current = 0, !.grabbed = FALSE,
                          !.mode = "normal"]
    IN IF rest.stack = <<>> THEN rest ELSE Installed(rest)

\* The end of mark_for_removal.  When the stack is empty it reads the mark
\* of grabs[-1], and may ungrab again what is not grabbed.
Settled(q) ==
    IF q.stack # <<>> /\ Top(q).remove THEN DoGrabRemove(q) ELSE q

\* mark_for_removal, of a grab that is done.  The handler may have had it
\* taken off already.
Done(q, i) ==
    IF i \in DOMAIN q.stack
    THEN Settled([q EXCEPT !.stack[i].remove = TRUE]) ELSE q

\* ioncore_grab_remove: the topmost with this handler
GrabRemove(q, h) ==
    LET at == {i \in DOMAIN q.stack : q.stack[i].handler = h}
    IN IF at = {} THEN q ELSE Done(q, Max(at))

-----------------------------------------------------------------------------
(* resize.c, kbresize.c *)

\* moveresmode_init
BeginResize(q, reg) ==
    IF q.target # None \/ reg = Root THEN q ELSE [q EXCEPT !.target = reg]

\* moveresmode_do_end
DoEnd(q) == [q EXCEPT !.target = None]

\* Faulty variant: the timer is set by the keys only.
BeginKbResizeUntimed(q, reg) ==
    IF q.target # None \/ reg = Root THEN q
    ELSE Establish(BeginResize(q, reg), reg, "resize")
\* region_begin_kbresize
BeginKbResize(q, reg) ==
    IF q.target # None \/ reg = Root THEN q
    ELSE Establish([BeginResize(q, reg) EXCEPT !.timer = "set"],
                   reg, "resize")

\* Faulty variant: the grab is left to the handler of the keys.
CancelUngrabbed(q) == [DoEnd(q) EXCEPT !.timer = "no"]
\* moveresmode_cancel, moveresmode_finish
Cancel(q) == GrabRemove([DoEnd(q) EXCEPT !.timer = "no"], "resize")

-----------------------------------------------------------------------------
(* Regions and grabs that go. *)

\* Faulty variant: the killed handler is not called, so that nothing ends
\* what the pointer was used for.
PointerKilledOnly(q) == [q EXCEPT !.pointer = NoPointer]
\* pointer_grab_killed with p_moveres_cancel, tabdrag_killed, menu_cancel
PointerKilled(q) ==
    LET d == q.pointer.drag
        ended == CASE d = "moveres" /\ q.target = q.pointer.reg -> DoEnd(q)
                   [] d = "tab" -> [q EXCEPT !.tabwin = None]
                   [] d = "menu" -> [q EXCEPT !.ending = @ \cup
                                                    {q.pointer.reg}]
                   [] OTHER -> q
    IN [ended EXCEPT !.pointer = NoPointer]

\* The rest of destroy_obj for a region that has no grab any more; the
\* assertion of region_deinit
Deinit(q, reg) ==
    [q EXCEPT !.alive = @ \ {reg}, !.ending = @ \ {reg},
              !.sub = @ \ {reg},
              !.failed = IF reg \in q.sub THEN reg ELSE @]

\* The killed handlers: cancel_moveres, clear_subs, pointer_grab_killed,
\* grabkilled_handler; the others have none.
Killed(q, g) ==
    CASE g.handler = "resize" ->
             IF q.target = g.holder THEN Cancel(q) ELSE q
      [] g.handler = "submap" -> [q EXCEPT !.sub = @ \ {g.holder}]
      [] g.handler = "pointer" -> PointerKilled(q)
      [] g.handler = "menu" -> Deinit(Settled(q), g.holder)
      [] OTHER -> q

\* Faulty variant: what the grab was for is not told.
KillSilently(q, i) ==
    IF i \in DOMAIN q.stack
    THEN Settled([q EXCEPT !.stack[i].remove = TRUE]) ELSE q
\* mark_for_removal, of a grab that is killed
Kill(q, i) ==
    IF i \notin DOMAIN q.stack \/ q.stack[i].remove THEN Settled(q)
    ELSE Settled(Killed([q EXCEPT !.stack[i].remove = TRUE], q.stack[i]))

\* do_holder_remove: all grabs of the region, the topmost first
HolderRemove(q, reg) ==
    LET n == Len(q.stack)
        after[k \in 0..n] ==
            IF k = 0 THEN q
            ELSE LET x == after[k - 1]
                     i == n + 1 - k
                 IN IF i \in DOMAIN x.stack /\ x.stack[i].holder = reg
                    THEN Kill(x, i) ELSE x
    IN after[n]

\* destroy_obj
Destroyed(q, reg) == Deinit(HolderRemove(q, reg), reg)

-----------------------------------------------------------------------------
(* Functions that are bound to keys: pairs of a name and a window. *)

Nothing == <<"none", None>>
KeyCalls(q) ==
    {Nothing}
    \cup {<<"kbresize", r>> : r \in q.alive \ {Root}}
    \cup {<<"query", m>> : m \in Inputs \ q.alive}
    \cup {<<"quote", c>> : c \in Clients \cap q.alive}
\* There must be a current key, and it must have a modifier.
GrabMenus(q) == {<<"grabmenu", m>> : m \in Inputs \ q.alive}

\* do_call_binding
Call(q, f) ==
    LET new == [q EXCEPT !.alive = @ \cup {f[2]}]
    IN CASE f[1] = "kbresize" -> BeginKbResize(q, f[2])
         [] f[1] = "query" -> new
         [] f[1] = "grabmenu" -> Establish(new, f[2], "menu")
         [] f[1] = "quote" -> Establish(q, f[2], "quote")
         [] OTHER -> q

-----------------------------------------------------------------------------
(* key.c.  What is bound to a key in the window: nothing, another map of   *)
(* bindings, whose entering may call a function, or a function.            *)

Bound(q) ==
    {[to |-> "nothing", fn |-> Nothing, wait |-> FALSE]}
    \cup [to : {"submap"}, fn : KeyCalls(q) \cup GrabMenus(q),
          wait : {FALSE}]
    \cup [to : {"function"}, fn : KeyCalls(q) \cup GrabMenus(q),
          wait : BOOLEAN]

\* do_key: what changes
DoKey(q, reg, b) ==
    CASE b.to = "submap" -> Call([q EXCEPT !.sub = @ \cup {reg}], b.fn)
      [] b.to = "function" ->
             Call([q EXCEPT !.grabbed = @ /\ reg \notin Grabbing], b.fn)
      [] OTHER -> q
\* do_key: what is to be grabbed
DoKeyGrab(q, reg, b) ==
    CASE b.to = "submap" /\ reg \in Grabbing -> "submap"
      [] b.to = "submap" /\ reg \notin Grabbing -> "none_submap"
      [] b.to = "function" /\ b.wait /\ reg \notin q.sub -> "wait"
      [] OTHER -> "none"

\* ioncore_do_handle_keypress
KeyPress(reg, b) ==
    LET after == DoKey(w, reg, b)
        grab == DoKeyGrab(w, reg, b)
    IN /\ w.stack = <<>> /\ ~w.loop
       /\ reg \in w.alive \ Clients
       /\ b \in Bound(w)
       /\ w' = CASE grab = "submap" -> Establish(after, reg, "submap")
                 [] grab = "wait" -> Establish(after, Root, "wait")
                 [] grab = "none" -> [after EXCEPT !.sub = @ \ {reg}]
                 [] OTHER -> after

\* The loop of ioncore_handle_buttonpress ends if no grab is left.
Looked(q) ==
    IF q.loop /\ q.stack = <<>>
    THEN [q EXCEPT !.loop = FALSE, !.button = None] ELSE q

\* A key that ioncore_handle_grabs gives to the handler h.
KeyFor(h) == w.stack # <<>> /\ Top(w).handler = h
Slot == Len(w.stack)

\* Faulty variant: the bindings that were entered are kept.
SubmapKeyKept(b) ==
    LET reg == Top(w).holder
        after == DoKey(w, reg, b)
    IN /\ KeyFor("submap")
       /\ b \in Bound(w)
       /\ w' = IF DoKeyGrab(w, reg, b) = "submap" THEN after
               ELSE Done(after, Slot)
\* submapgrab_handler, a key is pressed
SubmapKey(b) ==
    LET reg == Top(w).holder
        after == DoKey(w, reg, b)
    IN /\ KeyFor("submap")
       /\ b \in Bound(w)
       /\ w' = IF DoKeyGrab(w, reg, b) = "submap" THEN after
               ELSE Done([after EXCEPT !.sub = @ \ {reg}], Slot)

\* submapgrab_handler, the last modifier is released: no current key
SubmapReleaseMod(f) ==
    /\ KeyFor("submap")
    /\ f \in KeyCalls(w)
    /\ w' = Call(w, f)

\* waitrelease_handler, quote_next_handler
LastKey ==
    /\ KeyFor("wait") \/ KeyFor("quote")
    /\ w' = Done(w, Slot)

\* resize_handler, of a key bound to a step.  Which of them end the mode is
\* up to the configuration.
ResizeKey ==
    /\ KeyFor("resize") /\ w.target = Top(w).holder
    /\ w' = [w EXCEPT !.timer = "set"]
\* resize_handler, of one bound to finish or cancel
ResizeEnds ==
    /\ KeyFor("resize") /\ w.target = Top(w).holder
    /\ w' = Done(Cancel(w), Slot)

\* grabmenu_handler, the last modifier is released: menu_finish
MenuKeyUp ==
    /\ KeyFor("menu")
    /\ w' = Done([w EXCEPT !.ending = @ \cup {Top(w).holder}], Slot)

\* ioncore_handle_grabs, Escape
Escape ==
    /\ w.stack # <<>>
    /\ w' = Looked(Kill(w, Slot))

-----------------------------------------------------------------------------
(* pointer.c *)

\* ioncore_set_drag_handlers
SetDrag(q, reg, drag, begin) ==
    IF ~q.pointer.held \/ q.pointer.reg = None \/ q.pointer.motion THEN q
    ELSE [q EXCEPT !.pointer = [@ EXCEPT !.reg = reg, !.motion = TRUE,
                                         !.drag = drag, !.begin = begin]]

\* call_button and call_motion_begin: window_p_resize and window_p_move,
\* frame_p_tabdrag, mod_menu_do_pmenu (of a press only), kbresize
PointerCalls(q, f, pressed) ==
    LET new == Inputs \ q.alive
    IN CASE f = "moveres" -> {SetDrag(q, q.pointer.reg, "moveres", TRUE)}
         [] f = "tab" -> {SetDrag(q, q.pointer.reg, "tab", TRUE)}
         [] f = "pmenu" /\ pressed /\ new # {} ->
                {SetDrag([q EXCEPT !.alive = @ \cup {m}], m, "menu", FALSE)
                    : m \in new}
         [] f = "kbresize" ->
                {BeginKbResize(q, r) : r \in q.alive \ {Root}}
         [] OTHER -> {q}

\* ioncore_do_handle_buttonpress: refused while a grab is held
Press(reg, b) ==
    LET pressed == Establish(
            [w EXCEPT !.pointer = [NoPointer EXCEPT !.reg = reg,
                                                    !.held = TRUE],
                      !.button = b, !.loop = TRUE], reg, "pointer")
    IN /\ w.stack = <<>> /\ ~w.loop
       /\ reg \in w.alive \ Clients
       /\ w' \in PointerCalls(pressed, b.press, TRUE)

\* p_resize_begin and p_move_begin, p_tabdrag_begin
DragBegun(q) ==
    LET begun == [q EXCEPT !.pointer.begin = FALSE,
                           !.pointer.motion = TRUE]
    IN CASE ~q.pointer.begin -> begun
         [] q.pointer.begin /\ q.pointer.drag = "moveres" ->
                BeginResize(begun, q.pointer.reg)
         [] OTHER -> [begun EXCEPT !.tabwin = q.pointer.reg]

\* ioncore_do_handle_motionnotify, the first beyond the threshold.  Handlers
\* set by the press have p_motion set: what they begin with is never called.
Motion ==
    /\ w.loop /\ w.pointer.reg # None /\ ~w.pointer.motion
    /\ w' \in {DragBegun(q) : q \in PointerCalls(w, w.button.drag, FALSE)}

\* call_motion_end: p_moveres_end, p_tabdrag_end, menu_release
MotionEnded(q) ==
    CASE q.pointer.drag = "moveres" /\ q.target = q.pointer.reg -> DoEnd(q)
      [] q.pointer.drag = "tab" -> [q EXCEPT !.tabwin = None]
      [] q.pointer.drag = "menu" -> [q EXCEPT !.ending = @ \cup
                                                 {q.pointer.reg}]
      [] OTHER -> q

\* Faulty variant: the grab is removed by being the topmost.
ReleaseTop ==
    /\ w.loop
    /\ \E q \in IF w.pointer.motion THEN {MotionEnded(w)}
                ELSE PointerCalls(w, w.button.click, FALSE) :
         w' = [Done(q, Len(q.stack)) EXCEPT
                 !.pointer = NoPointer, !.loop = FALSE, !.button = None]
\* ioncore_do_handle_buttonrelease
Release ==
    /\ w.loop
    /\ \E q \in IF w.pointer.motion THEN {MotionEnded(w)}
                ELSE PointerCalls(w, w.button.click, FALSE) :
         w' = [GrabRemove(q, "pointer") EXCEPT
                 !.pointer = NoPointer, !.loop = FALSE, !.button = None]

-----------------------------------------------------------------------------
(* What happens by itself. *)

\* Time passes: the timer of the mode is due, and tmr_end_resize runs
Tick == /\ w.timer = "set"
        /\ w' = [w EXCEPT !.timer = "due"]
TimeOut == /\ w.timer = "due"
           /\ w' = IF w.target # None THEN Cancel(w)
                   ELSE [w EXCEPT !.timer = "no"]

\* Outside the loop of a press: windows come and go, deferred actions run
Appear(reg) == /\ ~w.loop /\ reg \in (Frames \cup Clients) \ w.alive
               /\ w' = [w EXCEPT !.alive = @ \cup {reg}]
Destroy(reg) == /\ ~w.loop /\ reg \in w.alive \ {Root}
                /\ w' = Destroyed(w, reg)
\* menu_do_finish, or the deferred disposal of menu_cancel
MenuGoes(m) == /\ ~w.loop /\ m \in w.ending
               /\ w' = Destroyed(w, m)

Events ==
    \/ \E reg \in Windows, b \in Bound(w) : KeyPress(reg, b)
    \/ \E b \in Bound(w) : SubmapKey(b)
    \/ \E f \in KeyCalls(w) : SubmapReleaseMod(f)
    \/ LastKey \/ ResizeKey \/ ResizeEnds \/ MenuKeyUp \/ Escape
    \/ \E reg \in Windows, b \in Buttons : Press(reg, b)
    \/ Motion \/ Release
    \/ Tick \/ TimeOut
    \/ \E reg \in Windows : Appear(reg) \/ Destroy(reg) \/ MenuGoes(reg)

\* An assertion that fails is the end.
Aborted == w.failed # None /\ UNCHANGED w
Next == \/ w.failed = None /\ Events
        \/ Aborted

\* Timers are looked at before every event, in the loop of a press too.
Spec == Init /\ [][Next]_w /\ WF_w(Tick) /\ WF_w(TimeOut)

-----------------------------------------------------------------------------
(* Properties. *)

Grab == [holder : Windows, handler : Handlers, remove : BOOLEAN]

(* What grab.c relies on: the topmost grab is not marked and is the one    *)
(* that gets the keys, keys are grabbed exactly while there is a grab,     *)
(* whoever holds one that is not marked lives, and there is always room    *)
(* for one more, since ioncore_grab_establish fails without telling.       *)
TypeOK ==
    /\ w.alive \subseteq Windows /\ w.target \in w.alive \cup {None}
    /\ w.stack \in Seq(Grab) /\ Len(w.stack) < MAX_GRABS
    /\ w.current = Len(w.stack)
    /\ w.stack # <<>> => ~Top(w).remove
    /\ w.grabbed <=> w.stack # <<>>
    /\ w.mode = IF w.grabbed THEN "grab" ELSE "normal"
    /\ w.timer \in {"no", "set", "due"}
    /\ w.sub \subseteq w.alive /\ w.ending \subseteq w.alive
    /\ \A g \in Range(w.stack) : ~g.remove => g.holder \in w.alive
    /\ w.pointer.held => w.pointer.reg \in w.alive
    /\ w.tabwin \in w.alive \cup {None}
    /\ w.button \in Buttons \cup {None}
    /\ w.failed \in Windows \cup {None}

(* The move/resize mode can always be ended: by its own grab of the keys   *)
(* and by its timer (kbresize.c), or by the drag that began it             *)
(* (presize.c); and neither outlives it.                                   *)
ModeHasEnd ==
    /\ TypeOK
    /\ w.target # None =>
         \/ /\ \E g \in Held(w, "resize") : g.holder = w.target
            /\ w.timer # "no"
         \/ w.pointer.drag = "moveres" /\ w.pointer.reg = w.target
    /\ Held(w, "resize") # {} \/ w.timer # "no" => w.target # None

(* A press is in its loop as long as its grab is held, and only while it   *)
(* is there is something dragged; the window of a dragged tab is made once *)
(* (frame-pointer.c, the assertion of setup_dragwin).                      *)
DragHeld ==
    /\ w.loop <=> w.pointer.held
    /\ w.loop <=> Held(w, "pointer") # {}
    /\ w.tabwin # None =>
         w.pointer.drag = "tab" /\ w.pointer.reg = w.tabwin

(* The maps of bindings that were entered in a window whose keys are       *)
(* grabbed are remembered exactly while the grab for the next key is held, *)
(* however that ends; so no such window is destroyed with some entered     *)
(* (region.c, the assertion of region_deinit).                             *)
SubmapsHeld ==
    /\ w.sub \cap Grabbing = {g.holder : g \in Held(w, "submap")}
    /\ w.failed \notin Grabbing

(* Grabs that end, whatever takes them off, leave nothing behind of what   *)
(* they were made for.                                                     *)
GrabsServe == DragHeld /\ SubmapsHeld

(* A resizing with the keyboard that is left alone ends by itself          *)
(* (kbresize.c, tmr_end_resize).                                           *)
ByKeys == w.target # None /\ Held(w, "resize") # {}
ResizeTimesOut ==
    (<>[][~ResizeKey]_w) => (ByKeys ~> ~ByKeys)

=============================================================================
