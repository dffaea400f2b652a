------------------------------- MODULE Clients -------------------------------
(***************************************************************************)
(* Client windows between their clients, the X server and the window       *)
(* manager (ioncore/clientwin.c, eventh.c, netwm.c, rootwin.c, manage.c).  *)
(* The window manager's requests are in a buffer, from which the server    *)
(* takes them one at a time; the events it selects are in a queue, from    *)
(* which it takes them; clients talk to the server in between.  A call     *)
(* that has a reply waits until the buffer is empty.                       *)
(*                                                                         *)
(* The server is modelled by what the code relies on: redirection, the     *)
(* events of a window that is selected, and the save set, whose windows    *)
(* go back to the root window and are mapped when the window manager's     *)
(* connection is closed, however it is closed.                             *)
(***************************************************************************)
EXTENDS Naturals, SequencesExt

CONSTANTS
    Windows,    \* windows of clients
    Kinds,      \* what windows there may be, of "plain", "override" and "acrobatic"
    Frames,     \* windows of frames, where client windows are put
    Screen,     \* the screen, where they are full screen: its window is the root
    None,
    MaxActs,    \* bound of the checked instance: acts of clients and users
    MaxStops    \* bound of the checked instance: exits and crashes

Places == Frames \cup {Screen}

\* The WClientWin of a window
ClientWins ==
    [place : Places, mapped : BOOLEAN, back : Frames \cup {None},
     state : {"Withdrawn", "Iconic", "Normal"}, fs_rq : BOOLEAN,
     loaded : BOOLEAN]

ASSUME ClientsAssumption ==
    /\ Kinds \subseteq {"plain", "override", "acrobatic"}
    /\ Screen \notin Frames /\ None \notin Places /\ None \notin Windows
    /\ None \notin ClientWins
    /\ MaxActs \in Nat /\ MaxStops \in Nat

VARIABLES
    kind,     \* "override" has override_redirect; "acrobatic" has the winprop
              \* of that name, and is moved away instead of unmapped
    life,     \* of each window: "unborn", "alive" or "gone"
    want,     \* windows their clients want to be seen
    asking,   \* windows whose client waits for an answer to a ConfigureRequest
    x,        \* what the server knows of each window
    out,      \* the window manager's requests that the server has not got
    events,   \* the events that the window manager has not got
    up,       \* "down", "layout" and "scan" (at the start), "normal", "deinit"
    pc,       \* the call whose reply the window manager waits for
    scan,     \* rootwin->tmpwins: windows to be managed at the start
    cwin,     \* the WClientWin of each window
    refused,  \* windows that no place was found for
    missed,   \* windows that went while their events were not selected
    unheard,  \* windows withdrawn without the window manager being told
    lost,     \* windows whose MapRequest was dropped with the connection
    acts, stops

clients == <<kind, life, want, asking>>
history == <<missed, unheard, lost, refused>>
manager == <<up, pc, scan, cwin>>
counts == <<acts, stops>>
vars == <<clients, x, out, events, manager, history, counts>>

Alive(w) == life[w] = "alive"

\* XWINDOW_REGION_OF_T(w, WClientWin)
Known(w) == cwin[w] # None

\* A window that nothing has been done to, on the root window (parent None).
Fresh == [parent |-> None, mapped |-> FALSE, selected |-> FALSE,
          saved |-> FALSE, wm_state |-> "Withdrawn", net_fs |-> FALSE]

Idle == [op |-> "idle", win |-> None, arg |-> None]
Waiting(op, w, arg) == [op |-> op, win |-> w, arg |-> arg]
Event(type, w, arg) == [type |-> type, win |-> w, arg |-> arg]
\* A request sets a field of x, or "configured" lets the client know its place.
Request(field, w, arg) == [field |-> field, win |-> w, arg |-> arg]

Init ==
    /\ kind \in [Windows -> Kinds]
    /\ life = [w \in Windows |-> "unborn"] /\ want = {} /\ asking = {}
    /\ x = [w \in Windows |-> Fresh]
    /\ out = <<>> /\ events = <<>>
    /\ up = "normal" /\ pc = Idle /\ scan = {}
    /\ cwin = [w \in Windows |-> None]
    /\ refused = {} /\ missed = {} /\ unheard = {} /\ lost = {}
    /\ acts = 0 /\ stops = 0

-----------------------------------------------------------------------------
(* The server.                                                             *)

Connected == up # "down"

UnmapNotify(w) ==
    IF x[w].mapped /\ x[w].selected THEN <<Event("unmap", w, None)>> ELSE <<>>

\* A request is carried out; of a window that has gone it is an error, which
\* my_error_handler ignores.  A mapped window that is reparented is unmapped
\* and mapped again.
Serve ==
    /\ out # <<>>
    /\ out' = Tail(out)
    /\ LET r == Head(out)
           unmaps == r.field = "parent" \/ (r.field = "mapped" /\ ~r.arg)
       IN  /\ asking' = IF r.field = "configured" THEN asking \ {r.win} ELSE asking
           /\ x' = IF Alive(r.win) /\ r.field # "configured"
                   THEN [x EXCEPT ![r.win][r.field] = r.arg] ELSE x
           /\ events' = IF Alive(r.win) /\ unmaps
                        THEN events \o UnmapNotify(r.win) ELSE events
    /\ UNCHANGED <<kind, life, want, manager, history, counts>>

\* The client waits for its window to be mapped, which the window manager has
\* not read or not yet acted upon.
Unmanaged(w) ==
    \/ Contains(events, Event("map", w, None))
    \/ pc = Waiting("manage", w, TRUE)
    \/ \E i \in DOMAIN out : out[i].win = w /\ out[i].field = "saved" /\ out[i].arg

\* The connection is closed: what is left of requests and events is dropped,
\* frames are destroyed with what is in them, and windows in the save set are
\* put on the root window and mapped.
Disconnect ==
    /\ up' = "down" /\ pc' = Idle /\ scan' = {}
    /\ cwin' = [w \in Windows |-> None]
    /\ out' = <<>> /\ events' = <<>>
    /\ asking' = {}
    /\ x' = [w \in Windows |->
                [x[w] EXCEPT !.selected = FALSE, !.saved = FALSE,
                             !.parent = None, !.mapped = @ \/ x[w].saved]]
    /\ life' = [w \in Windows |->
                   IF Alive(w) /\ x[w].parent # None /\ ~x[w].saved
                   THEN "gone" ELSE life[w]]
    /\ lost' = lost \cup {w \in want : ~x'[w].mapped /\ Unmanaged(w)}
    /\ unheard' = unheard \cup {w \in Windows \ want : x'[w].mapped}

-----------------------------------------------------------------------------
(* The clients.                                                            *)

Act == acts < MaxActs /\ acts' = acts + 1 /\ UNCHANGED stops

\* The root window and frames have SubstructureRedirectMask selected.
Redirected(w) == Connected /\ kind[w] # "override"

\* XMapWindow, of a window that is new, withdrawn or iconic.
ClientMaps(w) ==
    /\ Act
    /\ life[w] # "gone" /\ ~x[w].mapped
    /\ life' = [life EXCEPT ![w] = "alive"]
    /\ want' = want \cup {w}
    /\ lost' = lost \ {w} /\ unheard' = unheard \ {w} /\ refused' = refused \ {w}
    /\ IF Redirected(w)
       THEN events' = Append(events, Event("map", w, None)) /\ UNCHANGED x
       ELSE x' = [x EXCEPT ![w].mapped = TRUE] /\ UNCHANGED events
    /\ UNCHANGED <<kind, asking, out, manager, missed>>

\* XWithdrawWindow: the window is unmapped and an UnmapNotify is sent to the
\* root window too.
ClientWithdraws(w) ==
    /\ Act
    /\ Alive(w) /\ w \in want
    /\ want' = want \ {w}
    /\ x' = [x EXCEPT ![w].mapped = FALSE]
    /\ events' = IF Connected
                 THEN events \o UnmapNotify(w) \o <<Event("unmap", w, None)>>
                 ELSE events
    /\ lost' = lost \ {w}
    /\ UNCHANGED <<kind, life, asking, out, manager, missed, unheard, refused>>

\* Only XUnmapWindow, as old clients do it.
ClientUnmaps(w) ==
    /\ Act
    /\ Alive(w) /\ w \in want
    /\ want' = want \ {w}
    /\ x' = [x EXCEPT ![w].mapped = FALSE]
    /\ events' = events \o UnmapNotify(w)
    /\ lost' = lost \ {w}
    /\ unheard' = IF Connected /\ UnmapNotify(w) = <<>>
                  THEN unheard \cup {w} ELSE unheard
    /\ missed' = IF Known(w) /\ x[w].mapped /\ ~x[w].selected
                 THEN missed \cup {w} ELSE missed
    /\ UNCHANGED <<kind, life, asking, out, manager, refused>>

ClientDestroys(w) ==
    /\ Act
    /\ Alive(w)
    /\ life' = [life EXCEPT ![w] = "gone"]
    /\ want' = want \ {w} /\ asking' = asking \ {w}
    /\ x' = [x EXCEPT ![w] = Fresh]
    /\ events' = IF x[w].selected
                 THEN events \o UnmapNotify(w) \o <<Event("destroy", w, None)>>
                 ELSE events
    /\ missed' = IF x[w].selected THEN missed ELSE missed \cup {w}
    /\ lost' = lost \ {w} /\ unheard' = unheard \ {w}
    /\ UNCHANGED <<kind, out, manager, refused>>

ClientConfigures(w) ==
    /\ Act
    /\ Alive(w) /\ Redirected(w)
    /\ asking' = asking \cup {w}
    /\ events' = Append(events, Event("configure", w, None))
    /\ UNCHANGED <<kind, life, want, x, out, manager, history>>

\* A _NET_WM_STATE message, sent to the root window.
ClientAsksFullscreen(w, on) ==
    /\ Act
    /\ Alive(w) /\ Connected
    /\ events' = Append(events, Event("net_wm_state", w, on))
    /\ UNCHANGED <<clients, x, out, manager, history>>

-----------------------------------------------------------------------------
(* What the window manager asks the server for.                            *)

\* do_reparent_clientwin, clientwin_notify_rootpos and so on: the events of
\* the window are not selected while the window manager changes it.
Unnoticed(w, field, arg) ==
    <<Request("selected", w, FALSE), Request(field, w, arg),
      Request("selected", w, TRUE)>>

SendConfig(w) == Unnoticed(w, "configured", None)

\* set_clientwin_state, where the state is from
SetState(w, from, to) ==
    IF from = to THEN <<>> ELSE <<Request("wm_state", w, to)>>

\* Faulty variant: the window is not put in the save set.
CreateUnsaved(w) == <<Request("selected", w, TRUE)>>

\* clientwin_init
Create(w) == <<Request("selected", w, TRUE), Request("saved", w, TRUE)>>

\* The window of a place
Xwindow(p) == IF p = Screen THEN None ELSE p

\* Faulty variant: _NET_WM_STATE is left as it was.
FitRepOnly(w, p) == Unnoticed(w, "parent", Xwindow(p)) \o SendConfig(w)

\* clientwin_fitrep with a new parent
FitRep(w, p) ==
    Unnoticed(w, "parent", Xwindow(p)) \o SendConfig(w)
    \o <<Request("net_fs", w, p = Screen)>>

\* show_clientwin and hide_clientwin
ShowRequests(w, state) ==
    IF kind[w] = "acrobatic" /\ state = "Normal" THEN <<>>
    ELSE Unnoticed(w, "mapped", TRUE) \o SetState(w, state, "Normal")
\* Faulty variant: the unmapping that it makes itself is taken for the client's.
HideNoticed(w, state) ==
    IF kind[w] = "acrobatic" THEN <<>>
    ELSE SetState(w, state, "Iconic") \o <<Request("mapped", w, FALSE)>>
HideRequests(w, state) ==
    IF kind[w] = "acrobatic" THEN <<>>
    ELSE SetState(w, state, "Iconic") \o Unnoticed(w, "mapped", FALSE)

MapRequests(w, state, shown) ==
    IF shown THEN ShowRequests(w, state) ELSE HideRequests(w, state)
StateOnceMapped(w, state, shown) ==
    IF shown THEN "Normal" ELSE IF kind[w] = "acrobatic" THEN state ELSE "Iconic"

\* clientwin_map or clientwin_unmap of window c of w
Mapped(w, c, shown) ==
    [c EXCEPT !.mapped = shown, !.state = StateOnceMapped(w, c.state, shown)]

\* Window c of w is put in place p, and is shown there or is not.
Put(w, c, p, shown) ==
    [Mapped(w, c, shown) EXCEPT !.place = p, !.loaded = FALSE,
                                !.fs_rq = @ /\ p = Screen]
PutRequests(w, c, p, shown) == FitRep(w, p) \o MapRequests(w, c.state, shown)

NewClientWin(place, back, loaded) ==
    [place |-> place, back |-> back, mapped |-> FALSE, state |-> "Withdrawn",
     fs_rq |-> place = Screen /\ ~loaded, loaded |-> loaded]

-----------------------------------------------------------------------------
(* Managing a window.                                                      *)

Ask(more) == out' = out \o more

\* ioncore_manage_clientwin, up to XGetWindowAttributes
StartManaging(w, maprq) ==
    /\ Ask(<<Request("selected", w, TRUE)>>)
    /\ pc' = Waiting("manage", w, maprq)

Replied(op) == pc.op = op /\ out = <<>>

\* The window has gone, or is not to be managed.
DoNotManage ==
    /\ Replied("manage")
    /\ LET w == pc.win
       IN  /\ ~Alive(w) \/ kind[w] = "override" \/ (~pc.arg /\ ~x[w].mapped)
           /\ Ask(<<Request("selected", w, FALSE)>>)
    /\ pc' = Idle
    /\ UNCHANGED <<clients, x, events, up, scan, cwin, history, counts>>

ToBeManaged == Replied("manage") /\ LET w == pc.win
    IN  Alive(w) /\ kind[w] # "override" /\ (pc.arg \/ x[w].mapped)

\* clientwin_do_manage_alt finds a place: full screen, with a frame to return
\* to, or a frame.
Manage(p, back, shown) ==
    /\ ToBeManaged
    /\ p = Screen <=> back # None
    /\ LET w == pc.win
           c == NewClientWin(p, back, FALSE)
       IN  /\ cwin' = [cwin EXCEPT ![w] = Put(w, c, p, shown)]
           /\ Ask(Create(w) \o PutRequests(w, c, p, shown))
    /\ pc' = [pc EXCEPT !.op = "check"]
    /\ UNCHANGED <<clients, x, events, up, scan, history, counts>>

\* It finds none: clientwin_destroyed is called for a window that is there.
Refuse ==
    /\ ToBeManaged
    /\ LET w == pc.win
       IN  /\ Ask(Create(w) \o <<Request("saved", w, FALSE),
                                 Request("selected", w, FALSE)>>)
           /\ refused' = refused \cup {w}
    /\ pc' = Idle
    /\ UNCHANGED <<clients, x, events, up, scan, cwin, missed, unheard, lost, counts>>

\* clientwin_destroyed
Destroyed(w) ==
    /\ Ask(<<Request("saved", w, FALSE), Request("selected", w, FALSE)>>)
    /\ cwin' = [cwin EXCEPT ![w] = None]

\* postmanage_check, after XSync
Check ==
    /\ Replied("check")
    /\ pc' = Idle
    /\ IF Alive(pc.win) THEN UNCHANGED <<out, cwin>> ELSE Destroyed(pc.win)
    /\ UNCHANGED <<clients, x, events, up, scan, history, counts>>

-----------------------------------------------------------------------------
(* Forgetting a window.                                                    *)

\* clientwin_unmapped and clientwin_deinit, up to reparent_root's
\* XGetWindowAttributes
StartDeinit(w) ==
    /\ Ask(<<Request("selected", w, FALSE), Request("mapped", w, FALSE)>>)
    /\ pc' = Waiting("deinit", w, None)

\* Faulty variant: the window is taken out of the save set, then reparented.
DeinitEarly ==
    /\ Replied("deinit")
    /\ LET w == pc.win
           left == IF up = "deinit" THEN <<Request("mapped", w, TRUE)>>
                   ELSE SetState(w, cwin[w].state, "Withdrawn")
                        \o <<Request("net_fs", w, FALSE)>>
       IN  /\ Ask(<<Request("saved", w, FALSE)>>
                  \o IF Alive(w) THEN <<Request("parent", w, None)>> \o left ELSE <<>>)
           /\ cwin' = [cwin EXCEPT ![w] = None]
    /\ pc' = Idle
    /\ UNCHANGED <<clients, x, events, up, scan, history, counts>>

Deinit ==
    /\ Replied("deinit")
    /\ LET w == pc.win
           left == IF up = "deinit" THEN <<Request("mapped", w, TRUE)>>
                   ELSE SetState(w, cwin[w].state, "Withdrawn")
                        \o <<Request("net_fs", w, FALSE)>>
       IN  /\ Ask((IF Alive(w) THEN <<Request("parent", w, None)>> \o left
                   ELSE <<>>) \o <<Request("saved", w, FALSE)>>)
           /\ cwin' = [cwin EXCEPT ![w] = None]
    /\ pc' = Idle
    /\ UNCHANGED <<clients, x, events, up, scan, history, counts>>

-----------------------------------------------------------------------------
(* Events.                                                                 *)

Handling(type) == up = "normal" /\ pc = Idle /\ events # <<>> /\ Head(events).type = type
Ev == Head(events).win
Read == events' = Tail(events) /\ UNCHANGED <<clients, x, up, scan, history, counts>>

\* ioncore_handle_map_request
HandleMapRequest ==
    /\ Handling("map") /\ Read
    /\ IF Known(Ev) THEN UNCHANGED <<out, pc>> ELSE StartManaging(Ev, TRUE)
    /\ UNCHANGED cwin

\* ioncore_handle_unmap_notify
HandleUnmapNotify ==
    /\ Handling("unmap") /\ Read
    /\ IF Known(Ev) THEN StartDeinit(Ev) ELSE UNCHANGED <<out, pc>>
    /\ UNCHANGED cwin

\* ioncore_handle_destroy_notify
HandleDestroyNotify ==
    /\ Handling("destroy") /\ Read
    /\ IF Known(Ev) THEN Destroyed(Ev) ELSE UNCHANGED <<out, cwin>>
    /\ UNCHANGED pc

\* ioncore_handle_configure_request of a window that is not managed
ForwardConfigure ==
    /\ Handling("configure") /\ Read
    /\ ~Known(Ev)
    /\ Ask(<<Request("configured", Ev, None)>>)
    /\ UNCHANGED <<pc, cwin>>

\* Faulty variant: the client is not told of what it is not given.
AnswerGranted(granted) ==
    /\ Handling("configure") /\ Read
    /\ Known(Ev)
    /\ Ask(IF granted THEN <<Request("configured", Ev, None)>> ELSE <<>>)
    /\ UNCHANGED <<pc, cwin>>

\* clientwin_handle_configure_request: what is asked for is done and the
\* server tells the client, or it is not, and the window manager does.
AnswerConfigure(granted) ==
    /\ Handling("configure") /\ Read
    /\ Known(Ev)
    /\ Ask(IF granted THEN <<Request("configured", Ev, None)>> ELSE SendConfig(Ev))
    /\ UNCHANGED <<pc, cwin>>

\* region_fullscreen_scr of window c of w
EnterFullscreen(w, c, shown) ==
    /\ cwin' = [cwin EXCEPT ![w] = [Put(w, c, Screen, shown) EXCEPT !.back = c.place]]
    /\ Ask(PutRequests(w, c, Screen, shown))

\* region_leave_fullscreen
LeaveFullscreen(w, c, shown) ==
    IF c.back = None THEN cwin' = [cwin EXCEPT ![w] = c] /\ UNCHANGED out
    ELSE /\ cwin' = [cwin EXCEPT ![w] = [Put(w, c, c.back, shown) EXCEPT !.back = None]]
         /\ Ask(PutRequests(w, c, c.back, shown))

\* check_fs_cfgrq: the size of a screen is asked for.
ConfigureFullscreen(shown) ==
    /\ Handling("configure") /\ Read
    /\ Known(Ev) /\ cwin[Ev].place # Screen
    /\ EnterFullscreen(Ev, [cwin[Ev] EXCEPT !.fs_rq = TRUE], shown)
    /\ UNCHANGED pc

\* netwm_state_change_rq
HandleNetWmState(shown) ==
    /\ Handling("net_wm_state") /\ Read
    /\ LET w == Ev
           on == Head(events).arg
           c == [cwin[w] EXCEPT !.fs_rq = on]
       IN  IF ~Known(w) THEN UNCHANGED <<out, cwin>>
           ELSE IF on /\ c.place # Screen THEN EnterFullscreen(w, c, shown)
           ELSE IF ~on /\ c.place = Screen THEN LeaveFullscreen(w, c, shown)
           ELSE cwin' = [cwin EXCEPT ![w] = c] /\ UNCHANGED out
    /\ UNCHANGED pc

-----------------------------------------------------------------------------
(* The user.                                                               *)

Users(w) == Act /\ up = "normal" /\ pc = Idle /\ Known(w)
            /\ UNCHANGED <<clients, x, events, up, pc, scan, history>>

\* Another region of a frame is switched to, or the workspace.
UserSwitches(w) ==
    /\ Users(w)
    /\ LET shown == ~cwin[w].mapped
       IN  /\ cwin' = [cwin EXCEPT ![w] = Mapped(w, @, shown)]
           /\ Ask(MapRequests(w, cwin[w].state, shown))

UserMoves(w, p, shown) ==
    /\ Users(w)
    /\ cwin[w].place \in Frames \ {p}
    /\ cwin' = [cwin EXCEPT ![w] = Put(w, @, p, shown)]
    /\ Ask(PutRequests(w, cwin[w], p, shown))

\* region_set_fullscreen
UserTogglesFullscreen(w, shown) ==
    /\ Users(w)
    /\ IF cwin[w].place = Screen THEN LeaveFullscreen(w, cwin[w], shown)
       ELSE EnterFullscreen(w, cwin[w], shown)

-----------------------------------------------------------------------------
(* Starting and ending.                                                    *)

Stop == stops < MaxStops /\ stops' = stops + 1 /\ UNCHANGED acts

Crash ==
    /\ Connected /\ Stop
    /\ Disconnect
    /\ UNCHANGED <<kind, want, refused, missed>>

\* ioncore_deinit, for ioncore_do_exit and ioncore_do_restart
Exit ==
    /\ up = "normal" /\ pc = Idle /\ Stop
    /\ up' = "deinit"
    /\ UNCHANGED <<clients, x, out, events, pc, scan, cwin, history>>

\* Regions are destroyed, and client windows with them.
ExitNext(w) ==
    /\ up = "deinit" /\ pc = Idle /\ Known(w)
    /\ StartDeinit(w)
    /\ UNCHANGED <<clients, x, events, up, scan, cwin, history, counts>>

\* XSync, dropping the events, and XCloseDisplay
ExitDone ==
    /\ up = "deinit" /\ pc = Idle /\ \A w \in Windows : ~Known(w)
    /\ out = <<>>
    /\ Disconnect
    /\ UNCHANGED <<kind, want, refused, missed, counts>>

\* rootwin_init: input is selected on the root window, and scan_initial_windows
\* lists its windows.
Start ==
    /\ up = "down"
    /\ up' = "layout"
    /\ scan' = {w \in Windows : Alive(w)}
    /\ UNCHANGED <<clients, x, out, events, pc, cwin, history, counts>>

\* clientwin_load: the window has the checkcode of the saved layout.
Load(w) ==
    /\ up = "layout" /\ pc = Idle
    /\ life[w] # "unborn" /\ ~Known(w)
    /\ \E p \in Places : pc' = Waiting("load", w, p)
    /\ UNCHANGED <<clients, x, out, events, up, scan, cwin, history, counts>>

LoadReply ==
    /\ Replied("load")
    /\ LET w == pc.win
           p == pc.arg
       IN  IF Alive(w) /\ kind[w] # "override" /\ x[w].mapped
           THEN /\ cwin' = [cwin EXCEPT ![w] = NewClientWin(p, None, TRUE)]
                /\ Ask(Create(w) \o Unnoticed(w, "parent", Xwindow(p)))
                /\ pc' = [pc EXCEPT !.op = "check_load"]
           ELSE pc' = Idle /\ UNCHANGED <<out, cwin>>
    /\ UNCHANGED <<clients, x, events, up, scan, history, counts>>

\* postmanage_check; then the window is attached.
CheckLoad(shown) ==
    /\ Replied("check_load")
    /\ pc' = Idle
    /\ LET w == pc.win
       IN  IF ~Alive(w) THEN Destroyed(w)
           ELSE /\ cwin' = [cwin EXCEPT ![w] = Mapped(w, @, shown)]
                /\ Ask(MapRequests(w, cwin[w].state, shown))
    /\ UNCHANGED <<clients, x, events, up, scan, history, counts>>

\* rootwin_manage_initial_windows
ScanNext(w) ==
    /\ up \in {"layout", "scan"} /\ pc = Idle /\ w \in scan
    /\ up' = "scan"
    /\ scan' = scan \ {w}
    /\ IF Known(w) THEN UNCHANGED <<out, pc>> ELSE StartManaging(w, FALSE)
    /\ UNCHANGED <<clients, x, events, cwin, history, counts>>

ScanDone ==
    /\ up \in {"layout", "scan"} /\ pc = Idle /\ scan = {}
    /\ up' = "normal"
    /\ UNCHANGED <<clients, x, out, events, pc, scan, cwin, history, counts>>

Next ==
    \/ Serve
    \/ \E w \in Windows :
          \/ ClientMaps(w) \/ ClientWithdraws(w) \/ ClientUnmaps(w)
          \/ ClientDestroys(w) \/ ClientConfigures(w)
          \/ \E on \in BOOLEAN : ClientAsksFullscreen(w, on)
          \/ UserSwitches(w) \/ ExitNext(w) \/ Load(w) \/ ScanNext(w)
          \/ \E shown \in BOOLEAN : \/ UserTogglesFullscreen(w, shown)
                                    \/ \E p \in Frames : UserMoves(w, p, shown)
    \/ DoNotManage \/ Refuse \/ Check \/ Deinit
    \/ HandleMapRequest \/ HandleUnmapNotify \/ HandleDestroyNotify
    \/ ForwardConfigure \/ \E granted \in BOOLEAN : AnswerConfigure(granted)
    \/ \E shown \in BOOLEAN :
          \/ \E p \in Places, back \in Frames \cup {None} : Manage(p, back, shown)
          \/ ConfigureFullscreen(shown) \/ HandleNetWmState(shown) \/ CheckLoad(shown)
    \/ Crash \/ Exit \/ ExitDone \/ Start \/ LoadReply \/ ScanDone

Spec == Init /\ [][Next]_vars

-----------------------------------------------------------------------------
(* What is to hold.                                                        *)

TypeOK ==
    /\ kind \in [Windows -> Kinds]
    /\ life \in [Windows -> {"unborn", "alive", "gone"}]
    /\ x \in [Windows -> [parent : Frames \cup {None}, mapped : BOOLEAN,
                          selected : BOOLEAN, saved : BOOLEAN,
                          wm_state : {"Withdrawn", "Iconic", "Normal"},
                          net_fs : BOOLEAN]]
    /\ up \in {"down", "layout", "scan", "normal", "deinit"}
    /\ pc.op \in {"idle", "manage", "load", "check", "check_load", "deinit"}
    /\ cwin \in [Windows -> ClientWins \cup {None}]
    /\ ~Connected => out = <<>> /\ events = <<>> /\ pc = Idle

\* The window manager and the server have nothing left to do for each other.
Quiet == up = "normal" /\ pc = Idle /\ out = <<>> /\ events = <<>>

\* The window manager has a client window of those windows that their clients
\* want to be seen, and of no others, however mapping, withdrawing and
\* destroying them meets its own changes of them, whose events it does not
\* select.  The exceptions are what it cannot or does not know: a window
\* destroyed while its events are not selected (hide_clientwin,
\* do_reparent_clientwin), one that is unmapped when it is not mapped, a
\* MapRequest that is dropped when it exits.
KnowsClients ==
    /\ TypeOK
    /\ Quiet => \A w \in Windows :
          /\ Known(w) => w \in want \cup missed \cup unheard
          /\ w \in want /\ kind[w] # "override" => Known(w) \/ w \in refused \cup lost

\* Windows whose mapping says whether they are shown: not those that are moved
\* away instead, except when they are not away.
Shows(w) == cwin[w].mapped \/ kind[w] # "acrobatic"

\* The server shows what the window manager thinks it shows, and clients are
\* told so: a managed window is in its place and mapped as the region is, with
\* the WM_STATE and _NET_WM_STATE that say so and its events selected; one that
\* was let go is back on the root window, not selected and out of the save set.
\* A client that asked for a configuration was told of its place, whether it
\* was given what it asked for or not.
ServerAgrees ==
    Quiet => asking = {} /\ \A w \in Windows : Alive(w) =>
        IF Known(w)
        THEN /\ x[w].parent = Xwindow(cwin[w].place)
             /\ x[w].selected /\ x[w].saved
             /\ w \in want \ missed /\ Shows(w) => (x[w].mapped <=> cwin[w].mapped)
             /\ Shows(w) => x[w].wm_state = cwin[w].state
             /\ cwin[w].loaded \/ (x[w].net_fs <=> cwin[w].place = Screen)
             /\ cwin[w].fs_rq => cwin[w].place = Screen
        ELSE x[w].parent = None /\ ~x[w].selected /\ ~x[w].saved

\* A window is never inside a frame without being in the save set, and with no
\* window manager there is no window that its client wants to be seen and that
\* is not mapped on the root window, so that neither an exit nor a crash takes
\* windows along, wherever it comes.
NoneTakenAlong ==
    /\ \A w \in Windows : Alive(w) /\ x[w].parent # None => x[w].saved
    /\ ~Connected => \A w \in want : x[w].mapped \/ w \in lost \cup refused
==============================================================================
