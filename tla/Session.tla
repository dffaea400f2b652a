------------------------------- MODULE Session -------------------------------
(***************************************************************************)
(* Saving, leaving and starting again, with and without a session manager  *)
(* (mod_sm/sm_session.c and the last part of ioncore/exec.c), and what     *)
(* that does to the layout.                                                *)
(*                                                                         *)
(* Without a session manager the functions of exec.c save the layout and   *)
(* leave.  With one (smhook) they ask it to have the session saved, and    *)
(* what is left to do is kept in save_complete_fn until it says that this  *)
(* is complete.  The session manager and the messages to and from it,      *)
(* which keep their order, are external.                                   *)
(***************************************************************************)
EXTENDS Layout

CONSTANTS
    MaxActs,    \* bound on acts of users, clients, the session manager and
                \* the connection
    MaxStarts   \* bound on starts

ASSUME SessionAssumption ==
    None \notin {"exit", "restart", "other", "shutdown", "snapshot",
                 "immediately", "ifRunning"}

VARIABLES
    layout,
    ion,     \* the window manager
    mgr,     \* the session manager
    toMgr, toIon,
    acts

sessionVars == <<layout, ion, mgr, toMgr, toIon, acts>>

\* A process that was started.  conn: sm_conn is not NULL; fn:
\* save_complete_fn; answered: sent_save_done.  Not in the program: wish, the
\* user's last word; since, whether the layout was saved since then.
NowRunning(withSM) ==
    [ up |-> TRUE, smhook |-> withSM, conn |-> withSM,
      fn |-> None, answered |-> FALSE, hint |-> "immediately",
      wish |-> None, since |-> FALSE ]
NotRunning(withSM) ==
    [NowRunning(withSM) EXCEPT !.up = FALSE, !.conn = FALSE]
\* A session manager that is doing nothing.  cancelled: it has told so.
Idle == [state |-> "idle", shutdown |-> FALSE, cancelled |-> FALSE,
         queue |-> {}, hint |-> None]

\* Before the first start; there may be windows, and no file.
SessionInit ==
    /\ \E withSM \in BOOLEAN : ion = NotRunning(withSM)
    /\ \E S \in SUBSET Windows : layout = InitLayout(S)
    /\ mgr = Idle /\ toMgr = <<>> /\ toIon = <<>>
    /\ acts = [done |-> 0, starts |-> 0]

Does == acts.done < MaxActs /\ acts' = [acts EXCEPT !.done = @ + 1]

-----------------------------------------------------------------------------
(* The end of a process, and another. *)

\* ioncore_do_exit, ioncore_do_restart, or a crash.  The connection ends with
\* the process; q is the layout it leaves.
Leave(q) ==
    /\ layout' = Ended(q)
    /\ ion' = NotRunning(ion.smhook)
    /\ mgr' = Idle /\ toMgr' = <<>> /\ toIon' = <<>>

\* mod_sm_smhook: the hint, what is to be done when the save is complete, and
\* whether the session is to be shut down.
Hook(what) ==
    CASE what = "restart"  -> [hint |-> "immediately", fn |-> "exit",
                               shutdown |-> FALSE]
      [] what = "other"    -> [hint |-> "ifRunning", fn |-> "restart",
                               shutdown |-> FALSE]
      [] what = "shutdown" -> [hint |-> "ifRunning", fn |-> None,
                               shutdown |-> TRUE]
      [] what = "snapshot" -> [hint |-> "immediately", fn |-> None,
                               shutdown |-> FALSE]
\* Faulty variant: what was to be done before is kept if nothing is now.
HookedNot(r, what) ==
    [r EXCEPT !.hint = Hook(what).hint, !.wish = what, !.since = FALSE,
              !.fn = IF Hook(what).fn = None THEN @ ELSE Hook(what).fn]
Hooked(r, what) ==
    [r EXCEPT !.hint = Hook(what).hint, !.wish = what, !.since = FALSE,
              !.fn = Hook(what).fn]
Wishes == {"restart", "other", "shutdown", "snapshot"}

-----------------------------------------------------------------------------
(* The user and the clients. *)

\* ioncore_restart, _restart_other, _shutdown and _snapshot
AskSM(what) ==
    /\ ion.up /\ ion.smhook /\ ion.conn /\ Does
    /\ ion' = Hooked(ion, what)
    /\ toMgr' = Append(toMgr, [kind |-> "Request",
                               shutdown |-> Hook(what).shutdown])
    /\ UNCHANGED <<layout, mgr, toIon>>
\* The connection was lost: libSM is called with a null pointer.
AskNobody ==
    /\ ion.up /\ ion.smhook /\ ~ion.conn /\ Does /\ Leave(layout)
AskAlone(what, how) ==
    LET q == Saved(layout, how)
    IN /\ ion.up /\ ~ion.smhook /\ Does
       /\ IF what = "snapshot"
          THEN layout' = q /\ UNCHANGED <<ion, mgr, toMgr, toIon>>
          ELSE Leave(q)
\* ioncore_resign.  Also a crash, or SIGTERM, under a session manager: nothing
\* is saved (ioncore_emergency_snapshot); without one a signal does as
\* AskAlone does, but for SIGKILL.
Resign == ion.up /\ Does /\ Leave(layout)

\* The next process, started by this one, the session manager or the user.
StartIon ==
    /\ ~ion.up /\ acts.starts < MaxStarts
    /\ acts' = [acts EXCEPT !.starts = @ + 1]
    /\ \E q \in Started(layout, ion.smhook) : layout' = q
    /\ ion' = NowRunning(ion.smhook)
    /\ UNCHANGED <<mgr, toMgr, toIon>>
LogOut ==
    /\ ~ion.up /\ Does /\ layout' = LoggedOut(layout)
    /\ UNCHANGED <<ion, mgr, toMgr, toIon>>

Appear(x) ==
    /\ x \notin layout.there /\ Does
    /\ \E q \in Appeared(layout, x, ion.up) : layout' = q
    /\ UNCHANGED <<ion, mgr, toMgr, toIon>>
Close(x) ==
    /\ x \in layout.there /\ Does /\ layout' = Closed(layout, x)
    /\ UNCHANGED <<ion, mgr, toMgr, toIon>>
Move(x, p) ==
    /\ layout.at[x] \notin {None, p} /\ Does
    /\ layout' = MovedTo(layout, x, p)
    /\ UNCHANGED <<ion, mgr, toMgr, toIon>>
\* WRegion.get_configuration, called by a script
Configure(S) ==
    /\ S # {} /\ S \subseteq Managed(layout) /\ Does
    /\ layout' = Configured(layout, S)
    /\ UNCHANGED <<ion, mgr, toMgr, toIon>>

-----------------------------------------------------------------------------
(* Messages to Ion. *)

Hears(kind) ==
    ion.up /\ toIon # <<>> /\ Head(toIon) = kind /\ UNCHANGED acts
Heard == toIon' = Tail(toIon)
Done(ok) == [kind |-> "Done", ok |-> ok]

\* sm_save_yourself; without memory the second phase cannot be asked for.
SaveYourself(asked) ==
    /\ Hears("SaveYourself") /\ Heard
    /\ ion' = [ion EXCEPT !.answered = ~asked]
    /\ toMgr' = Append(toMgr, IF asked THEN [kind |-> "RequestPhase2"]
                              ELSE Done(FALSE))
    /\ UNCHANGED <<layout, mgr>>

\* sm_save_yourself_phase2
SaveYourselfPhase2(how) ==
    LET ok == Succeeds(how)
        properties == IF ok THEN <<[kind |-> "Properties", hint |-> ion.hint]>>
                      ELSE <<>>
    IN /\ Hears("SaveYourselfPhase2") /\ Heard
       /\ layout' = Saved(layout, how)
       /\ ion' = [ion EXCEPT !.answered = TRUE, !.since = ok]
       /\ toMgr' = toMgr \o properties \o <<Done(ok)>>
       /\ UNCHANGED mgr

\* Faulty variant: it answers whether it has or not.
CancelledAlways(r) == <<Done(FALSE)>>
\* Faulty variant: it never does.
CancelledSilent(r) == <<>>
\* What sm_shutdown_cancelled answers.
CancelledAnswer(r) == IF r.answered THEN <<>> ELSE <<Done(FALSE)>>
\* sm_shutdown_cancelled
ShutdownCancelled ==
    /\ Hears("ShutdownCancelled") /\ Heard
    /\ toMgr' = toMgr \o CancelledAnswer(ion)
    /\ ion' = [ion EXCEPT !.fn = None, !.answered = TRUE, !.wish = None]
    /\ UNCHANGED <<layout, mgr>>

\* sm_save_complete
SaveComplete ==
    /\ Hears("SaveComplete")
    /\ IF ion.fn = None THEN Heard /\ UNCHANGED <<layout, ion, mgr, toMgr>>
       ELSE Leave(layout)
\* sm_die
Die == Hears("Die") /\ Leave(layout)

\* The connection is lost: mod_sm_close, if libICE returns from its error
\* handler, which usually exits.
LoseConnection(exits) ==
    /\ ion.up /\ ion.conn /\ Does
    /\ IF exits THEN Leave(layout)
       ELSE /\ ion' = [ion EXCEPT !.conn = FALSE]
            /\ mgr' = Idle /\ toMgr' = <<>> /\ toIon' = <<>>
            /\ UNCHANGED layout

Hear ==
    \/ \E asked \in BOOLEAN : SaveYourself(asked)
    \/ \E how \in Hows : SaveYourselfPhase2(how)
    \/ ShutdownCancelled \/ SaveComplete \/ Die

-----------------------------------------------------------------------------
(* The session manager: it keeps requests until it has done with another,   *)
(* and saves or cancels also when nobody asked.                             *)

Says(m) == toIon' = Append(toIon, m)
MgrRead ==
    LET m == Head(toMgr)
    IN /\ ion.conn /\ toMgr # <<>>
       /\ toMgr' = Tail(toMgr)
       /\ mgr' = CASE m.kind = "Request" ->
                         [mgr EXCEPT !.queue = @ \cup {m.shutdown}]
                   [] m.kind = "RequestPhase2" ->
                         [mgr EXCEPT !.state = IF mgr.cancelled THEN @
                                               ELSE "willing"]
                   [] m.kind = "Properties" -> [mgr EXCEPT !.hint = m.hint]
                   [] m.kind = "Done" -> [mgr EXCEPT !.state = "done"]
       /\ UNCHANGED <<layout, ion, toIon, acts>>

MgrBegin(shutdown) ==
    /\ mgr' = [mgr EXCEPT !.state = "asked", !.shutdown = shutdown,
                          !.queue = @ \ {shutdown}]
    /\ Says("SaveYourself") /\ UNCHANGED <<layout, ion, toMgr>>
MgrServe(shutdown) ==
    /\ ion.conn /\ mgr.state = "idle" /\ shutdown \in mgr.queue
    /\ MgrBegin(shutdown) /\ UNCHANGED acts
MgrCheckpoint(shutdown) ==
    ion.conn /\ mgr.state = "idle" /\ Does /\ MgrBegin(shutdown)
\* The other clients have done.
MgrPhase2 ==
    /\ mgr.state = "willing" /\ ~mgr.cancelled
    /\ mgr' = [mgr EXCEPT !.state = "phase2"]
    /\ Says("SaveYourselfPhase2") /\ UNCHANGED <<layout, ion, toMgr, acts>>
MgrCancel ==
    /\ mgr.shutdown /\ mgr.state # "idle" /\ ~mgr.cancelled /\ Does
    /\ mgr' = [mgr EXCEPT !.cancelled = TRUE]
    /\ Says("ShutdownCancelled") /\ UNCHANGED <<layout, ion, toMgr>>
MgrEnd ==
    LET idle == [Idle EXCEPT !.queue = mgr.queue, !.hint = mgr.hint]
    IN /\ mgr.state = "done"
       /\ mgr' = IF mgr.shutdown /\ ~mgr.cancelled
                 THEN [mgr EXCEPT !.state = "over"] ELSE idle
       /\ IF mgr.cancelled THEN UNCHANGED toIon
          ELSE Says(IF mgr.shutdown THEN "Die" ELSE "SaveComplete")
       /\ UNCHANGED <<layout, ion, toMgr, acts>>

Manager ==
    \/ MgrRead \/ MgrPhase2 \/ MgrEnd
    \/ \E shutdown \in BOOLEAN : MgrServe(shutdown)

SessionNext ==
    \/ \E what \in Wishes :
        \/ AskSM(what)
        \/ \E how \in Hows : AskAlone(what, how)
    \/ AskNobody \/ Resign \/ StartIon \/ LogOut
    \/ \E x \in Windows :
        \/ Appear(x) \/ Close(x)
        \/ \E p \in Places : Move(x, p)
    \/ \E S \in SUBSET Windows : Configure(S)
    \/ \E exits \in BOOLEAN : LoseConnection(exits)
    \/ Hear
    \/ Manager
    \/ \E shutdown \in BOOLEAN : MgrCheckpoint(shutdown)
    \/ MgrCancel

\* Messages are read by the main loop; a session manager goes on with what
\* it began.
SessionSpec ==
    /\ SessionInit /\ [][SessionNext]_sessionVars
    /\ WF_sessionVars(Hear) /\ WF_sessionVars(Manager)

-----------------------------------------------------------------------------
(* Properties. *)

\* The fields have their types; only a process that runs has a connection,
\* and only on one are there messages, or a session manager that does
\* something.
Messages ==
    [kind : {"Request"}, shutdown : BOOLEAN] \cup [kind : {"RequestPhase2"}]
    \cup [kind : {"Properties"}, hint : {"immediately", "ifRunning"}]
    \cup [kind : {"Done"}, ok : BOOLEAN]
SessionTypeOK ==
    /\ ion \in [up : BOOLEAN, smhook : BOOLEAN, conn : BOOLEAN,
                fn : {None, "exit", "restart"}, answered : BOOLEAN,
                hint : {"immediately", "ifRunning"},
                wish : {None} \cup Wishes, since : BOOLEAN]
    /\ mgr \in [state : {"idle", "asked", "willing", "phase2", "done", "over"},
                shutdown : BOOLEAN, cancelled : BOOLEAN,
                queue : SUBSET BOOLEAN,
                hint : {None, "immediately", "ifRunning"}]
    /\ toMgr \in Seq(Messages)
    /\ toIon \in Seq({"SaveYourself", "SaveYourselfPhase2",
                      "ShutdownCancelled", "SaveComplete", "Die"})
    /\ ion.conn => ion.up /\ ion.smhook
    /\ ~ion.conn => toMgr = <<>> /\ toIon = <<>> /\ mgr.state = "idle"

\* Windows that are managed exist, and only a process that runs has windows
\* or matches for them.
LayoutKept ==
    /\ layout.at \in [Windows -> Places \cup {None}]
    /\ layout.code \in [Windows -> Nat] /\ layout.next \in Nat \ {0}
    /\ layout.file \in [Windows -> [place : Places \cup {None}, code : Nat]]
    /\ Managed(layout) \subseteq layout.there
    /\ \A i \in DOMAIN layout.matches : layout.matches[i].place \in Places
    /\ ~ion.up => Managed(layout) = {} /\ layout.matches = <<>>

\* Each SaveYourself is answered by one SaveYourselfDone, whether the second
\* phase is asked for, comes or fails, and whichever way the cancellation of
\* a shutdown meets the answer: while the session manager waits either there
\* is one answer on its way or one that is yet to be given, and otherwise
\* there is none (sent_save_done).
AnsweredOnce ==
    LET waits == mgr.state \in {"asked", "willing", "phase2"}
        asked == Cardinality({i \in DOMAIN toIon : toIon[i] = "SaveYourself"})
        given == Cardinality({i \in DOMAIN toMgr : toMgr[i].kind = "Done"})
    IN /\ SessionTypeOK
       /\ asked + given <= IF waits THEN 1 ELSE 0
       /\ waits /\ asked + given = 0 => ~ion.answered

\* What is done when a save is complete is what the user asked for last, and
\* was not cancelled since (save_complete_fn); and if the layout was saved
\* after that the session manager has been told what to do with a window
\* manager that exits.
LeavesAsAsked ==
    [][SaveComplete /\ ion.fn # None =>
           /\ ion.wish = IF ion.fn = "exit" THEN "restart" ELSE "other"
           /\ ion.since => mgr.hint = Hook(ion.wish).hint]_sessionVars

\* A window that was managed when the layout was last written to the file,
\* and has neither been moved nor closed since, is where it was then,
\* whenever it is managed: after restarts, crashes and new X sessions, after
\* saves that could not open the file, and in whichever order the windows
\* come.  It is found by its code, unless it was given another since
\* (clientwin_get_configuration); under a session manager also by what it is
\* like, if no other window is like it (mod_sm_match_cwin_to_saved).
InPlace ==
    /\ LayoutKept
    /\ \A x \in Managed(layout) :
          /\ layout.file[x].place # None /\ x \notin layout.moved
          /\ x \notin layout.recoded \/ (ion.smhook /\ Alone(x))
          => layout.at[x] = layout.file[x].place

\* Nobody waits for ever: what was to be done on completion is done or
\* dropped, and a save that the session manager began ends, also when the
\* shutdown is cancelled in the middle.
Settles ==
    /\ (ion.fn # None /\ ion.conn) ~> (ion.fn = None \/ ~ion.conn)
    /\ (mgr.state # "idle") ~> (mgr.state = "idle")
=============================================================================
