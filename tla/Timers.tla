-------------------------------- MODULE Timers --------------------------------
(***************************************************************************)
(* Timers and signals (libmainloop/signal.c), the wait of the main loop    *)
(* (libmainloop/select.c) and the loop around them (ioncore/event.c).      *)
(*                                                                         *)
(* The actors are the program, whose place in the loop is pc, the signals, *)
(* whose handlers run between any two of its steps and only set flags, the *)
(* interval timer and the clock.  At the places in Calling the program     *)
(* runs hooks and handlers, which may call the functions of WTimer in any  *)
(* order.                                                                  *)
(*                                                                         *)
(* Data left out: the handlers and their objects (the watch of an object   *)
(* that goes clears it: see ObjWatches), the descriptors (any may be       *)
(* readable) and X events.                                                 *)
(***************************************************************************)
EXTENDS TimeVals, SequencesExt, FiniteSetsExt

CONSTANTS
    WTimers,         \* addresses of timers
    Msecs,           \* what timer_set is called with
    KillSigs,        \* signals that end the program: "TERM", "USR1", "HUP"...
    Builds,          \* {TRUE}: _POSIX_SELECT is defined, {FALSE}: it is not
    SessionManager,  \* mod_sm has set smhook
    Start,           \* the clock when the program starts
    MaxUsecs,        \* bound: the last moment of the clock, in microseconds
    MaxChildren      \* bound: children that die

ASSUME TimersAssumption ==
    /\ Msecs \subseteq Nat
    /\ Builds \subseteq BOOLEAN /\ Builds # {} /\ SessionManager \in BOOLEAN
    /\ Start \in TimeVal /\ MaxUsecs \in Nat /\ MaxChildren \in Nat
    /\ KillSigs \cap {"CHLD", "USR2", "ALRM", "none"} = {}

Off == -1   \* an interval timer or a timeout that is not set

\* special_sigs: what mainloop_select blocks.  SIGUSR1 and the signals of
\* deadly_signal_handler are not among them.
SpecialSigs == {"ALRM", "CHLD", "USR2", "TERM"}

\* A timer that is set: its time and (not in the code) the time asked for.
\* Of one that is not set no field is read again.
SetTimers == [timer: WTimers, when: TimeVal, due: Nat]

VARIABLES
    pselect,  \* how the program was built; never changes
    clock,    \* what mainloop_gettime returns
    live,     \* timers that exist
    queue,    \* the timers that are set
    had_tmr, usr2_sig, wait_sig, kill_sig,   \* set by signal handlers
    pending,  \* signals raised while they are blocked
    alarm,    \* when ITIMER_REAL expires, in microseconds, or Off
    children, \* those that are alive
    zombies,  \* dead children to be waited for
    pc,       \* where the program is
    modal,    \* it is inside ioncore_get_event
    now,      \* current_time while mainloop_check_signals runs timers
    timeout   \* tv of mainloop_select as a length, later as a moment, or Off

queuevars == <<live, queue>>
flagvars == <<usr2_sig, wait_sig, kill_sig, pending>>
worldvars == <<pselect, clock, alarm, children, zombies>>
localvars == <<modal, now, timeout>>
timersVars == <<queuevars, had_tmr, flagvars, worldvars, localvars, pc>>

Zero == [sec |-> 0, usec |-> 0]

TimersInit ==
    /\ pselect \in Builds
    /\ clock = Start
    /\ live = {} /\ queue = <<>>
    /\ had_tmr = FALSE /\ usr2_sig = FALSE /\ wait_sig = FALSE
    /\ kill_sig = "none" /\ pending = {}
    /\ alarm = Off /\ children = MaxChildren /\ zombies = 0
    /\ pc = "usr2" /\ modal = FALSE
    /\ now = Zero /\ timeout = Off

\* mainloop_unhandled_signals.
Unhandled == usr2_sig \/ wait_sig \/ kill_sig # "none" \/ had_tmr

(***************************** The timer queue *****************************)

Set(t) == \E i \in DOMAIN queue : queue[i].timer = t

\* libmainloop_get_timeout of queue q: the time that is left, or Off, and
\* had_tmr set when the head is due.
GetTimeout(q, had) ==
    IF q = <<>> THEN [left |-> Off, had |-> had]
    ELSE IF Later(Head(q).when, clock)
         THEN [left |-> Usecs(Difference(Head(q).when, clock)), had |-> had]
         ELSE [left |-> Off, had |-> TRUE]

\* setitimer: zero disarms.
Expiry(left) == IF left = 0 THEN Off ELSE Usecs(clock) + left

\* do_timer_set: the new had_tmr and alarm.  When a due head sets had_tmr the
\* alarm is left as it is.
DoTimerSet(q, had, al) ==
    LET tm == GetTimeout(q, had) IN
    [had |-> tm.had,
     alarm |-> IF tm.left # Off THEN Expiry(tm.left)
               ELSE IF tm.had THEN al ELSE Off]


\* timer_do_set: before the first timer that is later.
Enqueue(q, e) ==
    LET later == {i \in DOMAIN q : Later(q[i].when, e.when)} IN
    InsertAt(q, IF later = {} THEN Len(q) + 1 ELSE Min(later), e)

\* timer_reset's effect on the queue and, when the timer was in it, the alarm.
Without(t) ==
    IF Set(t) THEN RemoveAt(queue, CHOOSE i \in DOMAIN queue :
                                       queue[i].timer = t)
    ELSE queue
AfterReset(t) ==
    IF Set(t) THEN DoTimerSet(Without(t), had_tmr, alarm)
    ELSE [had |-> had_tmr, alarm |-> alarm]

(************************ What hooks and handlers do ***********************)

Calling == pc \in {"usr2hook", "reaphook", "callback", "work", "fdhook"}

CreateTimer(t) ==
    /\ Calling /\ t \notin live
    /\ live' = live \cup {t}
    /\ UNCHANGED <<flagvars, worldvars, localvars, had_tmr, queue, pc>>

\* timer_do_set.
SetTimer(t, msecs) ==
    /\ Calling /\ t \in live
    /\ Usecs(clock) + msecs * UsecsInMsec < MaxUsecs
    /\ LET reset == AfterReset(t)
           e == [timer |-> t, when |-> AddMsecs(clock, msecs),
                 due |-> Usecs(clock) + msecs * UsecsInMsec]
           q == Enqueue(Without(t), e)
           set == DoTimerSet(q, reset.had, reset.alarm)
       IN /\ queue' = q
          /\ had_tmr' = set.had /\ alarm' = set.alarm
    /\ UNCHANGED <<flagvars, localvars, pselect, clock, children, zombies,
                   live, pc>>

\* timer_reset.
ResetTimer(t) ==
    /\ Calling /\ t \in live
    /\ queue' = Without(t)
    /\ had_tmr' = AfterReset(t).had /\ alarm' = AfterReset(t).alarm
    /\ UNCHANGED <<flagvars, localvars, pselect, clock, children, zombies,
                   live, pc>>

\* Faulty variant: timer_deinit leaves the timer in the queue.
DestroySet(t) ==
    /\ Calling /\ t \in live
    /\ live' = live \ {t}
    /\ UNCHANGED <<flagvars, worldvars, localvars, had_tmr, queue, pc>>

\* timer_deinit, also of the timer whose handler runs (reset_resize_timer).
DestroyTimer(t) ==
    /\ Calling /\ t \in live
    /\ live' = live \ {t}
    /\ queue' = Without(t)
    /\ had_tmr' = AfterReset(t).had /\ alarm' = AfterReset(t).alarm
    /\ UNCHANGED <<flagvars, localvars, pselect, clock, children, zombies, pc>>

(************************* The loop around the calls ************************)

\* From one place to the next.
Goes(from, to) == pc = from /\ pc' = to

\* mainloop_check_signals: the SIGUSR2 hook ...
CheckUsr2 ==
    /\ \/ usr2_sig /\ Goes("usr2", "usr2hook")
       \/ ~usr2_sig /\ Goes("usr2", "chld")
    /\ usr2_sig' = FALSE /\ timeout' = Off
    /\ UNCHANGED <<queuevars, worldvars, had_tmr, wait_sig, kill_sig, pending,
                   modal, now>>

\* ... the children ...
CheckChld ==
    /\ \/ wait_sig /\ Goes("chld", "reap")
       \/ ~wait_sig /\ Goes("chld", "kill")
    /\ wait_sig' = FALSE
    /\ UNCHANGED <<queuevars, worldvars, localvars, had_tmr, usr2_sig,
                   kill_sig, pending>>

\* Faulty variant: one waitpid for one signal.
ReapOne ==
    /\ \/ zombies > 0 /\ zombies' = zombies - 1 /\ Goes("reap", "kill")
       \/ zombies = 0 /\ zombies' = 0 /\ Goes("reap", "kill")
    /\ UNCHANGED <<queuevars, flagvars, localvars, had_tmr, pselect, clock,
                   alarm, children>>

\* waitpid until there is none left, with mainloop_sigchld_hook for each.
Reap ==
    /\ \/ zombies > 0 /\ zombies' = zombies - 1 /\ Goes("reap", "reaphook")
       \/ zombies = 0 /\ zombies' = 0 /\ Goes("reap", "kill")
    /\ UNCHANGED <<queuevars, flagvars, localvars, had_tmr, pselect, clock,
                   alarm, children>>

\* ... kill_sig, which check_signals of event.c takes: SIGTERM resigns, also
\* under a session manager, SIGUSR1 restarts, which a session manager is left
\* to do, and comes to assert(0); others deinit and die.
CheckKill ==
    /\ \/ kill_sig = "none" /\ Goes("kill", "timers")
       \/ kill_sig = "USR1" /\ SessionManager /\ Goes("kill", "aborted")
       \/ /\ kill_sig # "none" /\ (kill_sig = "USR1" => ~SessionManager)
          /\ Goes("kill", "dead")
    /\ UNCHANGED <<queuevars, flagvars, worldvars, localvars, had_tmr>>

\* check_signals returns to the main loop or to ioncore_get_event.
CallerPlace == IF modal THEN "getevent" ELSE "work"

\* while(had_tmr): signals that come from now on make another round.
CheckTimers ==
    /\ \/ ~had_tmr /\ Goes("timers", CallerPlace) /\ now' = now
       \/ had_tmr /\ queue = <<>> /\ Goes("timers", CallerPlace) /\ now' = now
       \/ had_tmr /\ queue # <<>> /\ Goes("timers", "expire") /\ now' = clock
    /\ had_tmr' = FALSE
    /\ UNCHANGED <<queuevars, flagvars, worldvars, modal, timeout>>

\* Faulty variant: the head's time is not looked at.
ExpireAny ==
    /\ queue # <<>> /\ Goes("expire", "callback")
    /\ queue' = Tail(queue)
    /\ UNCHANGED <<flagvars, worldvars, localvars, had_tmr, live>>

\* A timer whose time has passed leaves the queue and its handler is called ...
Expire ==
    /\ queue # <<>> /\ Later(now, Head(queue).when)
    /\ Goes("expire", "callback")
    /\ queue' = Tail(queue)
    /\ UNCHANGED <<flagvars, worldvars, localvars, had_tmr, live>>

\* Faulty variant: the alarm is not set for those that are left.
ExpiredAllUnarmed ==
    /\ queue # <<>> => ~Later(now, Head(queue).when)
    /\ Goes("expire", "timers") /\ now' = Zero
    /\ UNCHANGED <<queuevars, flagvars, worldvars, had_tmr, modal, timeout>>

\* ... until none is due: do_timer_set.
ExpiredAll ==
    /\ queue # <<>> => ~Later(now, Head(queue).when)
    /\ Goes("expire", "timers") /\ now' = Zero
    /\ LET set == DoTimerSet(queue, had_tmr, alarm) IN
       had_tmr' = set.had /\ alarm' = set.alarm
    /\ UNCHANGED <<queuevars, flagvars, pselect, clock, children, zombies,
                   modal, timeout>>

\* A hook, a handler or a callback returns.
Return ==
    /\ \/ Goes("usr2hook", "chld")
       \/ Goes("reaphook", "reap")
       \/ Goes("callback", "expire")
       \/ Goes("fdhook", "usr2")
    /\ UNCHANGED <<queuevars, flagvars, worldvars, localvars, had_tmr>>

\* The main loop after check_signals: deferred actions and an X event, if
\* there is one, and else mainloop_select.
FinishWork ==
    /\ Goes("work", "usr2") \/ Goes("work", "select")
    /\ UNCHANGED <<queuevars, flagvars, worldvars, localvars, had_tmr>>

\* ioncore_get_event, called in the handling of an event, checks signals too.
GetEvent ==
    /\ Goes("work", "usr2") /\ modal' = TRUE
    /\ UNCHANGED <<queuevars, flagvars, worldvars, had_tmr, now, timeout>>

\* It returns with an event, or waits for the connection alone.
GotEvent ==
    /\ Goes("getevent", "work") /\ modal' = FALSE
    /\ UNCHANGED <<queuevars, flagvars, worldvars, had_tmr, now, timeout>>
WaitEvent ==
    /\ Goes("getevent", "asleep") /\ timeout' = Off
    /\ UNCHANGED <<queuevars, flagvars, worldvars, had_tmr, modal, now>>

(****************************** mainloop_select *****************************)

\* With pselect() signals are blocked; without, the time to the next timer is
\* the timeout.
PrepareSelect ==
    /\ Goes("select", "blocked")
    /\ IF pselect
       THEN timeout' = Off /\ had_tmr' = had_tmr
       ELSE LET tm == GetTimeout(queue, had_tmr) IN
            timeout' = tm.left /\ had_tmr' = tm.had
    /\ UNCHANGED <<queuevars, flagvars, worldvars, modal, now>>

\* The flags once the handlers of the signals in sigs have run; exit_handler
\* forgets what it had.
Deliver(sigs) ==
    /\ had_tmr' = (had_tmr \/ "ALRM" \in sigs)
    /\ wait_sig' = (wait_sig \/ "CHLD" \in sigs)
    /\ usr2_sig' = (usr2_sig \/ "USR2" \in sigs)
    /\ \/ sigs \cap KillSigs = {} /\ kill_sig' = kill_sig
       \/ kill_sig' \in sigs \cap KillSigs

\* mainloop_unhandled_signals: back to the loop ...
SkipSelect ==
    /\ Unhandled /\ Goes("blocked", "usr2")
    /\ Deliver(pending) /\ pending' = {}
    /\ UNCHANGED <<queuevars, worldvars, localvars>>

\* ... or on to the system call.
EnterSelect ==
    /\ ~Unhandled /\ Goes("blocked", "entering")
    /\ UNCHANGED <<queuevars, flagvars, worldvars, localvars, had_tmr>>

\* The system call starts: pselect() lets the blocked signals in first.  (The
\* clock ends at MaxUsecs, and so must the timeout.)
Sleep ==
    /\ IF pending = {} THEN Goes("entering", "asleep")
       ELSE Goes("entering", "usr2")
    /\ Deliver(pending) /\ pending' = {}
    /\ timeout' = IF timeout = Off THEN Off
                  ELSE Min({Usecs(clock) + timeout, MaxUsecs})
    /\ UNCHANGED <<queuevars, worldvars, modal, now>>

\* It ends when the time has passed or a descriptor is readable.
TimedOut ==
    /\ timeout # Off /\ Usecs(clock) >= timeout
    /\ Goes("asleep", "usr2")
    /\ UNCHANGED <<queuevars, flagvars, worldvars, localvars, had_tmr>>
Readable ==
    /\ IF modal THEN Goes("asleep", "usr2") ELSE Goes("asleep", "fdhook")
    /\ UNCHANGED <<queuevars, flagvars, worldvars, localvars, had_tmr>>

(************************** Signals and the clock ***************************)

\* Faulty variant: nothing is blocked.
BlocksNone(s) == FALSE
Blocks(s) == pselect /\ pc \in {"blocked", "entering"} /\ s \in SpecialSigs

\* A signal is raised: its handler runs, and ends a select (EINTR), or it
\* waits until it is unblocked.
Raise(s) ==
    IF Blocks(s)
    THEN /\ pending' = pending \cup {s}
         /\ UNCHANGED <<had_tmr, usr2_sig, wait_sig, kill_sig, pc>>
    ELSE /\ Deliver({s})
         /\ pc' = IF pc = "asleep" THEN "usr2" ELSE pc
         /\ UNCHANGED pending

Alive == pc \notin {"dead", "aborted"}

Usr2 ==
    /\ Alive /\ Raise("USR2")
    /\ UNCHANGED <<queuevars, worldvars, localvars>>
ChildDies ==
    /\ Alive /\ children > 0
    /\ children' = children - 1 /\ zombies' = zombies + 1 /\ Raise("CHLD")
    /\ UNCHANGED <<queuevars, localvars, pselect, clock, alarm>>
Kill(s) ==
    /\ Alive /\ Raise(s)
    /\ UNCHANGED <<queuevars, worldvars, localvars>>
Alarm ==
    /\ Alive /\ alarm # Off /\ Usecs(clock) >= alarm
    /\ alarm' = Off /\ Raise("ALRM")
    /\ UNCHANGED <<queuevars, localvars, pselect, clock, children, zombies>>

Tick ==
    /\ Alive /\ Usecs(clock) < MaxUsecs
    /\ clock' = IF clock.usec + 1 = UsecsInSec
                THEN [sec |-> clock.sec + 1, usec |-> 0]
                ELSE [clock EXCEPT !.usec = @ + 1]
    /\ UNCHANGED <<queuevars, flagvars, localvars, had_tmr, pselect, alarm,
                   children, zombies, pc>>

Calls ==
    \E t \in WTimers :
        \/ CreateTimer(t) \/ ResetTimer(t) \/ DestroyTimer(t)
        \/ \E msecs \in Msecs : SetTimer(t, msecs)

Steps ==
    \/ CheckUsr2 \/ CheckChld \/ Reap \/ CheckKill \/ CheckTimers
    \/ Expire \/ ExpiredAll \/ Return \/ FinishWork \/ GotEvent \/ WaitEvent
    \/ PrepareSelect \/ SkipSelect \/ EnterSelect \/ Sleep \/ TimedOut

TimersNext ==
    \/ Calls \/ Steps \/ GetEvent \/ Readable
    \/ Usr2 \/ ChildDies \/ Alarm \/ Tick
    \/ \E s \in KillSigs : Kill(s)

TimersSpec == TimersInit /\ [][TimersNext]_timersVars

\* What the program does comes to an end or goes on; the clock runs and the
\* kernel delivers SIGALRM.  Nobody needs to send anything, and an event that
\* ioncore_get_event waits for comes (its callers asked for it).
LiveTimersSpec ==
    /\ TimersSpec
    /\ WF_timersVars(Steps) /\ WF_timersVars(Alarm) /\ WF_timersVars(Tick)
    /\ WF_timersVars(modal /\ Readable)

(******************************** Properties ********************************)

TimersTypeOK ==
    /\ clock \in TimeVal /\ now \in TimeVal
    /\ live \subseteq WTimers /\ queue \in Seq(SetTimers)
    /\ had_tmr \in BOOLEAN /\ usr2_sig \in BOOLEAN /\ wait_sig \in BOOLEAN
    /\ kill_sig \in KillSigs \cup {"none"}
    /\ pending \subseteq SpecialSigs
    /\ alarm \in Nat \cup {Off} /\ timeout \in Nat \cup {Off}
    /\ children \in 0 .. MaxChildren /\ zombies \in 0 .. MaxChildren
    /\ pc \in {"usr2", "usr2hook", "chld", "reap", "reaphook", "kill",
               "timers", "expire", "callback", "work", "getevent", "select",
               "blocked", "entering", "asleep", "fdhook", "dead", "aborted"}
    /\ modal \in BOOLEAN

\* The queue holds existing timers, each once, the earliest first, whatever
\* handlers set, reset and destroy while it is run through (timer_do_set).
QueueSorted ==
    /\ \A i \in DOMAIN queue : queue[i].timer \in live
    /\ \A i, j \in DOMAIN queue : i < j =>
           /\ queue[i].timer # queue[j].timer
           /\ ~Later(queue[i].when, queue[j].when)

\* The earliest timer is not forgotten: but while the queue is run through,
\* SIGALRM was or will be raised by the time it is due (do_timer_set).
Armed ==
    \/ queue = <<>> \/ had_tmr \/ "ALRM" \in pending
    \/ pc \in {"expire", "callback", "dead", "aborted"}
    \/ alarm # Off /\ alarm <= Usecs(Head(queue).when)

\* The queue and the alarm agree, whatever handlers do to them.
QueueArmed == TimersTypeOK /\ QueueSorted /\ Armed

\* When the main loop sleeps something wakes it for the earliest timer, also
\* when SIGALRM came just before select() (select.c:119).
TimersWake ==
    pc = "asleep" /\ ~modal /\ queue # <<>> =>
        timeout # Off \/ (~had_tmr /\ alarm # Off)

\* The handler of a timer is called after the time that was asked for, and
\* never before (mainloop_check_signals).
FiresOnTime ==
    [][Goes("expire", "callback") => Usecs(clock) > Head(queue).due]_timersVars

\* Signals of children are merged, and still no dead child is overlooked.
ZombiesNoticed ==
    zombies > 0 =>
        \/ wait_sig \/ "CHLD" \in pending
        \/ pc \in {"reap", "reaphook", "dead", "aborted"}

\* With pselect() the main loop does not sleep on a signal it has not handled
\* (select.c:126), unless it is one that is not blocked (signal.c:558).
SleepsUnsignalled ==
    pselect /\ pc = "asleep" /\ ~modal =>
        ~had_tmr /\ ~usr2_sig /\ ~wait_sig /\ kill_sig \notin SpecialSigs

\* The main loop sleeps through nothing, timers, children or signals, and the
\* alarm that is to wake it is set.
NothingSleptThrough ==
    QueueArmed /\ TimersWake /\ ZombiesNoticed /\ SleepsUnsignalled

\* A timer that is set is called, if it is not reset or the program ends.
TimersFire ==
    \A t \in WTimers : Set(t) ~> (~Set(t) \/ ~Alive)
===============================================================================
