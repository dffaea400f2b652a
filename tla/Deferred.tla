------------------------------- MODULE Deferred -------------------------------
(***************************************************************************)
(* Object destruction (libtu/obj.c) and deferred execution                 *)
(* (libmainloop/defer.c), with the caller that keeps a flag in step with   *)
(* its deferral (ioncore/regbind.c, region_update_owned_grabs).            *)
(*                                                                         *)
(* The program has one thread.  A step of this module is one call made by  *)
(* the code that runs, whatever handler that is: handlers call each other  *)
(* (a deferred action destroys a region, whose deinit routine destroys     *)
(* another and defers a third action), so the calls come in any order the  *)
(* guards of the callees let through.                                      *)
(*                                                                         *)
(* Data left out: classes (an object is an element of Objs and its address *)
(* is used again after free), the other kinds of watches (their handlers   *)
(* are part of "any call may come next"), the text of warnings.            *)
(***************************************************************************)
EXTENDS ObjWatches

CONSTANTS
    NDBuf,            \* N_DBUF: slots of the static buffer dbuf
    SizeofDeferred,   \* sizeof(WDeferred), in bytes
    HeapCells,        \* addresses ALLOC(WDeferred) may return; NULL beyond
    Nobody            \* the NULL object

Slots == 0 .. (NDBuf - 1)

ASSUME BufferAssumption ==
    /\ NDBuf \in Nat \ {0}
    /\ SizeofDeferred \in Nat
    /\ SizeofDeferred >= NDBuf
    /\ HeapCells \cap Slots = {}
    /\ Cells = Slots \cup HeapCells
    /\ Nobody \notin Objs

\* The deferred actions told apart: destroy_obj (mainloop_defer_destroy),
\* region_do_update_owned_grabs, region_rqdispose and its like (wedln_do_finish,
\* menu_do_finish, screen-notify's updates), call_submap_ungrab_hook, which has
\* no object, and a Lua function.
ObjActions == {"destroy", "update_owned_grabs", "rqdispose"}
NullActions == {"submap_ungrab_hook", "extl"}

Actions == ObjActions \cup NullActions
Entries == [obj: Objs \cup {Nobody}, action: Actions \cup {"none"}]
Entry(o, a) == [obj |-> o, action |-> a]
NoEntry == [obj |-> Nobody, action |-> "none"]

VARIABLES
    deferred,   \* the list of pending WDeferreds
    entry,      \* what a WDeferred says: its object and action
    used,       \* dbuf_used, as the set of bits that are set
    heap,       \* WDeferreds allocated and not freed
    scheduled,  \* objects with flag REGION_BINDING_UPDATE_SCHEDULED
    current,    \* the deferred action that runs, or NoEntry
    loop,       \* where ioncore_mainloop is
    opmode      \* ioncore_g.opmode

vars == <<state, stack, watches, deferred, entry, used, heap, scheduled,
          current, loop, opmode>>
listvars == <<deferred, entry, used, heap>>

Init ==
    /\ ObjInit
    /\ deferred = <<>>
    /\ entry = [c \in Cells |-> NoEntry]
    /\ used = {}
    /\ heap = {}
    /\ scheduled = {}
    /\ current = NoEntry
    /\ loop = "handlers"
    /\ opmode = "normal"

-----------------------------------------------------------------------------
(* alloc_defer and free_defer.                                             *)

\* Faulty variant: the test as its author meant it, with free_defer unchanged.
SlotIsFreeByBit(i) == i \notin used

\* !dbuf_used&(1<<i) is (!dbuf_used)&(1<<i): 1 & (1<<i) if no bit is set, and
\* 0 & (1<<i) otherwise.
SlotIsFree(i) == used = {} /\ i = 0

FreeSlots == {i \in Slots : SlotIsFree(i)}

\* The cells alloc_defer may return: the first free slot, else heap memory.
Allocatable ==
    IF FreeSlots # {}
    THEN {CHOOSE i \in FreeSlots : \A j \in FreeSlots : i <= j}
    ELSE HeapCells \ heap

MarkAllocated(c) ==
    /\ used' = IF c \in Slots THEN used \cup {c} ELSE used
    /\ heap' = IF c \in Slots THEN heap ELSE heap \cup {c}

\* dbuf_used&=~1<<k clears the bits 0..k, for k=(d-dbuf)/sizeof(WDeferred).
ClearedBits(d) == 0 .. (d \div SizeofDeferred)

FreeDefer(d) ==
    /\ used' = IF d \in Slots THEN used \ ClearedBits(d) ELSE used
    /\ heap' = IF d \in Slots THEN heap ELSE heap \ {d}

-----------------------------------------------------------------------------
(* Deferring.                                                              *)

OnList == ToSet(deferred)
AlreadyDeferred(e) == \E d \in OnList : entry[d] = e

\* Faulty variant of Link: no watch is set.
LinkUnwatched(e) ==
    \E c \in Allocatable :
        /\ MarkAllocated(c)
        /\ deferred' = Append(deferred, c)
        /\ entry' = [entry EXCEPT ![c] = e]
        /\ UNCHANGED watches

\* Link a new WDeferred for e; a watch on its object keeps it honest.
Link(e) ==
    \E c \in Allocatable :
        /\ MarkAllocated(c)
        /\ deferred' = Append(deferred, c)
        /\ IF e.obj \in Objs /\ WatchAccepted(e.obj)
           THEN /\ entry' = [entry EXCEPT ![c] = e]
                /\ watches' = WatchSetup(e.obj, c)
           ELSE /\ entry' = [entry EXCEPT ![c] = Entry(Nobody, e.action)]
                /\ UNCHANGED watches

\* mainloop_defer_action, with its result: the list changes when the entry is
\* neither pending nor out of memory.
DeferResult(e) == AlreadyDeferred(e) \/ Allocatable # {}
DeferEffect(e) ==
    IF AlreadyDeferred(e) \/ Allocatable = {}
    THEN UNCHANGED <<listvars, watches>>
    ELSE Link(e)

\* mainloop_defer_destroy
DeferDestroy(o) ==
    /\ state[o] = "live"
    /\ DeferEffect(Entry(o, "destroy"))
    /\ UNCHANGED <<state, stack, scheduled, current, loop, opmode>>

\* region_defer_rqdispose and the other direct callers, which hold an object
\* that is not being destroyed.
DeferAction(o) ==
    /\ state[o] = "live"
    /\ DeferEffect(Entry(o, "rqdispose"))
    /\ UNCHANGED <<state, stack, scheduled, current, loop, opmode>>

\* ioncore_submap's ungrab hook
DeferNull ==
    /\ DeferEffect(Entry(Nobody, "submap_ungrab_hook"))
    /\ UNCHANGED <<state, stack, scheduled, current, loop, opmode>>

\* mainloop_defer_extl: equal functions are not merged.
DeferExtl ==
    /\ Allocatable # {}
    /\ Link(Entry(Nobody, "extl"))
    /\ UNCHANGED <<state, stack, scheduled, current, loop, opmode>>

\* Faulty variant: the flag is set whether or not the deferral succeeded.
UpdateOwnedGrabsUnchecked(o) ==
    /\ o \notin scheduled
    /\ state[o] = "live"
    /\ opmode # "deinit"
    /\ DeferEffect(Entry(o, "update_owned_grabs"))
    /\ scheduled' = scheduled \cup {o}
    /\ UNCHANGED <<state, stack, current, loop, opmode>>

\* region_update_owned_grabs; without memory the update is made at once, and
\* that update clears the flag, which is clear already.
UpdateOwnedGrabs(o) ==
    LET e == Entry(o, "update_owned_grabs") IN
    /\ o \notin scheduled
    /\ state[o] = "live"
    /\ opmode # "deinit"
    /\ DeferEffect(e)
    /\ scheduled' = IF DeferResult(e) THEN scheduled \cup {o} ELSE scheduled
    /\ UNCHANGED <<state, stack, current, loop, opmode>>

-----------------------------------------------------------------------------
(* Objects: creation, and destroy_obj in the steps its callbacks see.      *)

\* OBJ_INIT at an address that is free.
Create(o) ==
    /\ CreateObj(o)
    /\ scheduled' = scheduled \ {o}
    /\ UNCHANGED <<listvars, current, loop, opmode>>

DestroyBegin(o) ==
    /\ BeginDestroy(o)
    /\ UNCHANGED <<watches, listvars, scheduled, current, loop, opmode>>

\* Faulty variant: the walk over the watches stops at the first.
WatchesCutShort(o) ==
    /\ RunsWatches(o)
    /\ stack' = [stack EXCEPT ![Len(stack)].phase = "deinit"]
    /\ UNCHANGED <<state, watches, listvars, scheduled, current, loop, opmode>>

\* One round of do_watches(obj, TRUE): the watch is reset and its handler,
\* defer_watch_handler, takes the deferral off its list and frees it.
CancelDeferral(o) ==
    /\ RunsWatches(o)
    /\ watches[o] # <<>>
    /\ LET d == Head(watches[o]) IN
        /\ watches' = WatchReset(o, d)
        /\ deferred' = Unlink(deferred, d)
        /\ entry' = [entry EXCEPT ![d].obj = Nobody]
        /\ FreeDefer(d)
    /\ UNCHANGED <<state, stack, scheduled, current, loop, opmode>>

WatchesDone(o) ==
    /\ EndWatches(o)
    /\ UNCHANGED <<state, watches, listvars, scheduled, current, loop, opmode>>

\* After destroy_fn: do_watches(obj, FALSE) and free.
DestroyEnd(o) ==
    /\ EndDestroy(o)
    /\ entry' = [c \in Cells |->
                    IF c \in ToSet(watches[o])
                    THEN [entry[c] EXCEPT !.obj = Nobody] ELSE entry[c]]
    /\ UNCHANGED <<deferred, used, heap, scheduled, current, loop, opmode>>

-----------------------------------------------------------------------------
(* The main loop.                                                          *)

\* A handler has returned: mainloop_execute_deferred is called.
EnterExecute ==
    /\ loop = "handlers" /\ stack = <<>> /\ opmode = "normal"
    /\ loop' = "execute"
    /\ UNCHANGED <<state, stack, watches, listvars, scheduled, current, opmode>>

\* Faulty variant: the last WDeferred is taken first.
ExecuteLast ==
    /\ loop = "execute" /\ current = NoEntry /\ deferred # <<>>
    /\ opmode = "normal"
    /\ LET d == Last(deferred)
           e == entry[d] IN
        /\ deferred' = Front(deferred)
        /\ watches' = IF e.obj \in Objs THEN WatchReset(e.obj, d) ELSE watches
        /\ entry' = [entry EXCEPT ![d].obj = Nobody]
        /\ FreeDefer(d)
        /\ current' = e
        /\ scheduled' = IF e.action = "update_owned_grabs"
                        THEN scheduled \ {e.obj} ELSE scheduled
        /\ IF e.action = "destroy" /\ e.obj \in Objs
           THEN StartDestroy(e.obj) ELSE UNCHANGED <<state, stack>>
    /\ UNCHANGED <<loop, opmode>>

\* One round of the loop of mainloop_execute_deferred_on_list: the first
\* WDeferred is unlinked, unwatched and freed, and its action starts.
ExecuteNext ==
    /\ loop = "execute" /\ current = NoEntry /\ deferred # <<>>
    /\ opmode = "normal"
    /\ LET d == Head(deferred)
           e == entry[d] IN
        /\ deferred' = Tail(deferred)
        /\ watches' = IF e.obj \in Objs THEN WatchReset(e.obj, d) ELSE watches
        /\ entry' = [entry EXCEPT ![d].obj = Nobody]
        /\ FreeDefer(d)
        /\ current' = e
        /\ scheduled' = IF e.action = "update_owned_grabs"
                        THEN scheduled \ {e.obj} ELSE scheduled
        /\ IF e.action = "destroy" /\ e.obj \in Objs
           THEN StartDestroy(e.obj) ELSE UNCHANGED <<state, stack>>
    /\ UNCHANGED <<loop, opmode>>

ActionReturns ==
    /\ current # NoEntry /\ stack = <<>> /\ opmode = "normal"
    /\ current' = NoEntry
    /\ UNCHANGED <<state, stack, watches, listvars, scheduled, loop, opmode>>

ExecuteDone ==
    /\ loop = "execute" /\ current = NoEntry /\ deferred = <<>>
    /\ opmode = "normal"
    /\ loop' = "handlers"
    /\ UNCHANGED <<state, stack, watches, listvars, scheduled, current, opmode>>

\* ioncore_deinit, from a signal or a Lua call: objects are destroyed, but the
\* main loop is not entered again.
EnterDeinit ==
    /\ opmode = "normal"
    /\ opmode' = "deinit"
    /\ UNCHANGED <<state, stack, watches, listvars, scheduled, current, loop>>

Next ==
    \/ \E o \in Objs :
        \/ DeferDestroy(o) \/ DeferAction(o) \/ UpdateOwnedGrabs(o)
        \/ Create(o) \/ DestroyBegin(o) \/ CancelDeferral(o)
        \/ WatchesDone(o) \/ DestroyEnd(o)
    \/ DeferNull \/ DeferExtl
    \/ EnterExecute \/ ExecuteNext \/ ActionReturns \/ ExecuteDone
    \/ EnterDeinit

Spec == Init /\ [][Next]_vars

\* A handler makes finitely many calls, so it gets to its return whenever that
\* keeps coming within reach (SF); what the main loop does between handlers
\* nothing delays (WF).
Fairness ==
    /\ WF_vars(ExecuteNext) /\ WF_vars(ExecuteDone)
    /\ SF_vars(EnterExecute) /\ SF_vars(ActionReturns)
    /\ \A o \in Objs : /\ SF_vars(CancelDeferral(o))
                       /\ SF_vars(WatchesDone(o))
                       /\ SF_vars(DestroyEnd(o))
LiveSpec == Spec /\ Fairness

-----------------------------------------------------------------------------
(* What the checks are about.                                              *)

Pending(o, a) == AlreadyDeferred(Entry(o, a))

TypeOK ==
    /\ state \in [Objs -> {"live", "dest", "freed"}]
    /\ stack \in Seq(Frames)
    /\ watches \in [Objs -> Seq(Cells)]
    /\ deferred \in Seq(Cells)
    /\ entry \in [Cells -> Entries]
    /\ \A c \in OnList : entry[c].action \in Actions
    /\ used \subseteq Slots
    /\ heap \subseteq HeapCells
    /\ scheduled \subseteq Objs
    /\ current \in Entries
    /\ loop \in {"handlers", "execute"}
    /\ opmode \in {"normal", "deinit"}

\* The WDeferreds that are allocated are those on the list, each there once:
\* none leaks, none is freed while it is linked (alloc_defer, free_defer and
\* the two places that unlink, defer_watch_handler and the execution loop).
CellsAccounted == used \cup heap = OnList /\ IsInjective(deferred)

\* An action is pending at most once per object (already_deferred); Lua
\* functions are the exception.
NoDuplicates ==
    \A c, d \in OnList : entry[c] = entry[d] /\ entry[c].action # "extl" => c = d

\* A pending action with an object has that object's watch and the object is
\* not freed; and an object's watches are those of its pending actions
\* (watch_setup and the resets stay in step with the list).
TargetsWatched ==
    /\ \A c \in OnList : entry[c].action \in ObjActions =>
          /\ entry[c].obj \in Objs
          /\ state[entry[c].obj] # "freed"
          /\ c \in ToSet(watches[entry[c].obj])
    /\ \A o \in Objs : \A c \in ToSet(watches[o]) :
          c \in OnList /\ entry[c].obj = o

\* defer.c:187-189: an action that was deferred for an object is not run after
\* the object's destruction (it would be run on NULL).
NeverRunOnNobody == current.action \in ObjActions => current.obj \in Objs

\* When the deinit routine of an object runs nothing is pending for it, and
\* nothing gets pending: what it frees no deferred action will see.
DeinitUnobserved ==
    \A i \in 1 .. Len(stack) : stack[i].phase = "deinit" =>
        \A c \in OnList : entry[c].obj # stack[i].obj

\* What is pending for an object is watched by it and pends for the living:
\* whenever an object is destroyed, from a deferred action or anywhere else,
\* its actions go before its deinit routine runs (defer_watch_handler).
PendingForLiving == TargetsWatched /\ DeinitUnobserved

\* REGION_BINDING_UPDATE_SCHEDULED is set exactly while an update is pending:
\* if it stayed set with none pending, the grabs would never be updated again
\* (region_update_owned_grabs, region_do_update_owned_grabs).
FlagMeansPending ==
    \A o \in Objs : state[o] = "live" =>
        (o \in scheduled <=> Pending(o, "update_owned_grabs"))

(* What makes the invariants inductive. *)

\* The objects that are being destroyed are those destroy_obj works on.
StackMatchesState ==
    /\ \A o \in Objs :
        state[o] = "dest" <=> \E i \in DOMAIN stack : stack[i].obj = o
    /\ \A i, j \in DOMAIN stack : stack[i].obj = stack[j].obj => i = j

\* Watches are linked once, and are gone before the deinit routine runs.
WatchesInOrder ==
    /\ \A o \in Objs : /\ IsInjective(watches[o])
                       /\ state[o] = "freed" => watches[o] = <<>>
    /\ \A i \in DOMAIN stack :
        stack[i].phase = "deinit" => watches[stack[i].obj] = <<>>

\* Only the first slot of the buffer is ever taken; actions that take no
\* object are listed without one.
ListInOrder ==
    /\ used \subseteq {0}
    /\ \A c \in OnList : entry[c].action \in NullActions => entry[c].obj = Nobody

IInv ==
    /\ TypeOK /\ CellsAccounted /\ NoDuplicates /\ TargetsWatched
    /\ NeverRunOnNobody /\ FlagMeansPending
    /\ StackMatchesState /\ WatchesInOrder /\ ListInOrder

\* What is deferred is run, or cancelled with its object, as long as the main
\* loop is there: actions that defer more actions do not starve it.
PendingSettles ==
    \A o \in Objs, a \in ObjActions :
        Pending(o, a) ~> (~Pending(o, a) \/ opmode = "deinit")

\* defer.c:39-42: "we use a small buffer that should be able to contain the
\* small expected number of simultaneous deferred actions": memory is taken
\* from the heap only when the buffer is full.
HeapWhenBufferFull == [][(heap \subseteq heap' /\ heap # heap') => used = Slots]_vars
=============================================================================
