------------------------------ MODULE ObjWatches ------------------------------
(***************************************************************************)
(* Objects and their watches (libtu/obj.c): what an owner of watches sees. *)
(* A watch is a cell of its owner (a WDeferred in Deferred), linked on the *)
(* object it watches until it is reset.                                    *)
(***************************************************************************)
EXTENDS Lists

CONSTANTS Objs, Cells

VARIABLES
    state,     \* of an object: live, dest (OBJ_DEST is set) or freed
    stack,     \* calls of destroy_obj under way, the innermost last
    watches    \* obj_watches of each object

\* A destroy_obj runs the watches first and then the deinit routine.
Frames == [obj: Objs, phase: {"watches", "deinit"}]

ObjInit ==
    /\ state = [o \in Objs |-> "freed"]
    /\ stack = <<>>
    /\ watches = [o \in Objs |-> <<>>]

\* watch_setup: refused when the object is being destroyed.
WatchAccepted(o) == state[o] = "live"
WatchSetup(o, c) == [watches EXCEPT ![o] = Append(@, c)]
WatchReset(o, c) == [watches EXCEPT ![o] = Unlink(@, c)]

CreateObj(o) ==
    /\ state[o] = "freed"
    /\ state' = [state EXCEPT ![o] = "live"]
    /\ watches' = [watches EXCEPT ![o] = <<>>]
    /\ UNCHANGED stack

\* destroy_obj up to its first watch: a second call returns at once.
StartDestroy(o) ==
    IF state[o] = "live"
    THEN /\ state' = [state EXCEPT ![o] = "dest"]
         /\ stack' = Append(stack, [obj |-> o, phase |-> "watches"])
    ELSE UNCHANGED <<state, stack>>

BeginDestroy(o) == state[o] = "live" /\ StartDestroy(o)

Innermost(o, phase) ==
    /\ stack # <<>>
    /\ Last(stack) = [obj |-> o, phase |-> phase]

RunsWatches(o) == Innermost(o, "watches")

\* The watches are exhausted: destroy_fn of the object's class is called.
EndWatches(o) ==
    /\ RunsWatches(o)
    /\ watches[o] = <<>>
    /\ stack' = [stack EXCEPT ![Len(stack)].phase = "deinit"]

\* Watches that are left are reset without their handlers; then free().
EndDestroy(o) ==
    /\ Innermost(o, "deinit")
    /\ stack' = Front(stack)
    /\ state' = [state EXCEPT ![o] = "freed"]
    /\ watches' = [watches EXCEPT ![o] = <<>>]
=============================================================================
