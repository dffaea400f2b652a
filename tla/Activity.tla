------------------------------- MODULE Activity -------------------------------
(***************************************************************************)
(* Who manages whom, and what managers inherit from what they manage:      *)
(* activity (ioncore/activity.c), which climbs to the managers as counts,  *)
(* and pseudoactivity (ioncore/region.c), the mark of a manager that has   *)
(* the input focus somewhere below but no window of its own there.         *)
(*                                                                         *)
(* The recursion along the managers is a variable, prop: a step at a time, *)
(* with nothing else in between, since the hooks it calls run in protected *)
(* mode and can only look.  destroy_obj calls nest; here those under way   *)
(* take their steps in any order.                                          *)
(***************************************************************************)
EXTENDS ObjList

CONSTANTS
    Regions,
    Windows,   \* managers that are the parents of what they manage (frames,
               \* screens); the others, groups and tilings, are not
    Roots,     \* root windows: never managed, and there until the end
    None,      \* no region
    MaxNodes   \* bound of the checked instance: nodes on the activity list

ASSUME RegionsAssumption ==
    /\ Dead \notin Regions /\ None \notin Regions
    /\ Roots \subseteq Windows /\ Windows \subseteq Regions
    /\ IsFiniteSet(Regions)
    /\ MaxNodes \in Nat

VARIABLES
    state,      \* of a region: live, dest (being destroyed) or freed
    manager,    \* REGION_MANAGER of each region
    act,        \* regions with REGION_ACTIVITY
    mgd,        \* mgd_activity of each region
    actlist,    \* the activity list
    prop,       \* the propagation under way: its direction and where it is
    detaching,  \* regions inside region_detach_manager
    active,     \* regions with REGION_ACTIVE
    pseudo      \* regions with REGION_PSEUDOACTIVE

activityVars ==
    <<state, manager, act, mgd, actlist, prop, detaching, active, pseudo>>

Idle == [dir |-> "none", at |-> None]

\* A propagation that has come to manager m: none is left if there is no m.
Propagate(dir, m) == IF m = None THEN Idle ELSE [dir |-> dir, at |-> m]

ActivityInit ==
    /\ state = [r \in Regions |-> "freed"]
    /\ manager = [r \in Regions |-> None]
    /\ act = {} /\ active = {} /\ pseudo = {} /\ detaching = {}
    /\ mgd = [r \in Regions |-> 0]
    /\ actlist = <<>>
    /\ prop = Idle

\* region_is_activity_r
ActivityR(r) == r \in act \/ mgd[r] # 0
Managed(m) == {r \in Regions : manager[r] = m}

\* A region and its managers, the nearest first.
Above[r \in Regions] ==
    {r} \cup (IF manager[r] = None THEN {} ELSE Above[manager[r]])

-----------------------------------------------------------------------------
(* Activity.                                                               *)

\* Faulty variant: an active region is marked, too.
SetActivityAlways(r) ==
    /\ prop = Idle
    /\ state[r] = "live" /\ r \notin act
    /\ r \in Roots \/ (manager[r] # None /\ r \notin detaching)
    /\ Len(actlist) < MaxNodes
    /\ act' = act \cup {r}
    /\ actlist' = ObjListInsertLast(actlist, r)
    /\ prop' = IF mgd[r] = 0 THEN Propagate("mark", manager[r]) ELSE Idle
    /\ UNCHANGED <<state, manager, mgd, detaching, active, pseudo>>

\* region_set_activity, when it sets the flag: not on an active region.  Its
\* callers come across a region without a manager only if it is a root window.
SetActivity(r) ==
    /\ prop = Idle
    /\ state[r] = "live" /\ r \notin act \cup active
    /\ r \in Roots \/ (manager[r] # None /\ r \notin detaching)
    /\ Len(actlist) < MaxNodes
    /\ act' = act \cup {r}
    /\ actlist' = ObjListInsertLast(actlist, r)
    /\ prop' = IF mgd[r] = 0 THEN Propagate("mark", manager[r]) ELSE Idle
    /\ UNCHANGED <<state, manager, mgd, detaching, active, pseudo>>

\* region_set_activity(r, SETPARAM_UNSET)
ClearFlag(r) ==
    IF r \in act
    THEN /\ act' = act \ {r}
         /\ actlist' = ObjListRemove(actlist, r)
         /\ prop' = IF mgd[r] = 0 THEN Propagate("clear", manager[r]) ELSE Idle
    ELSE UNCHANGED <<act, actlist, prop>>

UnsetActivity(r) ==
    /\ prop = Idle
    /\ state[r] # "freed" /\ r \in act
    /\ ClearFlag(r)
    /\ UNCHANGED <<state, manager, mgd, detaching, active, pseudo>>

\* region_mark_mgd_activity: on to the next manager if this one was unmarked.
MarkStep ==
    LET m == prop.at IN
    /\ prop.dir = "mark"
    /\ mgd' = [mgd EXCEPT ![m] = @ + 1]
    /\ prop' = IF ActivityR(m) THEN Idle ELSE Propagate("mark", manager[m])
    /\ UNCHANGED <<state, manager, act, actlist, detaching, active, pseudo>>

\* region_clear_mgd_activity: on to the next manager if this one is clear now.
ClearStep ==
    LET m == prop.at
        left == IF mgd[m] = 0 THEN 0 ELSE mgd[m] - 1 IN
    /\ prop.dir = "clear"
    /\ mgd' = [mgd EXCEPT ![m] = left]
    /\ prop' = IF m \in act \/ left # 0 THEN Idle
               ELSE Propagate("clear", manager[m])
    /\ UNCHANGED <<state, manager, act, actlist, detaching, active, pseudo>>

-----------------------------------------------------------------------------
(* Pseudoactivity: the managers whose flag a climb from r changes.         *)

\* region_set_manager_pseudoactivity, from a region that has focus.
ToMark[r \in Regions] ==
    LET m == manager[r] IN
    IF m = None \/ m \in Windows \/ m \in pseudo THEN {} ELSE {m} \cup ToMark[m]

\* region_unset_manager_pseudoactivity
ToUnmark[r \in Regions] ==
    LET m == manager[r] IN
    IF m = None \/ m \in Windows \/ m \notin pseudo THEN {} ELSE {m} \cup ToUnmark[m]

\* region_got_focus and region_lost_focus, as far as these flags go.
GotFocus(r) ==
    /\ prop = Idle
    /\ state[r] = "live"
    /\ r \notin active
    /\ ClearFlag(r)
    /\ active' = active \cup {r}
    /\ pseudo' = {m \in Regions : m \in pseudo \cup ToMark[r]}
    /\ UNCHANGED <<state, manager, mgd, detaching>>

LostFocus(r) ==
    /\ prop = Idle
    /\ r \in active /\ state[r] # "freed"
    /\ active' = active \ {r}
    /\ pseudo' = pseudo \ ToUnmark[r]
    /\ UNCHANGED <<state, manager, act, mgd, actlist, prop, detaching>>

-----------------------------------------------------------------------------
(* Managers.                                                               *)

\* region_set_manager, at the end of an attach routine; before it the region
\* was detached, and region_ancestor_check kept cycles out.
Attach(r, m) ==
    /\ prop = Idle
    /\ state[r] = "live" /\ state[m] = "live"
    /\ r \notin Roots /\ manager[r] = None /\ r \notin Above[m]
    /\ manager' = [manager EXCEPT ![r] = m]
    /\ pseudo' = IF r \in active \cup pseudo /\ m \notin Windows \cup pseudo
                 THEN {q \in Regions : q \in pseudo \cup {m} \cup ToMark[m]}
                 ELSE pseudo
    /\ prop' = IF ActivityR(r) THEN Propagate("mark", m) ELSE Idle
    /\ UNCHANGED <<state, act, mgd, actlist, detaching, active>>

\* region_detach_manager: first the region's own activity is unset, then the
\* manager's class drops it (region_managed_remove).
DetachBegin(r) ==
    /\ prop = Idle
    /\ manager[r] # None /\ r \notin detaching
    /\ ClearFlag(r)
    /\ detaching' = detaching \cup {r}
    /\ UNCHANGED <<state, manager, mgd, active, pseudo>>

\* Faulty variant: the managers keep the activity of what they managed.
UnsetManagerKeepingCount(r) ==
    /\ prop = Idle /\ r \in detaching
    /\ manager' = [manager EXCEPT ![r] = None]
    /\ detaching' = detaching \ {r}
    /\ pseudo' = pseudo \ ToUnmark[r]
    /\ UNCHANGED <<state, act, mgd, actlist, active, prop>>

\* region_unset_manager, in which region_managed_remove ends.
UnsetManager(r) ==
    /\ prop = Idle /\ r \in detaching
    /\ manager' = [manager EXCEPT ![r] = None]
    /\ detaching' = detaching \ {r}
    /\ pseudo' = pseudo \ ToUnmark[r]
    /\ prop' = IF ActivityR(r) THEN Propagate("clear", manager[r]) ELSE Idle
    /\ UNCHANGED <<state, act, mgd, actlist, active>>

-----------------------------------------------------------------------------
(* Creation and destruction.                                               *)

Create(r) ==
    /\ prop = Idle /\ state[r] = "freed"
    /\ state' = [state EXCEPT ![r] = "live"]
    /\ act' = act \ {r} /\ active' = active \ {r} /\ pseudo' = pseudo \ {r}
    /\ mgd' = [mgd EXCEPT ![r] = 0]
    /\ UNCHANGED <<manager, actlist, prop, detaching>>

\* Faulty variants: the list has no watch; the deinit routine forgets what the
\* region manages.
DestroyUnwatched(r) ==
    /\ prop = Idle /\ state[r] = "live" /\ r \notin Roots
    /\ state' = [state EXCEPT ![r] = "dest"]
    /\ UNCHANGED <<manager, act, mgd, actlist, prop, detaching, active, pseudo>>
DestroyEndEarly(r) ==
    /\ prop = Idle /\ state[r] = "dest"
    /\ manager[r] = None
    /\ state' = [state EXCEPT ![r] = "freed"]
    /\ UNCHANGED <<manager, act, mgd, actlist, prop, detaching, active, pseudo>>

\* destroy_obj up to the deinit routine: the watch of its list node runs.
DestroyBegin(r) ==
    /\ prop = Idle /\ state[r] = "live" /\ r \notin Roots
    /\ state' = [state EXCEPT ![r] = "dest"]
    /\ actlist' = WatchHandler(actlist, r)
    /\ UNCHANGED <<manager, act, mgd, prop, detaching, active, pseudo>>

\* The deinit routine has got rid of all the region manages, by detaching or
\* destroying it, and has detached the region itself.
DestroyEnd(r) ==
    /\ prop = Idle /\ state[r] = "dest"
    /\ manager[r] = None /\ Managed(r) = {}
    /\ state' = [state EXCEPT ![r] = "freed"]
    /\ UNCHANGED <<manager, act, mgd, actlist, prop, detaching, active, pseudo>>

ActivityNext ==
    \/ \E r \in Regions :
        \/ SetActivity(r) \/ UnsetActivity(r) \/ GotFocus(r) \/ LostFocus(r)
        \/ DetachBegin(r) \/ UnsetManager(r)
        \/ Create(r) \/ DestroyBegin(r) \/ DestroyEnd(r)
        \/ \E m \in Regions : Attach(r, m)
    \/ MarkStep \/ ClearStep

ActivitySpec == ActivityInit /\ [][ActivityNext]_activityVars

-----------------------------------------------------------------------------
(* What the checks are about.                                              *)

TypeOK ==
    /\ state \in [Regions -> {"live", "dest", "freed"}]
    /\ manager \in [Regions -> Regions \cup {None}]
    /\ act \subseteq Regions /\ active \subseteq Regions
    /\ pseudo \subseteq Regions /\ detaching \subseteq Regions
    /\ mgd \in [Regions -> Nat]
    /\ actlist \in Seq(Regions \cup {Dead})
    /\ \/ prop = Idle
       \/ prop \in [dir : {"mark", "clear"}, at : Regions]

\* The regions below m, one level down, that have activity to show.
Showing(m) == {r \in Managed(m) : ActivityR(r)}

\* What the manager that prop has come to still has to add or take off.
Due(m) ==
    IF prop.at # m THEN 0 ELSE IF prop.dir = "mark" THEN 1
    ELSE IF prop.dir = "clear" THEN -1 ELSE 0

\* A manager's mgd_activity is the number of regions it manages that show
\* activity, through all attaching, detaching, focusing and destruction; a
\* propagation under way is due one at the manager it has come to.
CountsMatch ==
    \A m \in Regions : mgd[m] + Due(m) = Cardinality(Showing(m))

\* A region with the focus shows no activity of its own (activity.c:77-78,
\* focus.c:221).
ActiveIsSilent == act \cap active \cap {r \in Regions : state[r] = "live"} = {}

\* What is on the activity list is a region, not one that is being destroyed,
\* and has its flag set; it is there once.
ListedHaveActivity ==
    /\ \A r \in Listed(actlist) : state[r] = "live" /\ r \in act
    /\ ListedOnce(actlist)

\* Regions that are gone are out of the hierarchy, and those in it exist.
Hierarchy ==
    \A r \in Regions :
        /\ manager[r] # None => state[r] # "freed" /\ state[manager[r]] # "freed"
        /\ r \in detaching => manager[r] # None
        /\ r \in Roots => manager[r] = None /\ state[r] # "dest"

\* What is inductive, and proved in DialogueProofs.
ActivityInv ==
    TypeOK /\ CountsMatch /\ ActiveIsSilent /\ ListedHaveActivity /\ Hierarchy
=============================================================================
