--------------------------------- MODULE Tags ---------------------------------
(***************************************************************************)
(* Tagging regions (ioncore/tags.c): a flag in the region and the list of  *)
(* tagged regions, which must tell the same story while regions are        *)
(* destroyed behind the list's back, by their watches.                     *)
(***************************************************************************)
EXTENDS ObjList

CONSTANTS
    Regions,
    MaxNodes   \* bound of the checked instance: nodes on the list

ASSUME RegionsAssumption == Dead \notin Regions /\ MaxNodes \in Nat

VARIABLES
    existing,       \* the regions that exist
    tagged,     \* those with REGION_TAGGED set
    taglist,    \* the list of tagged regions
    clearing,   \* ioncore_tagged_clear is under way
    aborted     \* an assertion of objlist.c failed

tagsVars == <<existing, tagged, taglist, clearing, aborted>>

TagsInit ==
    /\ existing = {} /\ tagged = {} /\ taglist = <<>>
    /\ clearing = FALSE /\ aborted = FALSE

Running == ~aborted /\ ~clearing

\* region_init clears the flags.
RegionInit(r) ==
    /\ Running /\ r \notin existing
    /\ existing' = existing \cup {r}
    /\ tagged' = tagged \ {r}
    /\ UNCHANGED <<taglist, clearing, aborted>>

\* Faulty variant: the node keeps the destroyed object.
DestroyUnwatched(r) ==
    /\ Running /\ r \in existing
    /\ existing' = existing \ {r}
    /\ UNCHANGED <<tagged, taglist, clearing, aborted>>

\* destroy_obj: nothing untags a region that goes, but its node's watch runs.
Destroy(r) ==
    /\ Running /\ r \in existing
    /\ existing' = existing \ {r}
    /\ taglist' = WatchHandler(taglist, r)
    /\ UNCHANGED <<tagged, clearing, aborted>>

\* Faulty variants: the flag is not looked at; a tag goes first in line.
SetTaggedTwice(r) ==
    /\ Running /\ r \in existing /\ Len(taglist) < MaxNodes
    /\ tagged' = tagged \cup {r}
    /\ taglist' = ObjListInsertLast(taglist, r)
    /\ UNCHANGED <<existing, clearing, aborted>>
SetTaggedFirst(r) ==
    /\ Running /\ r \in existing \ tagged /\ Len(taglist) < MaxNodes
    /\ tagged' = tagged \cup {r}
    /\ taglist' = InsertAtHead(taglist, r)
    /\ UNCHANGED <<existing, clearing, aborted>>

\* region_set_tagged when the flag changes, from unset ...
SetTagged(r) ==
    /\ Running /\ r \in existing \ tagged /\ Len(taglist) < MaxNodes
    /\ tagged' = tagged \cup {r}
    /\ taglist' = ObjListInsertLast(taglist, r)
    /\ UNCHANGED <<existing, clearing, aborted>>

\* ... and from set.
UnsetTagged(r) ==
    /\ Running /\ r \in existing \cap tagged
    /\ tagged' = tagged \ {r}
    /\ taglist' = ObjListRemove(taglist, r)
    /\ UNCHANGED <<existing, clearing, aborted>>

\* ioncore_tagged_first(TRUE): objlist_take_first asserts that the first node
\* it finds has an object.
TakeFirst ==
    LET l == Optimise(taglist) IN
    IF l # <<>> /\ Head(l) = Dead
    THEN taglist' = l /\ aborted' = TRUE /\ UNCHANGED tagged
    ELSE /\ taglist' = IF l = <<>> THEN l ELSE Tail(l)
         /\ tagged' = IF l = <<>> THEN tagged ELSE tagged \ {Head(l)}
         /\ UNCHANGED aborted

TaggedFirst == Running /\ TakeFirst /\ UNCHANGED <<existing, clearing>>

\* ioncore_tagged_clear takes the first one until there is none.
TaggedClear ==
    /\ Running
    /\ clearing' = TRUE
    /\ UNCHANGED <<existing, tagged, taglist, aborted>>
ClearRound ==
    /\ clearing /\ ~aborted
    /\ TakeFirst
    /\ clearing' = (Optimise(taglist) # <<>>)
    /\ UNCHANGED existing

TagsNext ==
    \/ \E r \in Regions :
        \/ RegionInit(r) \/ Destroy(r)
        \/ SetTagged(r) \/ UnsetTagged(r)
    \/ TaggedFirst \/ TaggedClear \/ ClearRound

TagsSpec == TagsInit /\ [][TagsNext]_tagsVars

-----------------------------------------------------------------------------
(* What the checks are about.                                              *)

TagsTypeOK ==
    /\ existing \subseteq Regions /\ tagged \subseteq Regions
    /\ taglist \in Seq(existing \cup {Dead})
    /\ clearing \in BOOLEAN /\ aborted \in BOOLEAN

\* Nothing is listed that is not a region with its flag set, nor twice: the
\* flag, the list and the watches agree across untagging by name, by taking
\* the first and by destruction (region_set_tagged, ioncore_tagged_first,
\* watch_handler).
ListedAreTagged ==
    /\ TagsTypeOK
    /\ Listed(taglist) \subseteq existing \cap tagged
    /\ ListedOnce(taglist)

\* "First" means first tagged: regions that stay on the list keep their order
\* and those that come go behind them (objlist_insert_last, and the handler
\* and optimise, which move other nodes about).
TagOrderKept ==
    [][\A x, y \in Listed(taglist') :
            /\ x \in Listed(taglist) /\ y # x
            /\ y \in Listed(taglist) => Precedes(taglist, x, y)
            => Precedes(taglist', x, y)]_tagsVars

\* tags.c:68: "Untag all regions." is what ioncore_tagged_clear has done when
\* it returns.
ClearUntagsAll ==
    [][(clearing /\ ~clearing' /\ ~aborted') => existing \cap tagged' = {}
      ]_tagsVars

\* objlist.c:303: assert(obj!=NULL).  It does not hold: three dead nodes at the
\* head of the list are too many for optimise, and the models stop there.
TakenHasObject == ~aborted
=============================================================================
