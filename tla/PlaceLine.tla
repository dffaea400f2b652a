------------------------------ MODULE PlaceLine ------------------------------
(***************************************************************************)
(* What the numbered list of a WMPlex and its placeholders promise: one    *)
(* line of regions and places, like tabs with gaps between them, where     *)
(* nothing moves but the region that is asked to.  A place stays where it  *)
(* was made, whatever comes and goes around it, so that a region that left *)
(* can return to its old neighbours, even if the line had to be put aside  *)
(* and made again in between.                                              *)
(***************************************************************************)
EXTENDS Lists

CONSTANTS Regions, Places
VARIABLES
    line,
    aside   \* places whose line is gone

Init == line = <<>> /\ aside = <<>>

\* One region comes, goes or is moved.
RegionChanges ==
    /\ \E r \in Regions : Dropping(line', {r}) = Dropping(line, {r})
    /\ UNCHANGED aside
\* One place is made or given up; it is never moved.
PlaceChanges ==
    /\ \E p \in Places :
        /\ Dropping(line', {p}) = Dropping(line, {p})
        /\ p \notin ToSet(line) \/ p \notin ToSet(line')
    /\ UNCHANGED aside
AsideChanges ==
    /\ \E p \in Places : aside' = Dropping(aside, {p})
    /\ UNCHANGED line
\* Regions leave at once.  Their places are put aside, or lost, or kept, in
\* their order, before the regions that are left.
Emptied ==
    \E gone \in SUBSET Regions :
        LET stays == Dropping(Dropping(line, Places), gone)
            places == Dropping(line, Regions)
        IN \/ line' = stays /\ aside' = places
           \/ line' \in {stays, places \o stays} /\ UNCHANGED aside
\* The line is made again, with a region at one of its places.
Refilled ==
    /\ line = <<>> /\ aside' = <<>>
    /\ \E r \in Regions : Dropping(line', {r}) = aside

Next ==
    RegionChanges \/ PlaceChanges \/ AsideChanges \/ Emptied \/ Refilled
Spec == Init /\ [][Next]_<<line, aside>>
=============================================================================
