----------------------------- MODULE RecentList -----------------------------
(***************************************************************************)
(* What the history of queries promises: the last Size different entries,  *)
(* the latest first.  One that is entered again is moved to the front.     *)
(***************************************************************************)
EXTENDS Lists

CONSTANT Size
VARIABLE recent

First(s, n) == SubSeq(s, 1, IF Len(s) < n THEN Len(s) ELSE n)
Others(s, e) == IF e \in ToSet(s) THEN Unlink(s, e) ELSE s
Entered(s, e) == First(<<e>> \o Others(s, e), Size)

Init == Len(recent) <= Size /\ IsInjective(recent)
Enter ==
    /\ recent' # <<>>
    /\ recent' = Entered(recent, Head(recent'))
Clear == recent' = <<>>
Next == Clear \/ Enter
Spec == Init /\ [][Next]_recent
=============================================================================
