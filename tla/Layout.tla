------------------------------- MODULE Layout -------------------------------
(***************************************************************************)
(* How client windows get back to their places when the window manager or  *)
(* the X session starts again (ioncore/saveload.c, the save and load part  *)
(* of clientwin.c, mod_sm/sm.c and sm_matchwin.c).                         *)
(*                                                                         *)
(* Saving the layout writes the windows that are managed with their        *)
(* places, and gives each of them a new check code, which is also a        *)
(* property of the window.  Loading it takes the windows that still have   *)
(* the code of the file.  Under a session manager the others' places are   *)
(* kept in match_list, and a window that appears is compared with those    *)
(* that are left.                                                          *)
(*                                                                         *)
(* The layout is a record, and each function that changes it an operator   *)
(* on it.  A place is wherever a placeholder can be, and is loaded without *)
(* errors.                                                                 *)
(***************************************************************************)
EXTENDS Lists

CONSTANTS
    None, Places, Windows,
    Defaults,  \* the places where windows come to by themselves
    Attr       \* what a match for each window goes by

\* Without a class match_cwin reads what XGetClassHint did not write.
ASSUME LayoutAssumption ==
    /\ IsFiniteSet(Windows) /\ Defaults \subseteq Places
    /\ None \notin Places \cup Windows
    /\ \A x \in Windows : Attr[x].class # None

NotSaved == [place |-> None, code |-> 0]

\* Faulty variant: a class, and a command or a name, are enough.
MatchesHalf(m, c) ==
    LET same(f) == IF m[f] # None /\ m[f] = c[f] THEN 1 ELSE 0
    IN 2 * same("id") + same("class") + same("cmd") + same("name") > 1
\* match_cwin: the client's leader and the window's role, or a third thing
\* next to the leader or the class.  class is the class with the instance.
Matches(m, c) ==
    LET same(f) == IF m[f] # None /\ m[f] = c[f] THEN 1 ELSE 0
        byLeader == same("id") * (2 + same("role"))
        byClass == IF byLeader < 3 THEN byLeader + same("class") ELSE byLeader
        points == IF byLeader < 3 /\ same("class") = 1 /\ byClass < 3
                  THEN byClass + same("cmd") + same("name") ELSE byClass
    IN points > 2

InitLayout(S) ==
    [ there   |-> S,   \* windows that exist
      at      |-> [x \in Windows |-> None],  \* where they are managed
      code    |-> [x \in Windows |-> 0],     \* their property, 0 if none
      next    |-> 1,   \* last_checkcode
      file    |-> [x \in Windows |-> NotSaved],
      matches |-> <<>>,
      \* Not in the program: windows moved, and given another code, since
      \* the layout was saved.
      moved   |-> {}, recoded |-> {} ]

Managed(l) == {x \in Windows : l.at[x] # None}

\* clientwin_get_configuration of the windows in S, called for a save or by
\* a script
Configured(l, S) ==
    LET s == SetToSeq(S)
        coded(q, x) == [q EXCEPT !.code[x] = q.next, !.next = @ + 1,
                                 !.recoded = @ \cup {x}]
        after[k \in 0..Len(s)] == IF k = 0 THEN l
                                  ELSE coded(after[k - 1], s[k])
    IN after[Len(s)]

\* Faulty variant: the codes are those before the save.
SavedOldCodes(l, how) ==
    LET q == Configured(l, Managed(l))
    IN [q EXCEPT !.file = [x \in Windows |->
                               [place |-> l.at[x], code |-> l.code[x]]],
                 !.moved = {}, !.recoded = {}]
\* ioncore_save_layout.  The file may not be opened ("kept"); it is emptied
\* when it is opened, so that it is lost when the layout cannot be written,
\* with an error ("cut") or, the disk being full, without ("full").
Saved(l, how) ==
    LET q == Configured(l, Managed(l))
        saved(x) == IF l.at[x] = None THEN NotSaved
                    ELSE [place |-> q.at[x], code |-> q.code[x]]
    IN IF how = "kept" THEN q
       ELSE [q EXCEPT !.file = [x \in Windows |->
                                    IF how = "good" THEN saved(x)
                                    ELSE NotSaved],
                      !.moved = {}, !.recoded = {}]
Hows == {"good", "kept", "cut", "full"}
\* The value of ioncore_do_snapshot
Succeeds(how) == how \in {"good", "full"}

\* mod_sm_match_cwin_to_saved and sm_do_manage
Matched(l, x, i) ==
    [l EXCEPT !.at[x] = l.matches[i].place, !.matches = RemoveAt(@, i)]
\* A window is managed: by the first match for it, or as it comes.  (No window
\* here is a transient, which sm_do_manage passes over.)
ManagedNow(l, x) ==
    LET fit == {i \in DOMAIN l.matches :
                    Matches(Attr[l.matches[i].win], Attr[x])}
    IN IF fit # {} THEN {Matched(l, x, Min(fit))}
       ELSE {[l EXCEPT !.at[x] = p] : p \in Defaults}
ManagedAll(l, xs) ==
    LET after[k \in 0..Len(xs)] ==
            IF k = 0 THEN {l}
            ELSE UNION {ManagedNow(q, xs[k]) : q \in after[k - 1]}
    IN after[Len(xs)]

\* Faulty variant: a place that is not taken is dropped.
LoadedNoMatch(l, withSM) ==
    LET found == {x \in l.there : l.file[x].place # None
                                  /\ l.code[x] = l.file[x].code}
    IN {[l EXCEPT !.at = [x \in Windows |->
                     IF x \in found THEN l.file[x].place ELSE None]]}
\* ioncore_init_layout and clientwin_load: windows found by their codes, and
\* matches for the others, in the order of the file.
Loaded(l, withSM) ==
    LET found == {x \in l.there : l.file[x].place # None
                                  /\ l.code[x] = l.file[x].code}
        others == {x \in Windows \ found : l.file[x].place # None}
        match(x) == [win |-> x, place |-> l.file[x].place]
    IN {[l EXCEPT
           !.at = [x \in Windows |->
                     IF x \in found THEN l.file[x].place ELSE None],
           !.matches = IF withSM THEN [i \in DOMAIN s |-> match(s[i])]
                       ELSE <<>>] :
        s \in SetToSeqs(others)}
\* ioncore_startup, with rootwin_manage_initial_windows: the worlds it may
\* come to
Started(l, withSM) ==
    LET fresh == [l EXCEPT !.next = 1]
    IN UNION {UNION {ManagedAll(q, s) :
                     s \in SetToSeqs(l.there \ Managed(q))} :
              q \in Loaded(fresh, withSM)}
\* The process ends: windows go back to the root window.
Ended(l) == [l EXCEPT !.at = [x \in Windows |-> None], !.matches = <<>>]

\* An X client maps a window.
Appeared(l, x, up) ==
    LET q == [l EXCEPT !.there = @ \cup {x}]
    IN IF up THEN ManagedNow(q, x) ELSE {q}
\* Faulty variant: it stays managed.
ClosedNot(l, x) ==
    [l EXCEPT !.there = @ \ {x}, !.code[x] = 0, !.moved = @ \cup {x}]
\* It closes it; the user moves it.
Closed(l, x) ==
    [l EXCEPT !.there = @ \ {x}, !.at[x] = None, !.code[x] = 0,
              !.moved = @ \cup {x}]
MovedTo(l, x, p) == [l EXCEPT !.at[x] = p, !.moved = @ \cup {x}]
\* The X session ends, clients and all.
LoggedOut(l) ==
    [l EXCEPT !.there = {}, !.code = [x \in Windows |-> 0],
              !.recoded = Windows]

\* What a window can be told by: its leader, and another thing, or all the
\* rest; and no other window has its leader, or all the rest like it.
Alone(x) ==
    LET a == Attr[x]
        rest == {"class", "cmd", "name"}
        has(fs) == \A f \in fs : a[f] # None
        shares(y, fs) == \A f \in fs : a[f] # None /\ a[f] = Attr[y][f]
    IN /\ has({"id", "role"}) \/ has({"id", "class"}) \/ has(rest)
       /\ \A y \in Windows \ {x} : ~shares(y, {"id"}) /\ ~shares(y, rest)
=============================================================================
