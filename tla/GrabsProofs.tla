------------------------------ MODULE GrabsProofs ------------------------------
(***************************************************************************)
(* Proofs about Grabs, for any frames, client windows and menus, and any   *)
(* bindings of buttons that GrabsAssumption allows.                        *)
(*                                                                         *)
(* What makes ModeHasEnd and GrabsServe inductive is what may be on the    *)
(* stack: at most three grabs, a submap's between two that a function      *)
(* asked for, and a pointer's below all others.  So ioncore_grab_establish *)
(* always has room, ioncore_grab_remove finds the grab it is meant for,    *)
(* and the handler that is done marks its own.                             *)
(*                                                                         *)
(* IInv speaks of a record and not of the variable, since a step is made   *)
(* of several functions on it.  Firm leaves out the maps that are entered: *)
(* do_key enters one before there is its grab.                             *)
(***************************************************************************)
EXTENDS Grabs, ListLemmas

-----------------------------------------------------------------------------
(* The invariant. *)

Modes == {"normal", "grab"}
Drags == {"none", "moveres", "tab", "menu"}
Pointer == [reg : Windows \cup {None}, held : BOOLEAN, motion : BOOLEAN,
            drag : Drags, begin : BOOLEAN]
State == [alive : SUBSET Windows, stack : Seq(Grab), current : Nat,
          grabbed : BOOLEAN, mode : Modes, target : Windows \cup {None},
          timer : {"no", "set", "due"}, sub : SUBSET Windows,
          pointer : Pointer, button : Buttons \cup {None}, loop : BOOLEAN,
          tabwin : Windows \cup {None}, ending : SUBSET Windows,
          failed : Windows \cup {None}]

\* What may be grabbed while g is on the top
Asked == {"menu", "resize", "quote"}
Above(g, h) == \/ g \in Asked /\ h \in {"submap", "wait"}
               \/ g = "submap" /\ h \in Asked
               \/ g = "pointer" /\ h = "resize"
Shape(s) ==
    /\ Len(s) <= 3
    /\ \A i \in 1 .. Len(s) - 1 : Above(s[i].handler, s[i + 1].handler)
    /\ Len(s) = 3 => s[2].handler = "submap"

Holds(s, i, h) == i \in DOMAIN s /\ s[i].handler = h /\ ~s[i].remove
Helds(s, h) == \E i \in DOMAIN s : Holds(s, i, h)

\* Whoever holds a grab that is not marked lives, and a menu has no other grab
\* below its own.
Owned(s, alive) ==
    \A i \in DOMAIN s : ~s[i].remove =>
        /\ s[i].holder \in alive
        /\ s[i].handler = "submap" => s[i].holder \in Grabbing
        /\ s[i].handler = "menu" =>
              /\ s[i].holder \in Inputs
              /\ \A j \in 1 .. i - 1 : ~s[j].remove => s[j].holder # s[i].holder

Stacked(q) ==
    /\ Shape(q.stack) /\ Owned(q.stack, q.alive)
    /\ q.current = Len(q.stack)
    /\ q.stack # <<>> => ~q.stack[Len(q.stack)].remove
    /\ q.grabbed = (q.stack # <<>>)
    /\ q.mode = IF q.stack # <<>> THEN "grab" ELSE "normal"

Living(q) ==
    /\ Root \in q.alive
    /\ q.sub \subseteq q.alive
    /\ q.ending \subseteq q.alive \cap Inputs
    /\ q.target \in q.alive \cup {None}
    /\ q.failed \notin Grabbing

\* The mode with its grab and its timer, or else with the drag that began it
Resizing(s, target, timer, p) ==
    /\ \A i \in DOMAIN s : Holds(s, i, "resize") =>
          /\ s[i].holder = target /\ timer # "no"
          /\ \A j \in i + 1 .. Len(s) : s[j].handler # "resize"
    /\ timer # "no" => Helds(s, "resize")
    /\ target # None /\ ~Helds(s, "resize") => p.drag = "moveres" /\ p.reg = target

Entered(s, sub) ==
    \A r \in Grabbing :
        r \in sub <=> \E i \in DOMAIN s : Holds(s, i, "submap") /\ s[i].holder = r

Dragging(s, p, b, tabwin, alive) ==
    /\ Holds(s, 1, "pointer")
    /\ p.held /\ p.reg \in alive
    /\ b \in Buttons
    /\ ~p.motion => p.drag = "none" /\ ~p.begin
    /\ p.begin => p.drag \in {"moveres", "tab"}
    /\ p.drag = "moveres" => "moveres" \in {b.press, b.drag}
    /\ Helds(s, "resize") => "kbresize" \in {b.press, b.drag}
    /\ p.drag = "menu" => p.reg \in Inputs
    /\ tabwin # None => p.drag = "tab" /\ p.reg = tabwin
Released(s, p, tabwin) ==
    /\ p = NoPointer /\ tabwin = None
    /\ ~Helds(s, "pointer")
Pressed(q) ==
    IF q.loop THEN Dragging(q.stack, q.pointer, q.button, q.tabwin, q.alive)
    ELSE Released(q.stack, q.pointer, q.tabwin)

Firm(q) == /\ q \in State /\ Stacked(q) /\ Living(q)
           /\ Resizing(q.stack, q.target, q.timer, q.pointer)
           /\ Pressed(q)
Fine(q) == Firm(q) /\ Entered(q.stack, q.sub)
IInv == Fine(w)

-----------------------------------------------------------------------------
(* The stack. *)

\* What do_grab_remove leaves of s
Tidied(t, s) ==
    /\ t \in Seq(Grab) /\ Len(t) <= Len(s)
    /\ \A k \in 1 .. Len(t) : t[k] = s[k]
    /\ \A k \in Len(t) + 1 .. Len(s) : s[k].remove
    /\ t # <<>> => ~t[Len(t)].remove

\* What is left when grab i of s is marked and those marked at the top go
Less(t, s, i) ==
    /\ t \in Seq(Grab) /\ Len(t) <= Len(s)
    /\ \A k \in 1 .. Len(t) :
          /\ t[k].holder = s[k].holder /\ t[k].handler = s[k].handler
          /\ t[k].remove <=> s[k].remove \/ k = i
    /\ \A k \in Len(t) + 1 .. Len(s) : s[k].remove \/ k = i
    /\ t # <<>> => ~t[Len(t)].remove

Restacked(q, t) ==
    [q EXCEPT !.stack = t, !.current = Len(t), !.grabbed = (t # <<>>),
              !.mode = IF t # <<>> THEN "grab" ELSE "normal"]

Kept(s) == {i \in DOMAIN s : ~s[i].remove}
Popped(s) == IF Kept(s) = {} THEN <<>> ELSE SubSeq(s, 1, Max(Kept(s)))

\* do_grab_remove takes off the marked ones at the top and no other.
LEMMA PoppedIsTidied ==
    ASSUME NEW s \in Seq(Grab)
    PROVE  Tidied(Popped(s), s)
<1>1. DOMAIN s = 1 .. Len(s) /\ Len(s) \in Nat
  OBVIOUS
<1>2. CASE Kept(s) = {}
  <2>1. Popped(s) = <<>> /\ Len(Popped(s)) = 0
    BY <1>2 DEF Popped
  <2>2. \A k \in 1 .. Len(s) : s[k].remove
    BY <1>1, <1>2 DEF Kept
  <2>3. <<>> \in Seq(Grab)
    OBVIOUS
  <2>. QED BY <1>1, <2>1, <2>2, <2>3 DEF Tidied
<1>3. CASE Kept(s) # {}
  <2>. DEFINE n == Max(Kept(s))
  <2>1. IsFiniteSet(Kept(s)) /\ Kept(s) \in SUBSET Int
    <3>1. IsFiniteSet(1 .. Len(s))
      BY <1>1, FS_Interval
    <3>2. Kept(s) \subseteq 1 .. Len(s)
      BY <1>1 DEF Kept
    <3>. QED BY <3>1, <3>2, FS_Subset
  <2>2. PICK g \in Kept(s) : \A m \in Kept(s) : g >= m
    BY <1>3, <2>1, GreatestInt
  <2>3. n \in Kept(s) /\ \A m \in Kept(s) : n >= m
    BY <2>2 DEF Max
  <2>. HIDE DEF n
  <2>4. n \in 1 .. Len(s) /\ ~s[n].remove
    BY <1>1, <2>3 DEF Kept
  <2>5. \A k \in n + 1 .. Len(s) : s[k].remove
    BY <1>1, <2>3, <2>4 DEF Kept
  <2>6. Popped(s) = SubSeq(s, 1, n)
    BY <1>3 DEF Popped, n
  <2>7. /\ SubSeq(s, 1, n) \in Seq(Grab) /\ Len(SubSeq(s, 1, n)) = n
        /\ \A k \in 1 .. n : SubSeq(s, 1, n)[k] = s[k]
    BY <1>1, <2>4
  <2>. QED BY <1>1, <2>4, <2>5, <2>6, <2>7 DEF Tidied
<1>. QED BY <1>2, <1>3

\* Marked, then tidied
LEMMA MarkedAndTidied ==
    ASSUME NEW s \in Seq(Grab), NEW i \in DOMAIN s, NEW t,
           Tidied(t, [s EXCEPT ![i].remove = TRUE])
    PROVE  Less(t, s, i)
<1>. DEFINE m == [s EXCEPT ![i].remove = TRUE]
<1>1. Len(s) \in Nat /\ DOMAIN s = 1 .. Len(s)
      /\ \A k \in 1 .. Len(s) : s[k] \in Grab
  OBVIOUS
<1>2. Len(m) = Len(s)
  BY <1>1
<1>3. ASSUME NEW k \in 1 .. Len(s)
      PROVE  /\ m[k].holder = s[k].holder /\ m[k].handler = s[k].handler
             /\ m[k].remove <=> s[k].remove \/ k = i
  BY <1>1, <1>3 DEF Grab
<1>. HIDE DEF m
<1>4. Tidied(t, m)
  BY DEF m
<1>5. Len(t) \in Nat
  BY <1>4 DEF Tidied
<1>. QED BY <1>1, <1>2, <1>3, <1>4, <1>5 DEF Tidied, Less

\* Marking changes the mark of one grab.
LEMMA MarkIsStack ==
    ASSUME NEW s \in Seq(Grab), NEW i \in DOMAIN s
    PROVE  /\ [s EXCEPT ![i].remove = TRUE] \in Seq(Grab)
           /\ Len([s EXCEPT ![i].remove = TRUE]) = Len(s)
           /\ \A k \in DOMAIN s : [s EXCEPT ![i].remove = TRUE][k] =
                 IF k = i THEN [s[k] EXCEPT !.remove = TRUE] ELSE s[k]
           /\ s[i].remove => [s EXCEPT ![i].remove = TRUE] = s
<1>1. Len(s) \in Nat /\ DOMAIN s = 1 .. Len(s)
      /\ \A k \in 1 .. Len(s) : s[k] \in Grab
  OBVIOUS
<1>2. [s[i] EXCEPT !.remove = TRUE] \in Grab
  BY <1>1 DEF Grab
<1>3. s[i].remove => [s[i] EXCEPT !.remove = TRUE] = s[i]
  BY <1>1 DEF Grab
<1>. DEFINE m == [s EXCEPT ![i].remove = TRUE]
<1>4. m \in Seq(Grab) /\ Len(m) = Len(s)
  BY <1>1, <1>2
<1>5. \A k \in DOMAIN s : m[k] = IF k = i THEN [s[k] EXCEPT !.remove = TRUE] ELSE s[k]
  BY <1>1
<1>6. ASSUME s[i].remove PROVE m = s
  <2>1. \A k \in 1 .. Len(s) : m[k] = s[k]
    BY <1>1, <1>3, <1>5, <1>6
  <2>. HIDE DEF m
  <2>. QED BY <1>1, <1>4, <2>1
<1>. QED BY <1>4, <1>5, <1>6

\* What is left of a stack has its shape, its owners and its grabs but one.
LEMMA LessHolds ==
    ASSUME NEW s \in Seq(Grab), NEW i \in DOMAIN s, NEW t, Less(t, s, i)
    PROVE  \A k, h : Holds(t, k, h) <=> Holds(s, k, h) /\ k # i
<1>1. Len(s) \in Nat /\ DOMAIN s = 1 .. Len(s)
      /\ Len(t) \in Nat /\ DOMAIN t = 1 .. Len(t) /\ Len(t) <= Len(s)
  BY DEF Less
<1>2. ASSUME NEW k \in 1 .. Len(s), k \notin 1 .. Len(t) PROVE s[k].remove \/ k = i
  <2>1. k \in Len(t) + 1 .. Len(s)
    BY <1>1, <1>2
  <2>. QED BY <2>1 DEF Less
<1>3. ASSUME NEW k, NEW h PROVE Holds(t, k, h) <=> Holds(s, k, h) /\ k # i
  <2>1. CASE k \in 1 .. Len(t)
    <3>1. k \in 1 .. Len(s)
      BY <1>1, <2>1
    <3>. QED BY <1>1, <2>1, <3>1 DEF Less, Holds
  <2>2. CASE k \notin 1 .. Len(t)
    BY <1>1, <1>2, <2>2 DEF Holds
  <2>. QED BY <2>1, <2>2
<1>. QED BY <1>3

\* The shape and the owners are kept.
LEMMA LessKeeps ==
    ASSUME NEW s \in Seq(Grab), NEW i \in DOMAIN s, NEW t, Less(t, s, i)
    PROVE  /\ Shape(s) => Shape(t)
           /\ \A alive : Owned(s, alive) => Owned(t, alive)
<1>1. Len(s) \in Nat /\ DOMAIN s = 1 .. Len(s)
      /\ Len(t) \in Nat /\ DOMAIN t = 1 .. Len(t) /\ Len(t) <= Len(s)
  BY DEF Less
<1>2. \A k \in 1 .. Len(t) : /\ k \in 1 .. Len(s)
                            /\ t[k].holder = s[k].holder
                            /\ t[k].handler = s[k].handler
                            /\ ~t[k].remove => ~s[k].remove
  BY <1>1 DEF Less
<1>3. Shape(s) => Shape(t)
  <2>. SUFFICES ASSUME Shape(s) PROVE Shape(t)
    OBVIOUS
  <2>2. ASSUME NEW k \in 1 .. Len(t) - 1
        PROVE  Above(t[k].handler, t[k + 1].handler)
    <3>1. k \in 1 .. Len(s) - 1 /\ k \in 1 .. Len(t) /\ k + 1 \in 1 .. Len(t)
      BY <1>1
    <3>2. t[k].handler = s[k].handler /\ t[k + 1].handler = s[k + 1].handler
      BY <1>1, <3>1 DEF Less
    <3>. QED BY <3>1, <3>2 DEF Shape
  <2>3. Len(t) = 3 => Len(s) = 3 /\ 2 \in 1 .. Len(t)
    BY <1>1 DEF Shape
  <2>4. Len(t) = 3 => t[2].handler = "submap"
    <3>. SUFFICES ASSUME Len(t) = 3 PROVE t[2].handler = "submap"
      OBVIOUS
    <3>1. t[2].handler = s[2].handler
      BY <1>1, <2>3 DEF Less
    <3>. QED BY <2>3, <3>1 DEF Shape
  <2>. QED BY <1>1, <2>2, <2>4 DEF Shape
<1>4. ASSUME NEW alive, Owned(s, alive) PROVE Owned(t, alive)
  <2>1. ASSUME NEW k \in DOMAIN t, ~t[k].remove
        PROVE  /\ t[k].holder \in alive
               /\ t[k].handler = "submap" => t[k].holder \in Grabbing
               /\ t[k].handler = "menu" =>
                     /\ t[k].holder \in Inputs
                     /\ \A j \in 1 .. k - 1 : ~t[j].remove => t[j].holder # t[k].holder
    <3>0. k \in 1 .. Len(t)
      BY <1>1
    <3>1. k \in 1 .. Len(s) /\ t[k].holder = s[k].holder
          /\ t[k].handler = s[k].handler /\ ~s[k].remove
      BY <1>1, <2>1, <3>0 DEF Less
    <3>3. ASSUME NEW j \in 1 .. k - 1, ~t[j].remove
          PROVE  ~s[j].remove /\ t[j].holder = s[j].holder
      <4>1. j \in 1 .. Len(t)
        BY <1>1, <3>0
      <4>. QED BY <1>1, <3>3, <4>1 DEF Less
    <3>. QED BY <1>1, <1>4, <3>1, <3>3 DEF Owned
  <2>. QED BY <2>1 DEF Owned
<1>. QED BY <1>3, <1>4

-----------------------------------------------------------------------------
(* What the functions of grab.c do to the stack.                           *)

\* Only the stack and what is said of it change.
LEMMA RestackedIs ==
    ASSUME NEW q \in State, NEW t \in Seq(Grab)
    PROVE  /\ Restacked(q, t) \in State
           /\ Restacked(q, t).stack = t
           /\ Restacked(q, t).current = Len(t)
           /\ Restacked(q, t).grabbed = (t # <<>>)
           /\ Restacked(q, t).mode = IF t # <<>> THEN "grab" ELSE "normal"
           /\ Restacked(q, t).alive = q.alive
           /\ Restacked(q, t).target = q.target
           /\ Restacked(q, t).timer = q.timer
           /\ Restacked(q, t).sub = q.sub
           /\ Restacked(q, t).pointer = q.pointer
           /\ Restacked(q, t).button = q.button
           /\ Restacked(q, t).loop = q.loop
           /\ Restacked(q, t).tabwin = q.tabwin
           /\ Restacked(q, t).ending = q.ending
           /\ Restacked(q, t).failed = q.failed
<1>1. Len(t) \in Nat /\ (t # <<>>) \in BOOLEAN
      /\ (IF t # <<>> THEN "grab" ELSE "normal") \in Modes
  BY DEF Modes
<1>. QED BY <1>1 DEF Restacked, State

\* Nothing changes if it was so before.
LEMMA RestackedSame ==
    ASSUME NEW q \in State, q.current = Len(q.stack),
           q.grabbed = (q.stack # <<>>),
           q.mode = IF q.stack # <<>> THEN "grab" ELSE "normal"
    PROVE  Restacked(q, q.stack) = q
BY DEF Restacked, State

\* The rest of a state in which the stack is another
LEMMA RestackedTwice ==
    ASSUME NEW q \in State, NEW s \in Seq(Grab), NEW t \in Seq(Grab)
    PROVE  /\ Restacked(Restacked(q, s), t) = Restacked(q, t)
           /\ Restacked([q EXCEPT !.stack = s], t) = Restacked(q, t)
BY DEF Restacked, State

\* do_grab_remove
LEMMA DoGrabRemovePops ==
    ASSUME NEW q \in State
    PROVE  DoGrabRemove(q) = Restacked(q, Popped(q.stack))
<1>. DEFINE p == Popped(q.stack)
            rest == [q EXCEPT !.stack = p, !.current = 0, !.grabbed = FALSE,
                              !.mode = "normal"]
<1>1. p \in Seq(Grab)
  BY PoppedIsTidied DEF State, Tidied
<1>2. DoGrabRemove(q) = IF rest.stack = <<>> THEN rest ELSE Installed(rest)
  BY DEF DoGrabRemove, Popped, Kept
<1>. HIDE DEF p
<1>3. rest.stack = p
  BY DEF State
<1>4. CASE p = <<>>
  BY <1>1, <1>2, <1>3, <1>4 DEF State, Restacked, p
<1>5. CASE p # <<>>
  <2>1. Installed(rest) = Restacked(q, p)
    BY <1>1, <1>3, <1>5 DEF Installed, State, Restacked
  <2>. QED BY <1>2, <1>3, <1>5, <2>1 DEF p
<1>. QED BY <1>4, <1>5

\* mark_for_removal, when the flags and the stack agree or the mark is at the
\* top
LEMMA DoneLeaves ==
    ASSUME NEW q \in State, NEW i \in DOMAIN q.stack,
           \/ i = Len(q.stack)
           \/ /\ q.current = Len(q.stack) /\ q.grabbed = TRUE
              /\ q.mode = "grab"
    PROVE  \E t : Less(t, q.stack, i) /\ Done(q, i) = Restacked(q, t)
<1>. DEFINE s == q.stack
            m == [s EXCEPT ![i].remove = TRUE]
            x == [q EXCEPT !.stack[i].remove = TRUE]
<1>1. s \in Seq(Grab) /\ DOMAIN s = 1 .. Len(s) /\ Len(s) \in Nat
  BY DEF State
<1>2. m \in Seq(Grab) /\ Len(m) = Len(s)
  BY <1>1, MarkIsStack
<1>3. x = [q EXCEPT !.stack = m]
  BY DEF State
<1>. HIDE DEF m
<1>4. x \in State /\ x.stack = m /\ x.current = q.current
      /\ x.grabbed = q.grabbed /\ x.mode = q.mode
  BY <1>2, <1>3 DEF State
<1>5. Done(q, i) = Settled(x)
  BY DEF Done
<1>. HIDE DEF x
<1>6. m # <<>>
  BY <1>1, <1>2
<1>7. CASE m[Len(m)].remove
  <2>1. Settled(x) = DoGrabRemove(x)
    BY <1>4, <1>6, <1>7 DEF Settled, Top, Last
  <2>2. DoGrabRemove(x) = Restacked(x, Popped(m))
    BY <1>4, DoGrabRemovePops
  <2>3. Tidied(Popped(m), m)
    BY <1>2, PoppedIsTidied
  <2>4. Restacked(x, Popped(m)) = Restacked(q, Popped(m))
    BY <1>2, <1>3, <2>3, RestackedTwice DEF Tidied
  <2>5. Less(Popped(m), s, i)
    BY <1>1, <2>3, MarkedAndTidied DEF m
  <2>. QED BY <1>5, <2>1, <2>2, <2>4, <2>5
<1>8. CASE ~m[Len(m)].remove
  <2>1. Settled(x) = x
    BY <1>4, <1>8 DEF Settled, Top, Last
  <2>2. i # Len(s)
    <3>1. m[i].remove
      BY <1>1, MarkIsStack DEF m, Grab
    <3>. QED BY <1>2, <1>8, <3>1
  <2>3. x = Restacked(x, m)
    BY <1>4, <1>6, <1>2, <2>2, RestackedSame
  <2>4. Restacked(x, m) = Restacked(q, m)
    BY <1>2, <1>3, RestackedTwice
  <2>5. Tidied(m, m)
    BY <1>2, <1>8 DEF Tidied
  <2>6. Less(m, s, i)
    BY <1>1, <2>5, MarkedAndTidied DEF m
  <2>. QED BY <1>5, <2>1, <2>3, <2>4, <2>6
<1>. QED BY <1>7, <1>8

\* ioncore_grab_remove takes the last of the grabs with the handler.
LEMMA GrabRemoveTakes ==
    ASSUME NEW q \in State, NEW i \in DOMAIN q.stack, NEW h,
           q.stack[i].handler = h,
           \A j \in i + 1 .. Len(q.stack) : q.stack[j].handler # h
    PROVE  GrabRemove(q, h) = Done(q, i)
<1>. DEFINE at == {k \in DOMAIN q.stack : q.stack[k].handler = h}
<1>1. DOMAIN q.stack = 1 .. Len(q.stack) /\ Len(q.stack) \in Nat
  BY DEF State
<1>2. i \in at /\ \A k \in at : i >= k
  BY <1>1
<1>3. \A k \in at : (\A y \in at : k >= y) => k = i
  BY <1>1, <1>2
<1>4. Max(at) = i
  BY <1>2, <1>3 DEF Max
<1>. QED BY <1>2, <1>4 DEF GrabRemove

\* ioncore_grab_establish, of which there is always room for one
LEMMA EstablishPushes ==
    ASSUME NEW q \in State, NEW reg \in Windows, NEW h \in Handlers,
           Len(q.stack) <= 3
    PROVE  Establish(q, reg, h) =
             Restacked(q, Append(q.stack, [holder |-> reg, handler |-> h, remove |-> FALSE]))
<1>. DEFINE g == [holder |-> reg, handler |-> h, remove |-> FALSE]
            s == Append(q.stack, g)
            x == [q EXCEPT !.stack = s]
<1>1. q.stack \in Seq(Grab) /\ Len(q.stack) < MAX_GRABS
  BY DEF State, MAX_GRABS
<1>2. Establish(q, reg, h) = Installed(x)
  BY <1>1 DEF Establish
<1>3. s # <<>> /\ x.stack = s
  <2>1. g \in Grab
    BY DEF Grab
  <2>2. s \in Seq(Grab) /\ Len(s) = Len(q.stack) + 1
    BY <1>1, <2>1
  <2>3. Len(q.stack) \in Nat
    BY <1>1
  <2>4. s # <<>>
    BY <2>2, <2>3
  <2>5. x.stack = s
    BY DEF State
  <2>. QED BY <2>4, <2>5
<1>. HIDE DEF s
<1>4. Installed(x) = Restacked(q, s)
  BY <1>1, <1>3 DEF Installed, Restacked, State
<1>. QED BY <1>2, <1>4 DEF s

-----------------------------------------------------------------------------
(* What is said of the stack stays true when a grab is taken off.          *)

\* Whether there is a grab with a handler
LEMMA LessHelds ==
    ASSUME NEW s \in Seq(Grab), NEW i \in DOMAIN s, NEW t, Less(t, s, i),
           NEW h
    PROVE  /\ Helds(t, h) => Helds(s, h)
           /\ ~Holds(s, i, h) => (Helds(t, h) <=> Helds(s, h))
<1>1. \A k, g : Holds(t, k, g) <=> Holds(s, k, g) /\ k # i
  BY LessHolds
<1>. QED BY <1>1 DEF Helds, Holds

\* The grabs that stay are where they were.
LEMMA LessHolders ==
    ASSUME NEW s \in Seq(Grab), NEW i \in DOMAIN s, NEW t, Less(t, s, i),
           NEW k \in DOMAIN t
    PROVE  k \in DOMAIN s /\ t[k].holder = s[k].holder /\ t[k].handler = s[k].handler
<1>1. Len(s) \in Nat /\ DOMAIN s = 1 .. Len(s)
      /\ Len(t) \in Nat /\ DOMAIN t = 1 .. Len(t) /\ Len(t) <= Len(s)
  BY DEF Less
<1>2. k \in 1 .. Len(t)
  BY <1>1
<1>. QED BY <1>1, <1>2 DEF Less

\* A grab that is not for resizing
LEMMA LessResizing ==
    ASSUME NEW s \in Seq(Grab), NEW i \in DOMAIN s, NEW t, Less(t, s, i),
           ~Holds(s, i, "resize"),
           NEW target, NEW timer, NEW p, Resizing(s, target, timer, p)
    PROVE  Resizing(t, target, timer, p)
<1>1. \A k, h : Holds(t, k, h) <=> Holds(s, k, h) /\ k # i
  BY LessHolds
<1>2. Helds(t, "resize") <=> Helds(s, "resize")
  BY LessHelds
<1>3. ASSUME NEW k \in DOMAIN t, Holds(t, k, "resize")
      PROVE  /\ t[k].holder = target /\ timer # "no"
             /\ \A j \in k + 1 .. Len(t) : t[j].handler # "resize"
  <2>1. k \in DOMAIN s /\ t[k].holder = s[k].holder /\ Holds(s, k, "resize")
    BY <1>1, <1>3, LessHolders
  <2>2. /\ s[k].holder = target /\ timer # "no"
        /\ \A j \in k + 1 .. Len(s) : s[j].handler # "resize"
    BY <2>1 DEF Resizing
  <2>3. ASSUME NEW j \in k + 1 .. Len(t) PROVE t[j].handler # "resize"
    <3>1. Len(s) \in Nat /\ Len(t) \in Nat /\ DOMAIN t = 1 .. Len(t) /\ Len(t) <= Len(s)
      BY DEF Less
    <3>2. j \in DOMAIN t /\ j \in k + 1 .. Len(s)
      BY <3>1, <1>3
    <3>. QED BY <2>2, <3>2, LessHolders
  <2>. QED BY <2>1, <2>2, <2>3
<1>. QED BY <1>2, <1>3 DEF Resizing

\* The grab of the mode: there is one at most.
LEMMA OneResize ==
    ASSUME NEW s \in Seq(Grab), NEW i \in DOMAIN s, Holds(s, i, "resize"),
           NEW target, NEW timer, NEW p, Resizing(s, target, timer, p)
    PROVE  \A k : Holds(s, k, "resize") => k = i
<1>1. Len(s) \in Nat /\ DOMAIN s = 1 .. Len(s)
  OBVIOUS
<1>2. ASSUME NEW k, Holds(s, k, "resize"), k # i PROVE FALSE
  <2>1. k \in 1 .. Len(s) /\ s[k].handler = "resize" /\ s[i].handler = "resize"
    BY <1>1, <1>2 DEF Holds
  <2>2. CASE k < i
    <3>1. i \in k + 1 .. Len(s) /\ k \in DOMAIN s
      BY <1>1, <2>1, <2>2
    <3>. QED BY <1>2, <2>1, <3>1 DEF Resizing
  <2>3. CASE i < k
    <3>1. k \in i + 1 .. Len(s)
      BY <1>1, <2>1, <2>3
    <3>. QED BY <2>1, <3>1 DEF Resizing
  <2>. QED BY <1>1, <1>2, <2>1, <2>2, <2>3
<1>. QED BY <1>2

\* Without its grab the mode is over, and so is its timer.
LEMMA LessOfResize ==
    ASSUME NEW s \in Seq(Grab), NEW i \in DOMAIN s, Holds(s, i, "resize"),
           NEW t, Less(t, s, i),
           NEW target, NEW timer, NEW p, Resizing(s, target, timer, p), NEW r
    PROVE  ~Helds(t, "resize") /\ Resizing(t, None, "no", r)
<1>1. \A k, h : Holds(t, k, h) <=> Holds(s, k, h) /\ k # i
  BY LessHolds
<1>2. \A k : Holds(s, k, "resize") => k = i
  BY OneResize
<1>3. \A k : ~Holds(t, k, "resize")
  BY <1>1, <1>2
<1>. QED BY <1>3 DEF Resizing, Helds

\* A submap's grab is the only one of its kind.
LEMMA OneSubmap ==
    ASSUME NEW s \in Seq(Grab), Shape(s), NEW i \in DOMAIN s, NEW j \in DOMAIN s,
           s[i].handler = "submap", s[j].handler = "submap"
    PROVE  i = j
<1>0. Len(s) \in Nat /\ DOMAIN s = 1 .. Len(s) /\ Len(s) <= 3
  BY DEF Shape
<1>1. Len(s) \in 0 .. 3 /\ DOMAIN s = 1 .. Len(s)
  BY <1>0
<1>2. \A k \in 1 .. Len(s) - 1 : ~(s[k].handler = "submap" /\ s[k + 1].handler = "submap")
  BY DEF Shape, Above, Asked
<1>3. CASE Len(s) = 3
  <2>1. s[2].handler = "submap" /\ 1 \in 1 .. Len(s) - 1 /\ 2 \in 1 .. Len(s) - 1
    BY <1>3 DEF Shape
  <2>2. s[1].handler # "submap" /\ s[1 + 1] = s[2] /\ s[2 + 1] = s[3]
    BY <1>2, <2>1
  <2>3. s[3].handler # "submap"
    BY <1>2, <2>1, <2>2
  <2>. QED BY <1>1, <1>3, <2>2, <2>3
<1>4. CASE Len(s) = 2
  <2>1. 1 \in 1 .. Len(s) - 1 /\ s[1 + 1] = s[2]
    BY <1>4
  <2>2. ~(s[1].handler = "submap" /\ s[2].handler = "submap")
    BY <1>2, <2>1
  <2>. QED BY <1>1, <1>4, <2>2
<1>5. CASE Len(s) < 2
  BY <1>1, <1>5
<1>. QED BY <1>1, <1>3, <1>4, <1>5

\* A pointer's is the first, with nothing but a resize above it.
LEMMA PointerFirst ==
    ASSUME NEW s \in Seq(Grab), Shape(s), NEW i \in DOMAIN s
    PROVE  /\ s[i].handler = "pointer" => i = 1
           /\ s[1].handler = "pointer" => Len(s) <= 2 /\ (i # 1 => s[i].handler = "resize")
<1>0. Len(s) \in Nat /\ DOMAIN s = 1 .. Len(s) /\ Len(s) <= 3
  BY DEF Shape
<1>1. Len(s) \in 1 .. 3 /\ DOMAIN s = 1 .. Len(s)
  BY <1>0
<1>2. \A k \in 1 .. Len(s) - 1 : Above(s[k].handler, s[k + 1].handler)
  BY DEF Shape
<1>3. s[i].handler = "pointer" => i = 1
  <2>. SUFFICES ASSUME i # 1, s[i].handler = "pointer" PROVE FALSE
    OBVIOUS
  <2>1. i - 1 \in 1 .. Len(s) - 1 /\ (i - 1) + 1 = i
    BY <1>1
  <2>2. Above(s[i - 1].handler, s[i].handler)
    BY <1>2, <2>1
  <2>. QED BY <2>2 DEF Above, Asked
<1>4. ASSUME s[1].handler = "pointer", Len(s) > 1
      PROVE  s[2].handler = "resize" /\ Len(s) = 2
  <2>1. 1 \in 1 .. Len(s) - 1 /\ 1 + 1 = 2
    BY <1>1, <1>4
  <2>2. Above(s[1].handler, s[2].handler)
    BY <1>2, <2>1
  <2>3. s[2].handler = "resize"
    BY <1>4, <2>2 DEF Above, Asked
  <2>4. Len(s) # 3
    BY <2>3 DEF Shape
  <2>. QED BY <1>1, <1>4, <2>3, <2>4
<1>5. s[1].handler = "pointer" /\ i # 1 => i = 2 /\ Len(s) = 2 /\ s[2].handler = "resize"
  BY <1>1, <1>4
<1>. QED BY <1>1, <1>3, <1>4, <1>5

\* A grab that is not for a submap
LEMMA LessEntered ==
    ASSUME NEW s \in Seq(Grab), NEW i \in DOMAIN s, NEW t, Less(t, s, i),
           ~Holds(s, i, "submap"), NEW sub, Entered(s, sub)
    PROVE  Entered(t, sub)
<1>1. \A k, h : Holds(t, k, h) <=> Holds(s, k, h) /\ k # i
  BY LessHolds
<1>2. \A k \in DOMAIN t : t[k].holder = s[k].holder
  BY LessHolders
<1>3. \A k : Holds(t, k, "submap") <=> Holds(s, k, "submap")
  BY <1>1
<1>4. \A k : Holds(t, k, "submap") => k \in DOMAIN t
  BY DEF Holds
<1>5. \A k : Holds(s, k, "submap") => k \in DOMAIN s
  BY DEF Holds
<1>6. ASSUME NEW r
      PROVE  (\E k \in DOMAIN t : Holds(t, k, "submap") /\ t[k].holder = r)
             <=> \E k \in DOMAIN s : Holds(s, k, "submap") /\ s[k].holder = r
  BY <1>2, <1>3, <1>4, <1>5
<1>. QED BY <1>6 DEF Entered

\* When the grab for a submap goes, its window forgets the map.
LEMMA LessOfSubmap ==
    ASSUME NEW s \in Seq(Grab), Shape(s), NEW i \in DOMAIN s,
           Holds(s, i, "submap"), NEW t, Less(t, s, i),
           NEW sub, Entered(s, sub)
    PROVE  Entered(t, sub \ {s[i].holder})
<1>1. \A k, h : Holds(t, k, h) <=> Holds(s, k, h) /\ k # i
  BY LessHolds
<1>2. \A k : Holds(s, k, "submap") => k = i
  BY OneSubmap DEF Holds
<1>3. \A k : ~Holds(t, k, "submap")
  BY <1>1, <1>2
<1>4. \A r \in Grabbing : r \in sub => r = s[i].holder
  BY <1>2 DEF Entered
<1>. QED BY <1>3, <1>4 DEF Entered

\* The press stays in its loop unless the pointer's grab goes.
LEMMA LessDragging ==
    ASSUME NEW s \in Seq(Grab), NEW i \in DOMAIN s, NEW t, Less(t, s, i),
           s[i].handler # "pointer",
           NEW p, NEW b, NEW tabwin, NEW alive, Dragging(s, p, b, tabwin, alive)
    PROVE  Dragging(t, p, b, tabwin, alive)
<1>1. \A k, h : Holds(t, k, h) <=> Holds(s, k, h) /\ k # i
  BY LessHolds
<1>2. Holds(t, 1, "pointer")
  BY <1>1 DEF Dragging, Holds
<1>3. Helds(t, "resize") => Helds(s, "resize")
  BY LessHelds
<1>. QED BY <1>2, <1>3 DEF Dragging

\* Outside of it nothing changes.
LEMMA LessReleased ==
    ASSUME NEW s \in Seq(Grab), NEW i \in DOMAIN s, NEW t, Less(t, s, i),
           NEW p, NEW tabwin, Released(s, p, tabwin)
    PROVE  Released(t, p, tabwin)
BY LessHelds DEF Released

\* A region that holds no grab may go.
LEMMA OwnedWithout ==
    ASSUME NEW s, NEW alive, NEW r, Owned(s, alive),
           \A i \in DOMAIN s : ~s[i].remove => s[i].holder # r
    PROVE  Owned(s, alive \ {r})
BY DEF Owned

-----------------------------------------------------------------------------
(* Grabs that are done.                                                    *)

\* The marks are looked at once.
LEMMA RestackedSane ==
    ASSUME NEW q \in State, NEW t \in Seq(Grab),
           t # <<>> => ~t[Len(t)].remove
    PROVE  Settled(Restacked(q, t)) = Restacked(q, t)
<1>1. Restacked(q, t).stack = t
  BY RestackedIs
<1>. QED BY <1>1 DEF Settled, Top, Last

\* What grab.c relies on is kept.
LEMMA LessStacked ==
    ASSUME NEW q \in State, Shape(q.stack), Owned(q.stack, q.alive),
           NEW i \in DOMAIN q.stack, NEW t, Less(t, q.stack, i)
    PROVE  Restacked(q, t) \in State /\ Stacked(Restacked(q, t))
<1>1. q.stack \in Seq(Grab) /\ t \in Seq(Grab) /\ (t # <<>> => ~t[Len(t)].remove)
  BY DEF State, Less
<1>2. Shape(t) /\ Owned(t, q.alive)
  BY <1>1, LessKeeps
<1>. QED BY <1>1, <1>2, RestackedIs DEF Stacked

\* A grab that is neither a pointer's nor the mode's
LEMMA LessFirm ==
    ASSUME NEW q, Firm(q), NEW i \in DOMAIN q.stack,
           q.stack[i].handler # "pointer", ~Holds(q.stack, i, "resize"),
           NEW t, Less(t, q.stack, i)
    PROVE  Firm(Restacked(q, t))
<1>1. q \in State /\ q.stack \in Seq(Grab) /\ t \in Seq(Grab)
  BY DEF Firm, State, Less
<1>. DEFINE x == Restacked(q, t)
<1>2. /\ x \in State /\ x.stack = t /\ x.alive = q.alive
      /\ x.target = q.target /\ x.timer = q.timer /\ x.sub = q.sub
      /\ x.pointer = q.pointer /\ x.button = q.button /\ x.loop = q.loop
      /\ x.tabwin = q.tabwin /\ x.ending = q.ending /\ x.failed = q.failed
  BY <1>1, RestackedIs
<1>3. Stacked(x)
  BY <1>1, LessStacked DEF Firm, Stacked
<1>. HIDE DEF x
<1>4. Living(x)
  <2>1. Owned(t, q.alive)
    BY <1>1, LessKeeps DEF Firm, Stacked
  <2>. QED BY <1>2, <2>1 DEF Firm, Living
<1>5. Resizing(x.stack, x.target, x.timer, x.pointer)
  BY <1>1, <1>2, LessResizing DEF Firm
<1>6. Pressed(x)
  BY <1>1, <1>2, LessDragging, LessReleased DEF Firm, Pressed
<1>. QED BY <1>2, <1>3, <1>4, <1>5, <1>6 DEF x, Firm

\* Such a grab is done.
LEMMA DoneFirm ==
    ASSUME NEW q, Firm(q), NEW i \in DOMAIN q.stack,
           q.stack[i].handler # "pointer", ~Holds(q.stack, i, "resize")
    PROVE  /\ Firm(Done(q, i))
           /\ Less(Done(q, i).stack, q.stack, i)
           /\ \E t \in Seq(Grab) : Done(q, i) = Restacked(q, t)
<1>1. q \in State /\ q.stack \in Seq(Grab) /\ q.stack # <<>>
  BY DEF Firm, State
<1>2. q.current = Len(q.stack) /\ q.grabbed = TRUE /\ q.mode = "grab"
  BY <1>1 DEF Firm, Stacked
<1>3. PICK t : Less(t, q.stack, i) /\ Done(q, i) = Restacked(q, t)
  BY <1>1, <1>2, DoneLeaves
<1>4. Restacked(q, t).stack = t /\ t \in Seq(Grab)
  BY <1>1, <1>3, RestackedIs DEF Less
<1>5. Firm(Restacked(q, t))
  BY <1>3, LessFirm
<1>. QED BY <1>3, <1>4, <1>5

\* So is one that is not a submap's either: all of the invariant is kept.
LEMMA DoneFine ==
    ASSUME NEW q, Fine(q), NEW i \in DOMAIN q.stack,
           q.stack[i].handler \notin {"pointer", "submap"},
           ~Holds(q.stack, i, "resize")
    PROVE  Fine(Done(q, i))
<1>1. q \in State /\ q.stack \in Seq(Grab)
  BY DEF Fine, Firm, State
<1>2. PICK t \in Seq(Grab) : Done(q, i) = Restacked(q, t)
  BY DoneFirm DEF Fine
<1>3. Restacked(q, t).stack = t /\ Restacked(q, t).sub = q.sub
  BY <1>1, RestackedIs
<1>4. Firm(Done(q, i)) /\ Less(t, q.stack, i)
  BY <1>2, <1>3, DoneFirm DEF Fine
<1>5. ~Holds(q.stack, i, "submap")
  BY DEF Holds
<1>6. Entered(t, q.sub)
  BY <1>1, <1>4, <1>5, LessEntered DEF Fine
<1>. QED BY <1>2, <1>3, <1>4, <1>6 DEF Fine

\* A submap's, of a window that forgets the map
LEMMA SubmapDoneFine ==
    ASSUME NEW q, Fine(q), NEW i \in DOMAIN q.stack,
           Holds(q.stack, i, "submap"), NEW x,
           x = Done([q EXCEPT !.sub = @ \ {q.stack[i].holder}], i)
    PROVE  Fine(x) /\ Less(x.stack, q.stack, i) /\ x.alive = q.alive
           /\ x.loop = q.loop /\ x.failed = q.failed
<1>. DEFINE y == [q EXCEPT !.sub = @ \ {q.stack[i].holder}]
<1>1. q \in State /\ q.stack \in Seq(Grab)
  BY DEF Fine, Firm, State
<1>2. /\ y \in State /\ y.stack = q.stack /\ y.sub = q.sub \ {q.stack[i].holder}
      /\ y.alive = q.alive /\ y.current = q.current /\ y.grabbed = q.grabbed
      /\ y.mode = q.mode /\ y.target = q.target /\ y.timer = q.timer
      /\ y.pointer = q.pointer /\ y.button = q.button /\ y.loop = q.loop
      /\ y.tabwin = q.tabwin /\ y.ending = q.ending /\ y.failed = q.failed
  BY <1>1 DEF State
<1>. HIDE DEF y
<1>3. Firm(y)
  BY <1>2 DEF Fine, Firm, Stacked, Living, Pressed
<1>4. y.stack[i].handler # "pointer" /\ ~Holds(y.stack, i, "resize") /\ i \in DOMAIN y.stack
  BY <1>2 DEF Holds
<1>5. Firm(Done(y, i)) /\ Less(Done(y, i).stack, y.stack, i)
  BY <1>3, <1>4, DoneFirm
<1>6. PICK t \in Seq(Grab) : Done(y, i) = Restacked(y, t)
  BY <1>3, <1>4, DoneFirm
<1>7. /\ Restacked(y, t).stack = t /\ Restacked(y, t).sub = y.sub
      /\ Restacked(y, t).alive = y.alive /\ Restacked(y, t).loop = y.loop
      /\ Restacked(y, t).failed = y.failed
  BY <1>2, RestackedIs
<1>8. Less(t, q.stack, i)
  BY <1>2, <1>5, <1>6, <1>7
<1>9. Entered(t, q.sub \ {q.stack[i].holder})
  BY <1>1, <1>8, LessOfSubmap DEF Fine, Firm, Stacked
<1>10. x = Done(y, i)
  BY DEF y
<1>. QED BY <1>2, <1>5, <1>6, <1>7, <1>8, <1>9, <1>10 DEF Fine

\* moveresmode_cancel and moveresmode_finish, with the mode's grab marked or
\* not yet
LEMMA CancelLeaves ==
    ASSUME NEW q \in State, NEW i \in DOMAIN q.stack,
           q.stack[i].handler = "resize",
           \A j \in i + 1 .. Len(q.stack) : q.stack[j].handler # "resize",
           q.current = Len(q.stack), q.grabbed = TRUE, q.mode = "grab"
    PROVE  \E t : /\ Less(t, q.stack, i)
                  /\ Cancel(q) = Restacked([q EXCEPT !.target = None, !.timer = "no"], t)
<1>. DEFINE y == [q EXCEPT !.target = None, !.timer = "no"]
<1>1. y = [DoEnd(q) EXCEPT !.timer = "no"]
  BY DEF DoEnd, State
<1>2. /\ y \in State /\ y.stack = q.stack /\ y.current = q.current
      /\ y.grabbed = q.grabbed /\ y.mode = q.mode
  BY DEF State
<1>3. Cancel(q) = GrabRemove(y, "resize")
  BY <1>1 DEF Cancel
<1>. HIDE DEF y
<1>4. GrabRemove(y, "resize") = Done(y, i)
  BY <1>2, GrabRemoveTakes
<1>5. \E t : Less(t, y.stack, i) /\ Done(y, i) = Restacked(y, t)
  BY <1>2, DoneLeaves
<1>. QED BY <1>2, <1>3, <1>4, <1>5 DEF y

\* What is left when the mode ends
Ended(q, t) == Restacked([q EXCEPT !.target = None, !.timer = "no"], t)

\* The mode ended, everything is as it must be.
LEMMA EndedFine ==
    ASSUME NEW q, Fine(q), NEW i \in DOMAIN q.stack, Holds(q.stack, i, "resize"),
           NEW t, Less(t, q.stack, i)
    PROVE  /\ Fine(Ended(q, t)) /\ Ended(q, t).stack = t
           /\ Ended(q, t).alive = q.alive /\ Ended(q, t).loop = q.loop
           /\ Ended(q, t).failed = q.failed /\ Ended(q, t).target = None
<1>. DEFINE x == Ended(q, t)
            y == [q EXCEPT !.target = None, !.timer = "no"]
<1>1. q \in State /\ q.stack \in Seq(Grab) /\ t \in Seq(Grab)
  BY DEF Fine, Firm, State, Less
<1>2. /\ y \in State /\ y.stack = q.stack /\ y.sub = q.sub
      /\ y.alive = q.alive /\ y.target = None /\ y.timer = "no"
      /\ y.pointer = q.pointer /\ y.button = q.button /\ y.loop = q.loop
      /\ y.tabwin = q.tabwin /\ y.ending = q.ending /\ y.failed = q.failed
  BY <1>1 DEF State
<1>3. x = Restacked(y, t)
  BY DEF Ended
<1>. HIDE DEF x, y
<1>4. x \in State /\ Stacked(x)
  BY <1>1, <1>2, <1>3, LessStacked DEF Fine, Firm, Stacked
<1>5. /\ x.stack = t /\ x.alive = q.alive
      /\ x.target = None /\ x.timer = "no" /\ x.sub = q.sub
      /\ x.pointer = q.pointer /\ x.button = q.button /\ x.loop = q.loop
      /\ x.tabwin = q.tabwin /\ x.ending = q.ending /\ x.failed = q.failed
  BY <1>1, <1>2, <1>3, RestackedIs
<1>6. Living(x)
  BY <1>5 DEF Fine, Firm, Living
<1>7. Resizing(x.stack, x.target, x.timer, x.pointer)
  BY <1>1, <1>5, LessOfResize DEF Fine, Firm
<1>8. Pressed(x)
  <2>1. q.stack[i].handler # "pointer"
    BY DEF Holds
  <2>. QED BY <1>1, <1>5, <2>1, LessDragging, LessReleased DEF Fine, Firm, Pressed
<1>9. Entered(x.stack, x.sub)
  <2>1. ~Holds(q.stack, i, "submap")
    BY DEF Holds
  <2>. QED BY <1>1, <1>5, <2>1, LessEntered DEF Fine
<1>. QED BY <1>4, <1>5, <1>6, <1>7, <1>8, <1>9 DEF x, Fine, Firm

\* So it is after moveresmode_cancel and moveresmode_finish.
LEMMA CancelFine ==
    ASSUME NEW q, Fine(q), NEW i \in DOMAIN q.stack, Holds(q.stack, i, "resize")
    PROVE  /\ Fine(Cancel(q)) /\ Less(Cancel(q).stack, q.stack, i)
           /\ Cancel(q).alive = q.alive /\ Cancel(q).loop = q.loop
           /\ Cancel(q).failed = q.failed
<1>1. q \in State /\ q.stack \in Seq(Grab) /\ q.stack # <<>>
  BY DEF Fine, Firm, State
<1>2. q.current = Len(q.stack) /\ q.grabbed = TRUE /\ q.mode = "grab"
  BY <1>1 DEF Fine, Firm, Stacked
<1>3. /\ q.stack[i].handler = "resize"
      /\ \A j \in i + 1 .. Len(q.stack) : q.stack[j].handler # "resize"
  BY DEF Fine, Firm, Resizing, Holds
<1>4. PICK t : Less(t, q.stack, i) /\ Cancel(q) = Ended(q, t)
  BY <1>1, <1>2, <1>3, CancelLeaves DEF Ended
<1>5. /\ Fine(Cancel(q)) /\ Cancel(q).stack = t
      /\ Cancel(q).alive = q.alive /\ Cancel(q).loop = q.loop
      /\ Cancel(q).failed = q.failed
  BY <1>4, EndedFine
<1>. QED BY <1>4, <1>5

-----------------------------------------------------------------------------
(* Grabs that are killed, and regions that go.                             *)

\* t is s with fewer grabs that are not marked: not i.
Fewer(t, s, i) ==
    /\ Len(t) <= Len(s)
    /\ \A k \in DOMAIN t : /\ k \in DOMAIN s /\ t[k].holder = s[k].holder
                           /\ ~t[k].remove => ~s[k].remove /\ k # i

\* A grab that is taken off leaves fewer.
LEMMA LessIsFewer ==
    ASSUME NEW s \in Seq(Grab), NEW i \in DOMAIN s, NEW t, Less(t, s, i)
    PROVE  Fewer(t, s, i)
<1>1. Len(t) <= Len(s)
  BY DEF Less
<1>2. ASSUME NEW k \in DOMAIN t
      PROVE  /\ k \in DOMAIN s /\ t[k].holder = s[k].holder
             /\ ~t[k].remove => ~s[k].remove /\ k # i
  <2>1. k \in 1 .. Len(t)
    BY DEF Less
  <2>. QED BY <2>1, LessHolders DEF Less
<1>. QED BY <1>1, <1>2 DEF Fewer

\* To take off what is marked is to take it off.
LEMMA LessOfMarked ==
    ASSUME NEW s \in Seq(Grab), NEW i \in DOMAIN s, NEW t,
           Less(t, [s EXCEPT ![i].remove = TRUE], i)
    PROVE  Less(t, s, i)
<1>. DEFINE m == [s EXCEPT ![i].remove = TRUE]
<1>1. Len(s) \in Nat /\ DOMAIN s = 1 .. Len(s)
      /\ \A k \in 1 .. Len(s) : s[k] \in Grab
  OBVIOUS
<1>2. Len(m) = Len(s)
  BY <1>1
<1>3. ASSUME NEW k \in 1 .. Len(s)
      PROVE  /\ m[k].holder = s[k].holder /\ m[k].handler = s[k].handler
             /\ m[k].remove <=> s[k].remove \/ k = i
  BY <1>1, <1>3 DEF Grab
<1>. HIDE DEF m
<1>4. Less(t, m, i)
  BY DEF m
<1>5. Len(t) \in Nat
  BY <1>4 DEF Less
<1>. QED BY <1>1, <1>2, <1>3, <1>4, <1>5 DEF Less

\* The rest of destroy_obj, for a region that holds no grab, outside the loop
\* of a button
LEMMA DeinitFine ==
    ASSUME NEW q, Fine(q), ~q.loop, NEW r \in Windows \ {Root},
           \A k \in DOMAIN q.stack : ~q.stack[k].remove => q.stack[k].holder # r
    PROVE  /\ Fine(Deinit(q, r)) /\ Deinit(q, r).stack = q.stack
           /\ ~Deinit(q, r).loop
<1>. DEFINE x == Deinit(q, r)
<1>1. q \in State /\ q.stack \in Seq(Grab)
  BY DEF Fine, Firm, State
<1>2. r \in Grabbing => r \notin q.sub
  BY DEF Fine, Entered, Holds
<1>3. /\ x \in State /\ x.stack = q.stack /\ x.current = q.current
      /\ x.grabbed = q.grabbed /\ x.mode = q.mode
      /\ x.alive = q.alive \ {r} /\ x.ending = q.ending \ {r}
      /\ x.sub = q.sub \ {r}
      /\ x.failed = IF r \in q.sub THEN r ELSE q.failed
      /\ x.target = q.target /\ x.timer = q.timer
      /\ x.pointer = q.pointer /\ x.button = q.button /\ x.loop = q.loop
      /\ x.tabwin = q.tabwin
  BY <1>1 DEF Deinit, State
<1>. HIDE DEF x
<1>4. Stacked(x)
  <2>1. Owned(q.stack, q.alive \ {r})
    BY OwnedWithout DEF Fine, Firm, Stacked
  <2>. QED BY <1>3, <2>1 DEF Fine, Firm, Stacked
<1>5. q.pointer = NoPointer /\ q.target # r
  <2>1. q.pointer = NoPointer
    BY DEF Fine, Firm, Pressed, Released
  <2>2. q.pointer.drag # "moveres"
    BY <2>1 DEF NoPointer
  <2>3. CASE q.target = None
    BY <2>1, <2>3, GrabsAssumption
  <2>4. CASE Helds(q.stack, "resize")
    BY <2>1, <2>4 DEF Fine, Firm, Resizing, Helds, Holds
  <2>. QED BY <2>1, <2>2, <2>3, <2>4 DEF Fine, Firm, Resizing
<1>6. Living(x)
  BY <1>2, <1>3, <1>5 DEF Fine, Firm, Living
<1>7. Resizing(x.stack, x.target, x.timer, x.pointer)
  BY <1>3 DEF Fine, Firm
<1>8. Pressed(x)
  BY <1>3 DEF Fine, Firm, Pressed
<1>9. Entered(x.stack, x.sub)
  <2>1. ASSUME NEW v \in Grabbing
        PROVE  v \in x.sub <=>
                 \E k \in DOMAIN x.stack : Holds(x.stack, k, "submap") /\ x.stack[k].holder = v
    <3>1. v \in q.sub <=>
            \E k \in DOMAIN q.stack : Holds(q.stack, k, "submap") /\ q.stack[k].holder = v
      BY DEF Fine, Entered
    <3>2. CASE v = r
      BY <1>3, <3>2 DEF Holds
    <3>3. CASE v # r
      BY <1>3, <3>1, <3>3
    <3>. QED BY <3>2, <3>3
  <2>. QED BY <2>1 DEF Entered
<1>. QED BY <1>3, <1>4, <1>6, <1>7, <1>8, <1>9 DEF x, Fine, Firm

\* Nothing more happens to a grab that is marked.
LEMMA KillMarked ==
    ASSUME NEW q, Fine(q), NEW i \in DOMAIN q.stack, q.stack[i].remove
    PROVE  Kill(q, i) = q /\ Fewer(q.stack, q.stack, i)
<1>1. Settled(q) = q
  BY DEF Fine, Firm, Stacked, Settled, Top, Last
<1>2. Kill(q, i) = q
  BY <1>1 DEF Kill
<1>3. Len(q.stack) \in Nat
  BY DEF Fine, Firm, State
<1>. QED BY <1>2, <1>3 DEF Fewer

\* What killing keeps and what it takes
Killing(x, q, i) ==
    /\ Fine(x) /\ Fewer(x.stack, q.stack, i) /\ x.loop = q.loop

\* cancel_moveres: the handler takes the grab off itself, and ends the mode.
LEMMA KillResize ==
    ASSUME NEW q, Fine(q), NEW i \in DOMAIN q.stack,
           Holds(q.stack, i, "resize")
    PROVE  Killing(Kill(q, i), q, i)
<1>. DEFINE s == q.stack
            m == [q EXCEPT !.stack[i].remove = TRUE]
            sm == [s EXCEPT ![i].remove = TRUE]
<1>1. q \in State /\ s \in Seq(Grab) /\ s # <<>>
  BY DEF Fine, Firm, State
<1>2. /\ s[i].handler = "resize" /\ ~s[i].remove /\ q.target = s[i].holder
      /\ \A j \in i + 1 .. Len(s) : s[j].handler # "resize"
  BY DEF Fine, Firm, Resizing, Holds
<1>3. q.current = Len(s) /\ q.grabbed = TRUE /\ q.mode = "grab"
  BY <1>1 DEF Fine, Firm, Stacked
<1>4. /\ sm \in Seq(Grab) /\ Len(sm) = Len(s)
      /\ \A k \in DOMAIN s : sm[k].handler = s[k].handler
  <2>1. \A k \in DOMAIN s : sm[k] = IF k = i THEN [s[k] EXCEPT !.remove = TRUE] ELSE s[k]
    BY <1>1, MarkIsStack
  <2>2. \A k \in DOMAIN s : s[k] \in Grab
    BY <1>1
  <2>3. sm \in Seq(Grab) /\ Len(sm) = Len(s)
    BY <1>1, MarkIsStack
  <2>. HIDE DEF sm
  <2>4. ASSUME NEW k \in DOMAIN s PROVE sm[k].handler = s[k].handler
    BY <2>1, <2>2 DEF Grab
  <2>. QED BY <2>3, <2>4
<1>5. m = [q EXCEPT !.stack = sm]
  BY <1>1 DEF State
<1>. HIDE DEF sm
<1>6. /\ m \in State /\ m.stack = sm /\ m.current = Len(sm)
      /\ m.grabbed = TRUE /\ m.mode = "grab" /\ m.target = q.target
  BY <1>1, <1>3, <1>4, <1>5 DEF State
<1>7. Kill(q, i) = Settled(Killed(m, s[i]))
  BY <1>2 DEF Kill
<1>. HIDE DEF m
<1>8. Killed(m, s[i]) = Cancel(m)
  BY <1>2, <1>6 DEF Killed
<1>9. \E t : /\ Less(t, m.stack, i)
             /\ Cancel(m) = Restacked([m EXCEPT !.target = None, !.timer = "no"], t)
  <2>1. i \in DOMAIN m.stack /\ Len(s) \in Nat /\ DOMAIN s = 1 .. Len(s)
    BY <1>1, <1>4, <1>6
  <2>2. m.stack[i].handler = "resize"
    BY <1>2, <1>4, <1>6
  <2>3. ASSUME NEW j \in i + 1 .. Len(m.stack) PROVE m.stack[j].handler # "resize"
    <3>1. j \in DOMAIN s /\ j \in i + 1 .. Len(s)
      BY <1>4, <1>6, <2>1
    <3>. QED BY <1>2, <1>4, <1>6, <3>1
  <2>. QED BY <1>6, <2>1, <2>2, <2>3, CancelLeaves
<1>10. PICK t : /\ Less(t, sm, i)
                /\ Cancel(m) = Restacked([m EXCEPT !.target = None, !.timer = "no"], t)
  BY <1>6, <1>9
<1>11. Less(t, s, i)
  BY <1>1, <1>10, LessOfMarked DEF sm
<1>12. t \in Seq(Grab) /\ (t # <<>> => ~t[Len(t)].remove)
  BY <1>11 DEF Less
<1>13. Cancel(m) = Ended(q, t)
  <2>. DEFINE z == [q EXCEPT !.target = None, !.timer = "no"]
  <2>1. [m EXCEPT !.target = None, !.timer = "no"] = [z EXCEPT !.stack = sm]
    BY <1>1, <1>5 DEF State
  <2>2. z \in State
    BY <1>1 DEF State
  <2>3. Ended(q, t) = Restacked(z, t)
    BY DEF Ended
  <2>4. Cancel(m) = Restacked([z EXCEPT !.stack = sm], t)
    BY <1>10, <2>1
  <2>. HIDE DEF z
  <2>5. Restacked([z EXCEPT !.stack = sm], t) = Restacked(z, t)
    BY <1>4, <1>12, <2>2, RestackedTwice
  <2>. QED BY <2>3, <2>4, <2>5
<1>14. /\ Fine(Ended(q, t)) /\ Ended(q, t).stack = t /\ Ended(q, t).loop = q.loop
  BY <1>11, EndedFine
<1>15. Settled(Ended(q, t)) = Ended(q, t)
  <2>1. [q EXCEPT !.target = None, !.timer = "no"] \in State
    BY <1>1 DEF State
  <2>. QED BY <1>12, <2>1, RestackedSane DEF Ended
<1>16. Fewer(t, s, i)
  BY <1>1, <1>11, LessIsFewer
<1>. QED BY <1>7, <1>8, <1>13, <1>14, <1>15, <1>16 DEF Killing

\* clear_subs: the window forgets the map.
LEMMA KillSubmap ==
    ASSUME NEW q, Fine(q), NEW i \in DOMAIN q.stack,
           Holds(q.stack, i, "submap")
    PROVE  Killing(Kill(q, i), q, i)
<1>. DEFINE g == q.stack[i]
            y == [q EXCEPT !.sub = @ \ {g.holder}]
            m == [q EXCEPT !.stack[i].remove = TRUE]
<1>1. q \in State /\ q.stack \in Seq(Grab)
  BY DEF Fine, Firm, State
<1>2. g.handler = "submap" /\ ~g.remove
  BY DEF Holds
<1>3. Kill(q, i) = Settled(Killed(m, g))
  BY <1>2 DEF Kill
<1>4. Killed(m, g) = [m EXCEPT !.sub = @ \ {g.holder}]
  BY <1>2 DEF Killed
<1>5. [m EXCEPT !.sub = @ \ {g.holder}] = [y EXCEPT !.stack[i].remove = TRUE]
  BY <1>1 DEF State
<1>6. y.stack = q.stack
  BY <1>1 DEF State
<1>7. Done(y, i) = Settled([y EXCEPT !.stack[i].remove = TRUE])
  BY <1>6 DEF Done
<1>8. Kill(q, i) = Done(y, i)
  BY <1>3, <1>4, <1>5, <1>7
<1>9. Fine(Done(y, i)) /\ Less(Done(y, i).stack, q.stack, i) /\ Done(y, i).loop = q.loop
  BY SubmapDoneFine
<1>10. Fewer(Done(y, i).stack, q.stack, i)
  BY <1>1, <1>9, LessIsFewer
<1>. QED BY <1>8, <1>9, <1>10 DEF Killing

\* These have no killed handler.
LEMMA KillOther ==
    ASSUME NEW q, Fine(q), NEW i \in DOMAIN q.stack,
           Holds(q.stack, i, q.stack[i].handler),
           q.stack[i].handler \in {"wait", "quote"}
    PROVE  Killing(Kill(q, i), q, i)
<1>1. q \in State /\ q.stack \in Seq(Grab)
  BY DEF Fine, Firm, State
<1>2. Kill(q, i) = Done(q, i)
  BY DEF Kill, Killed, Holds, Done
<1>3. ~Holds(q.stack, i, "resize") /\ q.stack[i].handler \notin {"pointer", "submap"}
  BY DEF Holds
<1>4. Fine(Done(q, i)) /\ Less(Done(q, i).stack, q.stack, i)
  BY <1>3, DoneFine, DoneFirm DEF Fine
<1>5. Done(q, i).loop = q.loop
  <2>1. PICK t \in Seq(Grab) : Done(q, i) = Restacked(q, t)
    BY <1>3, DoneFirm DEF Fine
  <2>. QED BY <1>1, <2>1, RestackedIs
<1>6. Fewer(Done(q, i).stack, q.stack, i)
  BY <1>1, <1>4, LessIsFewer
<1>. QED BY <1>2, <1>4, <1>5, <1>6 DEF Killing

\* A menu's grab: nothing that the menu holds is left.
LEMMA KillMenu ==
    ASSUME NEW q, Fine(q), NEW i \in DOMAIN q.stack,
           Holds(q.stack, i, "menu"),
           \A k \in i + 1 .. Len(q.stack) :
               ~q.stack[k].remove => q.stack[k].holder # q.stack[i].holder
    PROVE  Killing(Kill(q, i), q, i)
<1>. DEFINE g == q.stack[i]
            m == [q EXCEPT !.stack[i].remove = TRUE]
            d == Done(q, i)
            x == Deinit(d, g.holder)
<1>1. q \in State /\ q.stack \in Seq(Grab) /\ DOMAIN q.stack = 1 .. Len(q.stack)
      /\ Len(q.stack) \in Nat
  BY DEF Fine, Firm, State
<1>2. g.handler = "menu" /\ ~g.remove
  BY DEF Holds
<1>3. Kill(q, i) = Settled(x)
  BY <1>2 DEF Kill, Killed, Done
<1>4. g.holder \in Inputs /\ g.holder # Root
      /\ \A k \in 1 .. i - 1 : ~q.stack[k].remove => q.stack[k].holder # g.holder
  <2>1. Owned(q.stack, q.alive)
    BY DEF Fine, Firm, Stacked
  <2>. QED BY <1>2, <2>1, GrabsAssumption DEF Owned
<1>5. ~Holds(q.stack, i, "resize") /\ q.stack[i].handler \notin {"pointer", "submap"}
  BY <1>2 DEF Holds
<1>6. Fine(d) /\ Less(d.stack, q.stack, i)
  BY <1>5, DoneFine, DoneFirm DEF Fine
<1>7. d.loop = q.loop
  <2>1. PICK t \in Seq(Grab) : d = Restacked(q, t)
    BY <1>5, DoneFirm DEF Fine
  <2>. QED BY <1>1, <2>1, RestackedIs
<1>8. ~q.loop
  <2>1. Shape(q.stack) /\ (q.loop => Holds(q.stack, 1, "pointer"))
    BY DEF Fine, Firm, Stacked, Pressed, Dragging
  <2>2. q.stack[1].handler = "pointer" => i = 1 \/ g.handler = "resize"
    BY <1>1, <2>1, PointerFirst
  <2>. QED BY <1>2, <2>1, <2>2 DEF Holds
<1>9. Fewer(d.stack, q.stack, i)
  BY <1>1, <1>6, LessIsFewer
<1>. HIDE DEF d
<1>10. ASSUME NEW k \in DOMAIN d.stack, ~d.stack[k].remove
       PROVE  d.stack[k].holder # g.holder
  <2>1. k \in DOMAIN q.stack /\ d.stack[k].holder = q.stack[k].holder
        /\ ~q.stack[k].remove /\ k # i
    BY <1>9, <1>10 DEF Fewer
  <2>2. k \in 1 .. i - 1 \/ k \in i + 1 .. Len(q.stack)
    BY <1>1, <2>1
  <2>. QED BY <1>4, <2>1, <2>2
<1>11. Fine(x) /\ x.stack = d.stack /\ ~x.loop
  <2>1. g.holder \in Windows \ {Root}
    BY <1>4 DEF Windows
  <2>. QED BY <1>6, <1>7, <1>8, <1>10, <2>1, DeinitFine
<1>. HIDE DEF x
<1>12. Settled(x) = x
  BY <1>11 DEF Fine, Firm, Stacked, Settled, Top, Last
<1>13. x.loop = q.loop
  <2>1. x.loop \in BOOLEAN /\ q.loop \in BOOLEAN
    BY <1>1, <1>11 DEF Fine, Firm, State
  <2>. QED BY <1>8, <1>11, <2>1
<1>. QED BY <1>3, <1>9, <1>11, <1>12, <1>13 DEF Killing

\* mark_for_removal of any grab but a pointer's, when those of its holder
\* above it are gone
LEMMA KillFine ==
    ASSUME NEW q, Fine(q), NEW i \in DOMAIN q.stack,
           ~Holds(q.stack, i, "pointer"),
           \A k \in i + 1 .. Len(q.stack) :
               ~q.stack[k].remove => q.stack[k].holder # q.stack[i].holder
    PROVE  Killing(Kill(q, i), q, i)
<1>1. q.stack[i] \in Grab
  BY DEF Fine, Firm, State
<1>2. CASE q.stack[i].remove
  BY <1>2, KillMarked DEF Killing
<1>3. CASE ~q.stack[i].remove
  <2>1. q.stack[i].handler \in Handlers /\ q.stack[i].handler # "pointer"
    BY <1>1, <1>3 DEF Grab, Holds
  <2>2. Holds(q.stack, i, q.stack[i].handler)
    BY <1>3 DEF Holds
  <2>3. CASE q.stack[i].handler = "resize"
    BY <2>2, <2>3, KillResize
  <2>4. CASE q.stack[i].handler = "submap"
    BY <2>2, <2>4, KillSubmap
  <2>5. CASE q.stack[i].handler = "menu"
    BY <2>2, <2>5, KillMenu
  <2>6. CASE q.stack[i].handler \in {"wait", "quote"}
    BY <2>2, <2>6, KillOther
  <2>. QED BY <2>1, <2>3, <2>4, <2>5, <2>6 DEF Handlers
<1>. QED BY <1>2, <1>3

\* What holds of x when the loop of do_holder_remove came down to i
CameTo(x, reg, n, i) ==
    /\ Fine(x) /\ ~x.loop /\ Len(x.stack) <= n
    /\ \A j \in DOMAIN x.stack :
           j > i /\ ~x.stack[j].remove => x.stack[j].holder # reg
HolderStep(x, reg, i) ==
    IF i \in DOMAIN x.stack /\ x.stack[i].holder = reg THEN Kill(x, i) ELSE x

\* One round of it
LEMMA HolderStepFine ==
    ASSUME NEW x, NEW reg, NEW n \in Nat, NEW i \in 1 .. n,
           CameTo(x, reg, n, i)
    PROVE  CameTo(HolderStep(x, reg, i), reg, n, i - 1)
<1>. DEFINE y == HolderStep(x, reg, i)
<1>1. x \in State /\ DOMAIN x.stack = 1 .. Len(x.stack) /\ Len(x.stack) \in Nat
      /\ x.loop \in BOOLEAN
  BY DEF CameTo, Fine, Firm, State
<1>2. CASE i \in DOMAIN x.stack /\ x.stack[i].holder = reg
  <2>1. y = Kill(x, i)
    BY <1>2 DEF HolderStep
  <2>2. ~Holds(x.stack, i, "pointer")
    BY DEF CameTo, Fine, Firm, Pressed, Released, Helds, Holds
  <2>3. ASSUME NEW k \in i + 1 .. Len(x.stack), ~x.stack[k].remove
        PROVE  x.stack[k].holder # x.stack[i].holder
    <3>1. k \in DOMAIN x.stack /\ k > i
      BY <1>1, <1>2
    <3>. QED BY <1>2, <2>3, <3>1 DEF CameTo
  <2>4. Killing(y, x, i)
    BY <1>2, <2>1, <2>2, <2>3, KillFine DEF CameTo
  <2>. HIDE DEF y
  <2>5. Fine(y) /\ ~y.loop /\ Fewer(y.stack, x.stack, i)
    BY <2>4 DEF Killing, CameTo
  <2>6. DOMAIN y.stack = 1 .. Len(y.stack) /\ Len(y.stack) \in Nat
    BY <2>5 DEF Fine, Firm, State
  <2>7. Len(y.stack) <= n
    BY <1>1, <2>5, <2>6 DEF CameTo, Fewer
  <2>8. ASSUME NEW j \in DOMAIN y.stack, j > i - 1, ~y.stack[j].remove
        PROVE  y.stack[j].holder # reg
    <3>1. j \in DOMAIN x.stack /\ y.stack[j].holder = x.stack[j].holder
          /\ ~x.stack[j].remove /\ j # i
      BY <2>5, <2>8 DEF Fewer
    <3>2. j > i
      BY <2>6, <2>8, <3>1
    <3>. QED BY <3>1, <3>2 DEF CameTo
  <2>. QED BY <2>5, <2>7, <2>8 DEF y, CameTo
<1>3. CASE ~(i \in DOMAIN x.stack /\ x.stack[i].holder = reg)
  <2>1. y = x
    BY <1>3 DEF HolderStep
  <2>2. ASSUME NEW j \in DOMAIN x.stack, j > i - 1, ~x.stack[j].remove
        PROVE  x.stack[j].holder # reg
    <3>1. j = i \/ j > i
      BY <1>1, <2>2
    <3>. QED BY <1>3, <2>2, <3>1 DEF CameTo
  <2>. QED BY <2>1, <2>2 DEF CameTo
<1>. QED BY <1>2, <1>3

\* ioncore_grab_holder_remove takes all grabs of a region.
LEMMA HolderRemoveFine ==
    ASSUME NEW q, Fine(q), ~q.loop, NEW reg
    PROVE  CameTo(HolderRemove(q, reg), reg, Len(q.stack), 0)
<1>. DEFINE N == Len(q.stack)
            S == State
            base == q
            next(k, x) == HolderStep(x, reg, N + 1 - k)
            step == [k \in 1 .. N |-> [x \in S |-> IF next(k, x) \in S THEN next(k, x) ELSE x]]
            Body(f) == [k \in 0 .. N |->
                           IF k = 0 THEN q
                           ELSE LET x == f[k - 1]
                                    i == N + 1 - k
                                IN IF i \in DOMAIN x.stack /\ x.stack[i].holder = reg
                                   THEN Kill(x, i) ELSE x]
            after == CHOOSE f : f = Body(f)
<1>1. N \in Nat /\ q \in State /\ DOMAIN q.stack = 1 .. N
  BY DEF Fine, Firm, State
<1>2. HolderRemove(q, reg) = after[N]
  BY DEF HolderRemove
<1>3. ASSUME NEW f, NEW k \in 0 .. N
      PROVE  Body(f)[k] = IF k = 0 THEN q ELSE next(k, f[k - 1])
  BY <1>3 DEF HolderStep
<1>4. /\ DOMAIN Body(after) = 0 .. N
      /\ \A f : /\ DOMAIN Body(f) = 0 .. N
                /\ Body(f) = [j \in 0 .. N |-> Body(f)[j]]
  OBVIOUS
<1>5. CameTo(q, reg, N, N - 0)
  <2>1. \A j \in DOMAIN q.stack : ~(j > N)
    BY <1>1
  <2>. QED BY <1>1, <2>1 DEF CameTo
<1>6. ASSUME NEW k \in 1 .. N, NEW x, CameTo(x, reg, N, N - (k - 1))
      PROVE  CameTo(next(k, x), reg, N, N - k) /\ next(k, x) \in State
  <2>1. N + 1 - k \in 1 .. N /\ N - (k - 1) = N + 1 - k /\ N - k = (N + 1 - k) - 1
    BY <1>1
  <2>2. CameTo(next(k, x), reg, N, (N + 1 - k) - 1)
    <3>1. CameTo(x, reg, N, N + 1 - k)
      BY <1>6, <2>1
    <3>. QED BY <1>1, <2>1, <3>1, HolderStepFine
  <2>. QED BY <2>1, <2>2 DEF CameTo, Fine, Firm
<1>7. \E f : f = Body(f)
  <2>1. step \in [1 .. N -> [S -> S]]
    OBVIOUS
  <2>2. base \in S
    BY <1>1
  <2>. HIDE DEF step, base
  <2>3. PICK f \in [0 .. N -> S] : Recurs(f, N, base, step)
    BY <1>1, <2>1, <2>2, RecursionExists
  <2>4. /\ f[0] = q
        /\ \A k \in 1 .. N : f[k - 1] \in S /\ f[k] = step[k][f[k - 1]]
    BY <1>1, <2>3 DEF Recurs, base
  <2>5. ASSUME NEW k \in 1 .. N
        PROVE  f[k] = IF next(k, f[k - 1]) \in S THEN next(k, f[k - 1]) ELSE f[k - 1]
    <3>. HIDE DEF next, S
    <3>. QED BY <2>4 DEF step
  <2>. DEFINE T == {k \in 0 .. N : CameTo(f[k], reg, N, N - k)}
  <2>. HIDE DEF next, S, Body
  <2>6. 0 \in T
    BY <1>1, <1>5, <2>4
  <2>7. ASSUME NEW k \in 1 .. N, k - 1 \in T PROVE k \in T
    <3>1. CameTo(next(k, f[k - 1]), reg, N, N - k) /\ next(k, f[k - 1]) \in S
      BY <1>6, <2>7 DEF S
    <3>2. f[k] = next(k, f[k - 1]) /\ k \in 0 .. N
      BY <2>5, <3>1
    <3>. QED BY <3>1, <3>2
  <2>8. \A k \in 0 .. N : k \in T
    <3>. HIDE DEF T
    <3>1. \A k \in 1 .. N : k - 1 \in T => k \in T
      BY <2>7
    <3>. QED BY <1>1, <2>6, <3>1, Induction
  <2>9. ASSUME NEW k \in 0 .. N PROVE f[k] = Body(f)[k]
    <3>1. CASE k = 0
      BY <1>3, <2>4, <3>1
    <3>2. CASE k # 0
      <4>1. k \in 1 .. N /\ k - 1 \in 0 .. N
        BY <1>1, <3>2
      <4>2. CameTo(f[k - 1], reg, N, N - (k - 1))
        BY <2>8, <4>1
      <4>3. f[k] = next(k, f[k - 1])
        BY <1>6, <2>5, <4>1, <4>2 DEF S
      <4>. QED BY <1>3, <3>2, <4>3
    <3>. QED BY <3>1, <3>2
  <2>10. DOMAIN f = 0 .. N /\ DOMAIN Body(f) = 0 .. N /\ Body(f) = [k \in 0 .. N |-> Body(f)[k]]
    BY <1>4, <2>3
  <2>11. f = [k \in 0 .. N |-> f[k]]
    BY <2>3
  <2>. QED BY <2>9, <2>10, <2>11
<1>8. after = Body(after)
  BY <1>7
<1>. HIDE DEF after
<1>9. /\ after[0] = q
      /\ \A k \in 1 .. N : after[k] = next(k, after[k - 1])
  <2>. HIDE DEF next, Body
  <2>1. after[0] = q
    BY <1>1, <1>3, <1>8
  <2>2. ASSUME NEW k \in 1 .. N PROVE after[k] = next(k, after[k - 1])
    <3>1. k \in 0 .. N /\ k # 0
      BY <1>1
    <3>. QED BY <1>3, <1>8, <3>1
  <2>. QED BY <2>1, <2>2
<1>. DEFINE T == {k \in 0 .. N : CameTo(after[k], reg, N, N - k)}
<1>10. 0 \in T
  BY <1>1, <1>5, <1>9
<1>11. ASSUME NEW k \in 1 .. N, k - 1 \in T PROVE k \in T
  <2>1. CameTo(next(k, after[k - 1]), reg, N, N - k)
    BY <1>6, <1>11
  <2>. HIDE DEF next
  <2>2. k \in 0 .. N
    BY <1>1
  <2>. QED BY <1>9, <2>1, <2>2
<1>12. N \in T
  <2>. HIDE DEF T
  <2>1. \A k \in 1 .. N : k - 1 \in T => k \in T
    BY <1>11
  <2>2. \A k \in 0 .. N : k \in T
    BY <1>1, <1>10, <2>1, Induction
  <2>. QED BY <1>1, <2>2
<1>13. N - N = 0
  BY <1>1
<1>. QED BY <1>2, <1>12, <1>13

\* A region is destroyed, outside the loop of a button.
LEMMA DestroyedFine ==
    ASSUME NEW q, Fine(q), ~q.loop, NEW r \in Windows \ {Root}
    PROVE  Fine(Destroyed(q, r))
<1>. DEFINE x == HolderRemove(q, r)
<1>1. CameTo(x, r, Len(q.stack), 0)
  BY HolderRemoveFine
<1>. HIDE DEF x
<1>2. Fine(x) /\ ~x.loop /\ DOMAIN x.stack = 1 .. Len(x.stack) /\ Len(x.stack) \in Nat
  BY <1>1 DEF CameTo, Fine, Firm, State
<1>3. \A k \in DOMAIN x.stack : ~x.stack[k].remove => x.stack[k].holder # r
  BY <1>1, <1>2 DEF CameTo
<1>4. Fine(Deinit(x, r))
  BY <1>2, <1>3, DeinitFine
<1>. QED BY <1>4 DEF x, Destroyed

-----------------------------------------------------------------------------
(* Grabs that are established.                                             *)

NewGrab(r, h) == [holder |-> r, handler |-> h, remove |-> FALSE]

\* Where the new grab is, and where the others are
LEMMA PushedIs ==
    ASSUME NEW s \in Seq(Grab), NEW r \in Windows, NEW h \in Handlers
    PROVE  LET t == Append(s, NewGrab(r, h)) IN
           /\ t \in Seq(Grab) /\ Len(t) = Len(s) + 1 /\ t # <<>>
           /\ \A k \in DOMAIN s : k \in DOMAIN t /\ t[k] = s[k]
           /\ \A k \in DOMAIN t : k \in DOMAIN s \/ k = Len(s) + 1
           /\ t[Len(s) + 1] = NewGrab(r, h)
           /\ \A k, g : Holds(t, k, g) <=> Holds(s, k, g) \/ (k = Len(s) + 1 /\ g = h)
<1>. DEFINE n == NewGrab(r, h)
            t == Append(s, n)
<1>1. n \in Grab /\ n.holder = r /\ n.handler = h /\ n.remove = FALSE
  BY DEF NewGrab, Grab
<1>. HIDE DEF n
<1>2. Len(s) \in Nat /\ DOMAIN s = 1 .. Len(s)
  OBVIOUS
<1>3. t \in Seq(Grab) /\ Len(t) = Len(s) + 1 /\ DOMAIN t = 1 .. Len(s) + 1
      /\ t[Len(s) + 1] = n
  BY <1>1
<1>4. \A k \in 1 .. Len(s) : t[k] = s[k]
  BY <1>1
<1>. HIDE DEF t
<1>5. t # <<>>
  BY <1>2, <1>3
<1>6. \A k \in DOMAIN s : k \in DOMAIN t /\ t[k] = s[k]
  BY <1>2, <1>3, <1>4
<1>7. \A k \in DOMAIN t : k \in DOMAIN s \/ k = Len(s) + 1
  BY <1>2, <1>3
<1>8. Len(s) + 1 \in DOMAIN t /\ Len(s) + 1 \notin DOMAIN s
  BY <1>2, <1>3
<1>9. ASSUME NEW k, NEW g
      PROVE  Holds(t, k, g) <=> Holds(s, k, g) \/ (k = Len(s) + 1 /\ g = h)
  <2>1. CASE k \in DOMAIN s
    BY <1>6, <1>8, <2>1 DEF Holds
  <2>2. CASE k = Len(s) + 1
    BY <1>1, <1>3, <1>8, <2>2 DEF Holds
  <2>3. CASE k \notin DOMAIN s /\ k # Len(s) + 1
    BY <1>7, <2>3 DEF Holds
  <2>. QED BY <2>1, <2>2, <2>3
<1>. QED BY <1>3, <1>5, <1>6, <1>7, <1>9 DEF t, n

\* Whether there is a grab with a handler now
LEMMA PushedHelds ==
    ASSUME NEW s \in Seq(Grab), NEW r \in Windows, NEW h \in Handlers, NEW g
    PROVE  Helds(Append(s, NewGrab(r, h)), g) <=> Helds(s, g) \/ g = h
<1>. DEFINE t == Append(s, NewGrab(r, h))
<1>1. /\ \A k \in DOMAIN s : k \in DOMAIN t
      /\ \A k, f : Holds(t, k, f) <=> Holds(s, k, f) \/ (k = Len(s) + 1 /\ f = h)
  BY PushedIs
<1>. HIDE DEF t
<1>2. Holds(t, Len(s) + 1, h)
  BY <1>1
<1>3. \A k, f : Holds(t, k, f) => k \in DOMAIN t
  BY DEF Holds
<1>4. \A k, f : Holds(s, k, f) => k \in DOMAIN s
  BY DEF Holds
<1>. QED BY <1>1, <1>2, <1>3, <1>4 DEF t, Helds

\* Where a function that is called for a key may grab
Open(s) == s = <<>> \/ Holds(s, Len(s), "submap")

\* What may be put above what
LEMMA PushedShape ==
    ASSUME NEW s \in Seq(Grab), Shape(s), NEW r \in Windows, NEW h \in Handlers,
           \/ s = <<>>
           \/ h \in Asked /\ Open(s)
           \/ h \in {"submap", "wait"} /\ Len(s) = 1 /\ s[1].handler \in Asked
           \/ h = "resize" /\ Len(s) = 1 /\ s[1].handler = "pointer"
    PROVE  Shape(Append(s, NewGrab(r, h)))
<1>. DEFINE t == Append(s, NewGrab(r, h))
<1>1. /\ t \in Seq(Grab) /\ Len(t) = Len(s) + 1
      /\ \A k \in DOMAIN s : t[k] = s[k]
      /\ t[Len(s) + 1].handler = h
  BY PushedIs DEF NewGrab
<1>. HIDE DEF t
<1>2. Len(s) \in Nat /\ DOMAIN s = 1 .. Len(s)
  OBVIOUS
<1>3. CASE s = <<>>
  BY <1>1, <1>3 DEF Shape, t
<1>4. CASE Len(s) = 1 /\ Above(s[1].handler, h)
  <2>1. t[1].handler = s[1].handler /\ t[2].handler = h
    BY <1>1, <1>2, <1>4
  <2>. QED BY <1>1, <1>4, <2>1 DEF Shape, t
<1>5. CASE Len(s) > 1 /\ h \in Asked /\ Holds(s, Len(s), "submap")
  <2>1. s[Len(s)].handler = "submap"
    BY <1>5 DEF Holds
  <2>2. Len(s) = 2
    <3>1. Len(s) # 3
      <4>. SUFFICES ASSUME Len(s) = 3 PROVE FALSE
        OBVIOUS
      <4>1. s[2].handler = "submap" /\ s[3].handler = "submap"
            /\ 2 \in DOMAIN s /\ 3 \in DOMAIN s
        BY <1>2, <2>1 DEF Shape
      <4>2. 2 = 3
        BY <4>1, OneSubmap
      <4>. QED BY <4>2
    <3>. QED BY <1>2, <1>5, <3>1 DEF Shape
  <2>3. 1 \in 1 .. Len(s) - 1 /\ 1 + 1 = 2
    BY <2>2
  <2>4. Above(s[1].handler, s[2].handler)
    BY <2>3 DEF Shape
  <2>5. t[1].handler = s[1].handler /\ t[2].handler = s[2].handler
        /\ t[3].handler = h /\ Len(t) = 3
    BY <1>1, <1>2, <2>2
  <2>6. Above(t[2].handler, t[3].handler)
    BY <1>5, <2>1, <2>2, <2>5 DEF Above
  <2>7. \A k \in 1 .. Len(t) - 1 : k = 1 \/ k = 2
    BY <2>5
  <2>. QED BY <2>1, <2>2, <2>4, <2>5, <2>6, <2>7 DEF Shape, t
<1>6. Len(s) = 0 => s = <<>>
  OBVIOUS
<1>7. Len(s) = 1 /\ Holds(s, Len(s), "submap") => s[1].handler = "submap"
  BY DEF Holds
<1>. QED BY <1>2, <1>3, <1>4, <1>5, <1>6, <1>7 DEF Open, Above, Asked

\* What grab.c relies on is kept.
LEMMA PushedStacked ==
    ASSUME NEW q \in State, NEW r \in q.alive, NEW h \in Handlers,
           Shape(Append(q.stack, NewGrab(r, h))), Owned(q.stack, q.alive),
           h = "submap" => r \in Grabbing,
           h = "menu" => /\ r \in Inputs
                         /\ \A k \in DOMAIN q.stack :
                               ~q.stack[k].remove => q.stack[k].holder # r
    PROVE  LET x == Restacked(q, Append(q.stack, NewGrab(r, h)))
           IN x \in State /\ Stacked(x)
<1>. DEFINE s == q.stack
            t == Append(s, NewGrab(r, h))
            x == Restacked(q, t)
<1>1. s \in Seq(Grab) /\ r \in Windows /\ Len(s) \in Nat /\ DOMAIN s = 1 .. Len(s)
  BY DEF State
<1>2. /\ t \in Seq(Grab) /\ Len(t) = Len(s) + 1 /\ t # <<>>
      /\ \A k \in DOMAIN s : k \in DOMAIN t /\ t[k] = s[k]
      /\ \A k \in DOMAIN t : k \in DOMAIN s \/ k = Len(s) + 1
      /\ t[Len(s) + 1] = NewGrab(r, h)
  BY <1>1, PushedIs
<1>. HIDE DEF t
<1>3. t[Len(s) + 1].holder = r /\ t[Len(s) + 1].handler = h /\ t[Len(s) + 1].remove = FALSE
  BY <1>2 DEF NewGrab
<1>4. ASSUME NEW k \in DOMAIN t, ~t[k].remove
      PROVE  /\ t[k].holder \in q.alive
             /\ t[k].handler = "submap" => t[k].holder \in Grabbing
             /\ t[k].handler = "menu" =>
                  /\ t[k].holder \in Inputs
                  /\ \A j \in 1 .. k - 1 : ~t[j].remove => t[j].holder # t[k].holder
  <2>1. CASE k \in DOMAIN s
    <3>1. \A j \in 1 .. k - 1 : j \in DOMAIN s
      BY <1>1, <2>1
    <3>. QED BY <1>2, <1>4, <2>1, <3>1 DEF Owned
  <2>2. CASE k = Len(s) + 1
    <3>1. \A j \in 1 .. k - 1 : j \in DOMAIN s
      BY <1>1, <2>2
    <3>. QED BY <1>2, <1>3, <2>2, <3>1
  <2>. QED BY <1>2, <2>1, <2>2
<1>5. Owned(t, q.alive)
  BY <1>4 DEF Owned
<1>6. Shape(t) /\ ~t[Len(t)].remove
  BY <1>2, <1>3 DEF t
<1>7. /\ x \in State /\ x.stack = t /\ x.current = Len(t) /\ x.alive = q.alive
      /\ x.grabbed = (t # <<>>) /\ x.mode = IF t # <<>> THEN "grab" ELSE "normal"
  BY <1>2, RestackedIs
<1>. HIDE DEF x
<1>8. x \in State /\ Stacked(x)
  BY <1>5, <1>6, <1>7 DEF Stacked
<1>. QED BY <1>8 DEF x, t

\* A grab that is not for resizing
LEMMA PushedResizing ==
    ASSUME NEW s \in Seq(Grab), NEW r \in Windows, NEW h \in Handlers \ {"resize"},
           NEW target, NEW timer, NEW p, Resizing(s, target, timer, p)
    PROVE  Resizing(Append(s, NewGrab(r, h)), target, timer, p)
<1>. DEFINE t == Append(s, NewGrab(r, h))
<1>1. /\ t \in Seq(Grab) /\ Len(t) = Len(s) + 1
      /\ \A k \in DOMAIN s : k \in DOMAIN t /\ t[k] = s[k]
      /\ \A k \in DOMAIN t : k \in DOMAIN s \/ k = Len(s) + 1
      /\ t[Len(s) + 1].handler # "resize"
      /\ \A k : Holds(t, k, "resize") => Holds(s, k, "resize")
  BY PushedIs DEF NewGrab
<1>2. Helds(t, "resize") <=> Helds(s, "resize")
  BY PushedHelds
<1>. HIDE DEF t
<1>3. ASSUME NEW k \in DOMAIN t, Holds(t, k, "resize")
      PROVE  /\ t[k].holder = target /\ timer # "no"
             /\ \A j \in k + 1 .. Len(t) : t[j].handler # "resize"
  <2>1. Holds(s, k, "resize") /\ k \in DOMAIN s
    BY <1>1, <1>3 DEF Holds
  <2>2. ASSUME NEW j \in k + 1 .. Len(t) PROVE t[j].handler # "resize"
    <3>1. j \in k + 1 .. Len(s) \/ j = Len(s) + 1
      BY <1>1, <2>1
    <3>2. j \in k + 1 .. Len(s) => j \in DOMAIN s
      BY <2>1
    <3>. QED BY <1>1, <2>1, <3>1, <3>2 DEF Resizing
  <2>. QED BY <1>1, <2>1, <2>2 DEF Resizing
<1>4. Resizing(t, target, timer, p)
  BY <1>2, <1>3 DEF Resizing
<1>. QED BY <1>4 DEF t

\* The grab of a mode that begins
LEMMA PushedMode ==
    ASSUME NEW s \in Seq(Grab), NEW r \in Windows, NEW timer, NEW p, NEW o,
           Resizing(s, None, timer, o), Owned(s, Windows)
    PROVE  Resizing(Append(s, NewGrab(r, "resize")), r, "set", p)
<1>. DEFINE t == Append(s, NewGrab(r, "resize"))
<1>0. "resize" \in Handlers
  BY DEF Handlers
<1>1. /\ t \in Seq(Grab) /\ Len(t) = Len(s) + 1
      /\ t[Len(s) + 1] = NewGrab(r, "resize")
      /\ \A k : Holds(t, k, "resize") => Holds(s, k, "resize") \/ k = Len(s) + 1
  BY <1>0, PushedIs
<1>2. Helds(t, "resize")
  BY <1>0, PushedHelds
<1>. HIDE DEF t
<1>3. \A k : ~Holds(s, k, "resize")
  BY GrabsAssumption DEF Resizing, Owned, Holds
<1>4. t[Len(s) + 1].holder = r
  BY <1>1 DEF NewGrab
<1>5. ASSUME NEW k \in DOMAIN t, Holds(t, k, "resize")
      PROVE  /\ t[k].holder = r
             /\ \A j \in k + 1 .. Len(t) : t[j].handler # "resize"
  <2>1. k = Len(s) + 1
    BY <1>1, <1>3, <1>5
  <2>. QED BY <1>1, <1>4, <2>1
<1>6. Resizing(t, r, "set", p)
  BY <1>2, <1>5 DEF Resizing
<1>. QED BY <1>6 DEF t

\* A grab that is not for a submap
LEMMA PushedEntered ==
    ASSUME NEW s \in Seq(Grab), NEW r \in Windows, NEW h \in Handlers \ {"submap"},
           NEW sub, Entered(s, sub)
    PROVE  Entered(Append(s, NewGrab(r, h)), sub)
<1>. DEFINE t == Append(s, NewGrab(r, h))
<1>1. /\ \A k \in DOMAIN s : k \in DOMAIN t /\ t[k] = s[k]
      /\ \A k : Holds(t, k, "submap") <=> Holds(s, k, "submap")
  BY PushedIs
<1>. HIDE DEF t
<1>2. \A k : Holds(s, k, "submap") => k \in DOMAIN s
  BY DEF Holds
<1>3. ASSUME NEW v
      PROVE  (\E k \in DOMAIN t : Holds(t, k, "submap") /\ t[k].holder = v)
             <=> \E k \in DOMAIN s : Holds(s, k, "submap") /\ s[k].holder = v
  BY <1>1, <1>2
<1>4. Entered(t, sub)
  BY <1>3 DEF Entered
<1>. QED BY <1>4 DEF t

\* The grab for the map that a window entered
LEMMA PushedSubmap ==
    ASSUME NEW s \in Seq(Grab), NEW r \in Windows, NEW sub, Entered(s, sub)
    PROVE  Entered(Append(s, NewGrab(r, "submap")), sub \cup {r})
<1>. DEFINE t == Append(s, NewGrab(r, "submap"))
<1>0. "submap" \in Handlers
  BY DEF Handlers
<1>1. /\ \A k \in DOMAIN s : k \in DOMAIN t /\ t[k] = s[k]
      /\ t[Len(s) + 1] = NewGrab(r, "submap")
      /\ \A k : Holds(t, k, "submap") <=> Holds(s, k, "submap") \/ k = Len(s) + 1
  BY <1>0, PushedIs
<1>. HIDE DEF t
<1>2. \A k : Holds(s, k, "submap") => k \in DOMAIN s
  BY DEF Holds
<1>3. t[Len(s) + 1].holder = r /\ Holds(t, Len(s) + 1, "submap")
      /\ Len(s) + 1 \in DOMAIN t
  BY <1>1 DEF NewGrab, Holds
<1>4. ASSUME NEW v
      PROVE  (\E k \in DOMAIN t : Holds(t, k, "submap") /\ t[k].holder = v)
             <=> v = r \/ \E k \in DOMAIN s : Holds(s, k, "submap") /\ s[k].holder = v
  <2>1. ASSUME NEW k \in DOMAIN t, Holds(t, k, "submap"), t[k].holder = v
        PROVE  v = r \/ \E j \in DOMAIN s : Holds(s, j, "submap") /\ s[j].holder = v
    BY <1>1, <1>2, <1>3, <2>1
  <2>2. ASSUME NEW k \in DOMAIN s, Holds(s, k, "submap"), s[k].holder = v
        PROVE  \E j \in DOMAIN t : Holds(t, j, "submap") /\ t[j].holder = v
    BY <1>1, <2>2
  <2>3. v = r => \E j \in DOMAIN t : Holds(t, j, "submap") /\ t[j].holder = v
    BY <1>3
  <2>. QED BY <2>1, <2>2, <2>3
<1>5. Entered(t, sub \cup {r})
  BY <1>4 DEF Entered
<1>. QED BY <1>5 DEF t

\* A grab that is not for a press
LEMMA PushedReleased ==
    ASSUME NEW s \in Seq(Grab), NEW r \in Windows, NEW h \in Handlers \ {"pointer"},
           NEW p, NEW tabwin, Released(s, p, tabwin)
    PROVE  Released(Append(s, NewGrab(r, h)), p, tabwin)
BY PushedHelds DEF Released

-----------------------------------------------------------------------------
(* Functions that are called for a key.                                    *)

\* What region_begin_kbresize leaves
Begun(q, r) ==
    Restacked([q EXCEPT !.target = r, !.timer = "set"],
              Append(q.stack, NewGrab(r, "resize")))

\* There is room for the grab.
LEMMA BeginIsBegun ==
    ASSUME NEW q \in State, NEW r \in Windows \ {Root}, q.target = None,
           Len(q.stack) <= 3
    PROVE  BeginKbResize(q, r) = Begun(q, r)
<1>. DEFINE y == [q EXCEPT !.target = r, !.timer = "set"]
<1>1. [BeginResize(q, r) EXCEPT !.timer = "set"] = y
  BY DEF BeginResize, State
<1>2. y \in State /\ y.stack = q.stack
  BY DEF State
<1>3. BeginKbResize(q, r) = Establish(y, r, "resize")
  BY <1>1 DEF BeginKbResize
<1>. HIDE DEF y
<1>4. "resize" \in Handlers
  BY DEF Handlers
<1>5. Establish(y, r, "resize")
        = Restacked(y, Append(y.stack, NewGrab(r, "resize")))
  BY <1>2, <1>4, EstablishPushes DEF NewGrab
<1>. QED BY <1>2, <1>3, <1>5 DEF y, Begun

\* The mode begins with its grab and its timer.
LEMMA BegunKeeps ==
    ASSUME NEW q \in State, NEW r \in q.alive \ {Root}, q.target = None,
           Owned(q.stack, q.alive), Living(q),
           Resizing(q.stack, q.target, q.timer, q.pointer),
           Shape(Append(q.stack, NewGrab(r, "resize")))
    PROVE  LET x == Begun(q, r) IN
           /\ x \in State /\ Stacked(x) /\ Living(x)
           /\ Resizing(x.stack, x.target, x.timer, x.pointer)
           /\ x.stack = Append(q.stack, NewGrab(r, "resize"))
           /\ x.alive = q.alive /\ x.sub = q.sub /\ x.pointer = q.pointer
           /\ x.button = q.button /\ x.loop = q.loop
           /\ x.tabwin = q.tabwin /\ x.failed = q.failed
<1>. DEFINE y == [q EXCEPT !.target = r, !.timer = "set"]
            t == Append(q.stack, NewGrab(r, "resize"))
            x == Restacked(y, t)
<1>1. q.stack \in Seq(Grab) /\ r \in Windows /\ "resize" \in Handlers
      /\ q.alive \subseteq Windows
  BY DEF State, Handlers
<1>2. /\ y \in State /\ y.stack = q.stack /\ y.alive = q.alive
      /\ y.target = r /\ y.timer = "set" /\ y.sub = q.sub
      /\ y.pointer = q.pointer /\ y.button = q.button /\ y.loop = q.loop
      /\ y.tabwin = q.tabwin /\ y.ending = q.ending /\ y.failed = q.failed
  BY <1>1 DEF State
<1>3. x = Begun(q, r)
  BY DEF Begun
<1>. HIDE DEF y
<1>4. t \in Seq(Grab)
  BY <1>1, PushedIs
<1>5. x \in State /\ Stacked(x)
  <2>1. t = Append(y.stack, NewGrab(r, "resize")) /\ r \in y.alive
        /\ Shape(t) /\ Owned(y.stack, y.alive)
    BY <1>2
  <2>. QED BY <1>1, <1>2, <2>1, PushedStacked
<1>6. Resizing(t, r, "set", q.pointer)
  <2>1. Owned(q.stack, Windows)
    BY <1>1 DEF Owned
  <2>. QED BY <1>1, <2>1, PushedMode
<1>7. /\ x.stack = t /\ x.alive = q.alive
      /\ x.target = r /\ x.timer = "set" /\ x.sub = q.sub
      /\ x.pointer = q.pointer /\ x.button = q.button /\ x.loop = q.loop
      /\ x.tabwin = q.tabwin /\ x.ending = q.ending /\ x.failed = q.failed
  <2>. HIDE DEF t
  <2>. QED BY <1>2, <1>4, RestackedIs
<1>. HIDE DEF x, t
<1>8. Living(x)
  BY <1>7 DEF Living
<1>. QED BY <1>3, <1>5, <1>6, <1>7, <1>8 DEF t

\* What calling a function for a key gives
Called(x, q) ==
    /\ Firm(x) /\ ~x.loop /\ x.sub = q.sub /\ q.alive \subseteq x.alive
    /\ \/ x.stack = q.stack
       \/ \E r \in Windows, h \in Asked :
              x.stack = Append(q.stack, NewGrab(r, h))

\* A grab that is neither a pointer's, the mode's nor a submap's
LEMMA PushedFirm ==
    ASSUME NEW q, Firm(q), ~q.loop, NEW r \in q.alive,
           NEW h \in {"submap", "wait", "quote", "menu"},
           Shape(Append(q.stack, NewGrab(r, h))),
           h = "submap" => r \in Grabbing,
           h = "menu" => /\ r \in Inputs
                         /\ \A k \in DOMAIN q.stack :
                               ~q.stack[k].remove => q.stack[k].holder # r
    PROVE  LET x == Establish(q, r, h) IN
           /\ Firm(x) /\ ~x.loop /\ x.sub = q.sub /\ x.alive = q.alive
           /\ x.stack = Append(q.stack, NewGrab(r, h))
<1>. DEFINE s == q.stack
            t == Append(s, NewGrab(r, h))
            x == Restacked(q, t)
<1>1. q \in State /\ s \in Seq(Grab) /\ r \in Windows /\ Len(s) \in Nat
      /\ h \in Handlers /\ h # "pointer" /\ h # "resize"
      /\ q.loop \in BOOLEAN
  BY DEF Firm, State, Handlers
<1>2. t \in Seq(Grab) /\ Len(t) = Len(s) + 1
  BY <1>1, PushedIs
<1>3. Len(s) <= 3
  BY <1>1, <1>2 DEF Shape
<1>4. Establish(q, r, h) = x
  BY <1>1, <1>3, EstablishPushes DEF NewGrab
<1>5. x \in State /\ Stacked(x)
  BY <1>1, PushedStacked DEF Firm, Stacked
<1>6. /\ x.stack = t /\ x.alive = q.alive
      /\ x.target = q.target /\ x.timer = q.timer /\ x.sub = q.sub
      /\ x.pointer = q.pointer /\ x.button = q.button /\ x.loop = q.loop
      /\ x.tabwin = q.tabwin /\ x.ending = q.ending /\ x.failed = q.failed
  BY <1>1, <1>2, RestackedIs
<1>7. Resizing(t, q.target, q.timer, q.pointer)
  BY <1>1, PushedResizing DEF Firm
<1>8. Released(t, q.pointer, q.tabwin)
  BY <1>1, PushedReleased DEF Firm, Pressed
<1>. HIDE DEF x, t
<1>9. Living(x)
  BY <1>6 DEF Firm, Living
<1>10. Pressed(x)
  BY <1>6, <1>8 DEF Pressed
<1>11. Firm(x)
  BY <1>5, <1>6, <1>7, <1>9, <1>10 DEF Firm
<1>. QED BY <1>4, <1>6, <1>11 DEF t

\* A window that is there now
LEMMA BornFirm ==
    ASSUME NEW q, Firm(q), NEW m \in Windows
    PROVE  LET x == [q EXCEPT !.alive = @ \cup {m}] IN
           /\ Firm(x) /\ x.stack = q.stack /\ x.sub = q.sub
           /\ x.loop = q.loop /\ x.alive = q.alive \cup {m}
<1>. DEFINE x == [q EXCEPT !.alive = @ \cup {m}]
<1>1. /\ x \in State /\ x.stack = q.stack /\ x.current = q.current
      /\ x.grabbed = q.grabbed /\ x.mode = q.mode
      /\ x.alive = q.alive \cup {m} /\ x.ending = q.ending
      /\ x.sub = q.sub /\ x.failed = q.failed
      /\ x.target = q.target /\ x.timer = q.timer
      /\ x.pointer = q.pointer /\ x.button = q.button /\ x.loop = q.loop
      /\ x.tabwin = q.tabwin
  BY DEF Firm, State
<1>. HIDE DEF x
<1>2. Stacked(x)
  BY <1>1 DEF Firm, Stacked, Owned
<1>3. Living(x)
  BY <1>1 DEF Firm, Living
<1>4. Pressed(x)
  BY <1>1 DEF Firm, Pressed, Dragging
<1>5. Resizing(x.stack, x.target, x.timer, x.pointer)
  BY <1>1 DEF Firm
<1>. QED BY <1>1, <1>2, <1>3, <1>4, <1>5 DEF x, Firm

\* Whatever function a key calls, at most one grab is put on the stack.
LEMMA CallFirm ==
    ASSUME NEW q, Firm(q), ~q.loop, Open(q.stack),
           NEW f \in KeyCalls(q) \cup GrabMenus(q)
    PROVE  Called(Call(q, f), q)
<1>1. q \in State /\ q.stack \in Seq(Grab) /\ q.alive \subseteq Windows
      /\ Shape(q.stack) /\ Owned(q.stack, q.alive) /\ Len(q.stack) \in Nat
  BY DEF Firm, State, Stacked
<1>2. ASSUME NEW r \in Windows, NEW h \in Asked
      PROVE  Shape(Append(q.stack, NewGrab(r, h)))
  <2>1. h \in Handlers
    BY DEF Asked, Handlers
  <2>. QED BY <1>1, <2>1, PushedShape
<1>3. CASE f = Nothing
  BY <1>3 DEF Called, Call, Nothing
<1>4. ASSUME NEW r \in q.alive \ {Root}, f = <<"kbresize", r>>
      PROVE  Called(Call(q, f), q)
  <2>1. Call(q, f) = BeginKbResize(q, r)
    BY <1>4 DEF Call
  <2>2. CASE q.target # None
    BY <2>1, <2>2 DEF BeginKbResize, Called
  <2>3. CASE q.target = None
    <3>1. "resize" \in Asked /\ r \in Windows /\ "resize" \in Handlers
      BY <1>1 DEF Asked, Handlers
    <3>2. Shape(Append(q.stack, NewGrab(r, "resize")))
      BY <1>2, <3>1
    <3>3. Len(q.stack) <= 3
      BY <1>1 DEF Shape
    <3>4. BeginKbResize(q, r) = Begun(q, r)
      BY <1>1, <2>3, <3>1, <3>3, BeginIsBegun
    <3>. DEFINE x == Begun(q, r)
    <3>5. /\ x \in State /\ Stacked(x) /\ Living(x)
          /\ Resizing(x.stack, x.target, x.timer, x.pointer)
          /\ x.stack = Append(q.stack, NewGrab(r, "resize"))
          /\ x.alive = q.alive /\ x.sub = q.sub /\ x.pointer = q.pointer
          /\ x.loop = q.loop /\ x.tabwin = q.tabwin
      BY <1>1, <2>3, <3>2, BegunKeeps DEF Firm
    <3>. HIDE DEF x
    <3>6. Released(x.stack, x.pointer, x.tabwin)
      BY <1>1, <3>1, <3>5, PushedReleased DEF Firm, Pressed
    <3>7. Firm(x)
      BY <3>5, <3>6 DEF Firm, Pressed
    <3>. QED BY <2>1, <3>1, <3>4, <3>5, <3>7 DEF x, Called
  <2>. QED BY <2>2, <2>3
<1>5. ASSUME NEW m \in Inputs \ q.alive
      PROVE  LET new == [q EXCEPT !.alive = @ \cup {m}] IN
             /\ Firm(new) /\ new.stack = q.stack /\ new.sub = q.sub
             /\ ~new.loop /\ new.alive = q.alive \cup {m}
  BY <1>5, BornFirm DEF Windows
<1>6. ASSUME NEW m \in Inputs \ q.alive, f = <<"query", m>>
      PROVE  Called(Call(q, f), q)
  <2>1. Call(q, f) = [q EXCEPT !.alive = @ \cup {m}]
    BY <1>6 DEF Call
  <2>. QED BY <1>5, <2>1 DEF Called
<1>7. ASSUME NEW m \in Inputs \ q.alive, f = <<"grabmenu", m>>
      PROVE  Called(Call(q, f), q)
  <2>. DEFINE new == [q EXCEPT !.alive = @ \cup {m}]
  <2>1. Call(q, f) = Establish(new, m, "menu")
    BY <1>7 DEF Call
  <2>2. /\ Firm(new) /\ new.stack = q.stack /\ new.sub = q.sub
        /\ ~new.loop /\ new.alive = q.alive \cup {m}
    BY <1>5
  <2>. HIDE DEF new
  <2>3. "menu" \in Asked /\ m \in Windows /\ m \in new.alive
    BY <2>2 DEF Asked, Windows
  <2>4. Shape(Append(new.stack, NewGrab(m, "menu")))
    BY <1>2, <2>2, <2>3
  <2>5. \A k \in DOMAIN new.stack :
            ~new.stack[k].remove => new.stack[k].holder # m
    BY <1>1, <2>2 DEF Owned
  <2>. DEFINE x == Establish(new, m, "menu")
  <2>6. /\ Firm(x) /\ ~x.loop /\ x.sub = new.sub /\ x.alive = new.alive
        /\ x.stack = Append(new.stack, NewGrab(m, "menu"))
    BY <2>2, <2>3, <2>4, <2>5, PushedFirm
  <2>. HIDE DEF x
  <2>7. Called(x, q)
    BY <2>2, <2>3, <2>6 DEF Called
  <2>. QED BY <2>1, <2>7 DEF x
<1>8. ASSUME NEW c \in Clients \cap q.alive, f = <<"quote", c>>
      PROVE  Called(Call(q, f), q)
  <2>1. Call(q, f) = Establish(q, c, "quote")
    BY <1>8 DEF Call
  <2>2. "quote" \in Asked /\ c \in Windows
    BY <1>1 DEF Asked
  <2>3. Shape(Append(q.stack, NewGrab(c, "quote")))
    BY <1>2, <2>2
  <2>. DEFINE x == Establish(q, c, "quote")
  <2>4. /\ Firm(x) /\ ~x.loop /\ x.sub = q.sub /\ x.alive = q.alive
        /\ x.stack = Append(q.stack, NewGrab(c, "quote"))
    BY <2>3, PushedFirm
  <2>. HIDE DEF x
  <2>5. Called(x, q)
    BY <2>2, <2>4 DEF Called
  <2>. QED BY <2>1, <2>5 DEF x
<1>. QED BY <1>3, <1>4, <1>6, <1>7, <1>8 DEF KeyCalls, GrabMenus

-----------------------------------------------------------------------------
(* Keys.                                                                   *)

\* What of the invariant is needed most
LEMMA FineState ==
    ASSUME NEW q, Fine(q)
    PROVE  /\ q \in State /\ q.stack \in Seq(Grab) /\ Len(q.stack) \in Nat
           /\ DOMAIN q.stack = 1 .. Len(q.stack)
           /\ q.alive \subseteq Windows /\ q.sub \subseteq q.alive
           /\ q.loop \in BOOLEAN
           /\ Shape(q.stack) /\ Owned(q.stack, q.alive)
BY DEF Fine, Firm, State, Stacked, Living

\* Whatever is called enters and leaves no map.
LEMMA CalledEntered ==
    ASSUME NEW q, q.stack \in Seq(Grab), NEW x, Called(x, q),
           NEW sub, Entered(q.stack, sub)
    PROVE  Entered(x.stack, sub)
<1>1. CASE x.stack = q.stack
  BY <1>1
<1>2. ASSUME NEW r \in Windows, NEW h \in Asked,
             x.stack = Append(q.stack, NewGrab(r, h))
      PROVE  Entered(x.stack, sub)
  <2>1. h \in Handlers \ {"submap"}
    BY DEF Asked, Handlers
  <2>. QED BY <1>2, <2>1, PushedEntered
<1>. QED BY <1>1, <1>2 DEF Called

\* A window's maps are entered or left
LEMMA SubFirm ==
    ASSUME NEW q, Firm(q), NEW sub, sub \subseteq q.alive
    PROVE  LET x == [q EXCEPT !.sub = sub] IN
           /\ Firm(x) /\ x.stack = q.stack /\ x.sub = sub
           /\ x.alive = q.alive /\ x.loop = q.loop
<1>. DEFINE x == [q EXCEPT !.sub = sub]
<1>0. q.alive \subseteq Windows
  BY DEF Firm, State
<1>1. /\ x \in State /\ x.stack = q.stack /\ x.current = q.current
      /\ x.grabbed = q.grabbed /\ x.mode = q.mode
      /\ x.alive = q.alive /\ x.ending = q.ending
      /\ x.sub = sub /\ x.failed = q.failed
      /\ x.target = q.target /\ x.timer = q.timer
      /\ x.pointer = q.pointer /\ x.button = q.button /\ x.loop = q.loop
      /\ x.tabwin = q.tabwin
  BY <1>0 DEF Firm, State
<1>. HIDE DEF x
<1>2. Firm(x)
  BY <1>1 DEF Firm, Stacked, Living, Pressed
<1>. QED BY <1>1, <1>2 DEF x

\* mark_for_removal of the topmost says anew whether the keys are grabbed.
LEMMA DoneTop ==
    ASSUME NEW q \in State, q.stack # <<>>
    PROVE  Done(q, Len(q.stack))
             = Restacked(q, Popped([q.stack EXCEPT ![Len(q.stack)].remove = TRUE]))
<1>. DEFINE s == q.stack
            i == Len(s)
            m == [s EXCEPT ![i].remove = TRUE]
            x == [q EXCEPT !.stack[i].remove = TRUE]
<1>1. s \in Seq(Grab) /\ DOMAIN s = 1 .. Len(s) /\ Len(s) \in Nat /\ i \in DOMAIN s
  BY DEF State
<1>2. m \in Seq(Grab) /\ Len(m) = Len(s) /\ m[i].remove
  <2>1. m \in Seq(Grab) /\ Len(m) = Len(s)
    BY <1>1, MarkIsStack
  <2>2. m[i] = [s[i] EXCEPT !.remove = TRUE] /\ s[i] \in Grab
    BY <1>1
  <2>3. m[i].remove
    BY <2>2 DEF Grab
  <2>. QED BY <2>1, <2>3
<1>3. x = [q EXCEPT !.stack = m]
  BY DEF State
<1>4. Done(q, i) = Settled(x)
  BY <1>1 DEF Done
<1>. HIDE DEF m
<1>5. x \in State /\ x.stack = m
  BY <1>2, <1>3 DEF State
<1>. HIDE DEF x
<1>6. m # <<>> /\ m[Len(m)].remove
  BY <1>1, <1>2
<1>7. Settled(x) = DoGrabRemove(x)
  BY <1>5, <1>6 DEF Settled, Top, Last
<1>8. DoGrabRemove(x) = Restacked(x, Popped(m))
  BY <1>5, DoGrabRemovePops
<1>9. Tidied(Popped(m), m)
  BY <1>2, PoppedIsTidied
<1>10. Restacked(x, Popped(m)) = Restacked(q, Popped(m))
  BY <1>2, <1>3, <1>9, RestackedTwice DEF Tidied
<1>. QED BY <1>4, <1>7, <1>8, <1>10 DEF m

\* do_key ungrabs before the call: what comes after grabs or ungrabs anyway.
Alike(x, y, q, g) ==
    x = y \/ (x = [y EXCEPT !.grabbed = g] /\ y.stack = q.stack /\ y \in State)

LEMMA CallUngrabbed ==
    ASSUME NEW q \in State, NEW g \in BOOLEAN, Len(q.stack) <= 3,
           NEW f \in KeyCalls(q) \cup GrabMenus(q)
    PROVE  Alike(Call([q EXCEPT !.grabbed = g], f), Call(q, f), q, g)
<1>. DEFINE p == [q EXCEPT !.grabbed = g]
<1>1. /\ p \in State /\ p.stack = q.stack /\ p.target = q.target
      /\ p.alive = q.alive /\ p = [q EXCEPT !.grabbed = g]
  BY DEF State
<1>2. q.alive \subseteq Windows
  BY DEF State
<1>. HIDE DEF p
<1>3. ASSUME f = Nothing PROVE Alike(Call(p, f), Call(q, f), q, g)
  BY <1>1, <1>3 DEF Call, Nothing, Alike
<1>4. ASSUME NEW r \in q.alive \ {Root}, f = <<"kbresize", r>>
      PROVE  Alike(Call(p, f), Call(q, f), q, g)
  <2>1. Call(q, f) = BeginKbResize(q, r) /\ Call(p, f) = BeginKbResize(p, r)
    BY <1>4 DEF Call
  <2>2. CASE q.target # None
    BY <1>1, <2>1, <2>2 DEF BeginKbResize, Alike
  <2>3. CASE q.target = None
    <3>1. BeginKbResize(q, r) = Begun(q, r)
      BY <1>2, <2>3, BeginIsBegun
    <3>2. BeginKbResize(p, r) = Begun(p, r)
      BY <1>1, <1>2, <2>3, BeginIsBegun
    <3>3. Begun(p, r) = Begun(q, r)
      BY <1>1 DEF Begun, Restacked, State
    <3>. QED BY <2>1, <3>1, <3>2, <3>3 DEF Alike
  <2>. QED BY <2>2, <2>3
<1>5. ASSUME NEW m \in Inputs \ q.alive, f = <<"query", m>>
      PROVE  Alike(Call(p, f), Call(q, f), q, g)
  <2>. DEFINE y == [q EXCEPT !.alive = @ \cup {m}]
              z == [p EXCEPT !.alive = @ \cup {m}]
  <2>1. Call(q, f) = y /\ Call(p, f) = z
    BY <1>5 DEF Call
  <2>2. m \in Windows
    BY DEF Windows
  <2>3. y \in State /\ y.stack = q.stack /\ z = [y EXCEPT !.grabbed = g]
    BY <1>1, <2>2 DEF State
  <2>. HIDE DEF y, z
  <2>. QED BY <2>1, <2>3 DEF Alike
<1>6. ASSUME NEW m \in Inputs \ q.alive, f = <<"grabmenu", m>>
      PROVE  Alike(Call(p, f), Call(q, f), q, g)
  <2>. DEFINE y == [q EXCEPT !.alive = @ \cup {m}]
              z == [p EXCEPT !.alive = @ \cup {m}]
  <2>1. Call(q, f) = Establish(y, m, "menu") /\ Call(p, f) = Establish(z, m, "menu")
    BY <1>6 DEF Call
  <2>2. m \in Windows /\ "menu" \in Handlers
    BY DEF Windows, Handlers
  <2>3. y \in State /\ y.stack = q.stack /\ z \in State /\ z.stack = q.stack
        /\ z = [y EXCEPT !.grabbed = g]
    BY <1>1, <2>2 DEF State
  <2>. HIDE DEF y, z
  <2>. DEFINE t == Append(q.stack, [holder |-> m, handler |-> "menu", remove |-> FALSE])
  <2>4. Establish(y, m, "menu") = Restacked(y, t) /\ Establish(z, m, "menu") = Restacked(z, t)
    <3>1. Establish(y, m, "menu") = Restacked(y, t)
      BY <2>2, <2>3, EstablishPushes
    <3>2. Establish(z, m, "menu") = Restacked(z, t)
      BY <2>2, <2>3, EstablishPushes
    <3>. QED BY <3>1, <3>2
  <2>. HIDE DEF t
  <2>5. Restacked(z, t) = Restacked(y, t)
    BY <2>3 DEF Restacked, State
  <2>. QED BY <2>1, <2>4, <2>5 DEF Alike
<1>7. ASSUME NEW c \in Clients \cap q.alive, f = <<"quote", c>>
      PROVE  Alike(Call(p, f), Call(q, f), q, g)
  <2>1. Call(q, f) = Establish(q, c, "quote") /\ Call(p, f) = Establish(p, c, "quote")
    BY <1>7 DEF Call
  <2>2. c \in Windows /\ "quote" \in Handlers
    BY <1>2 DEF Handlers
  <2>. DEFINE t == Append(q.stack, [holder |-> c, handler |-> "quote", remove |-> FALSE])
  <2>3. Establish(q, c, "quote") = Restacked(q, t) /\ Establish(p, c, "quote") = Restacked(p, t)
    BY <1>1, <2>2, EstablishPushes
  <2>. HIDE DEF t
  <2>4. Restacked(p, t) = Restacked(q, t)
    BY <1>1 DEF Restacked, State
  <2>. QED BY <2>1, <2>3, <2>4 DEF Alike
<1>8. Alike(Call(p, f), Call(q, f), q, g)
  BY <1>3, <1>4, <1>5, <1>6, <1>7 DEF KeyCalls, GrabMenus
<1>. QED BY <1>1, <1>8

\* Every binding has a function, if only one that does nothing.
LEMMA BoundCalls ==
    ASSUME NEW b \in Bound(w)
    PROVE  /\ b.to \in {"nothing", "submap", "function"}
           /\ b.fn \in KeyCalls(w) \cup GrabMenus(w)
<1>. DEFINE Fns == KeyCalls(w) \cup GrabMenus(w)
<1>1. b \in {[to |-> "nothing", fn |-> Nothing, wait |-> FALSE]}
            \cup [to : {"submap"}, fn : Fns, wait : {FALSE}]
            \cup [to : {"function"}, fn : Fns, wait : BOOLEAN]
  BY DEF Bound
<1>2. Nothing \in Fns
  BY DEF KeyCalls
<1>. HIDE DEF Fns
<1>3. CASE b = [to |-> "nothing", fn |-> Nothing, wait |-> FALSE]
  BY <1>2, <1>3 DEF Fns
<1>4. CASE b \in [to : {"submap"}, fn : Fns, wait : {FALSE}]
  BY <1>4 DEF Fns
<1>5. CASE b \in [to : {"function"}, fn : Fns, wait : BOOLEAN]
  BY <1>5 DEF Fns
<1>. QED BY <1>1, <1>3, <1>4, <1>5

\* A function is called for a key.
LEMMA CalledFine ==
    ASSUME NEW q, Fine(q), NEW x, Called(x, q)
    PROVE  Fine(x)
<1>1. q.stack \in Seq(Grab)
  BY FineState
<1>2. Entered(x.stack, q.sub)
  BY <1>1, CalledEntered DEF Fine
<1>. QED BY <1>2 DEF Called, Fine

\* Above what the call grabbed, if anything, is room for the key's own grab.
LEMMA AboveCalled ==
    ASSUME NEW x, x.stack = <<>>, NEW y, Called(y, x),
           NEW r \in Windows, NEW h \in {"submap", "wait"}
    PROVE  Shape(Append(y.stack, NewGrab(r, h)))
<1>1. y.stack \in Seq(Grab) /\ Shape(y.stack) /\ h \in Handlers
  BY DEF Called, Firm, State, Stacked, Handlers
<1>2. CASE y.stack = <<>>
  BY <1>1, <1>2, PushedShape
<1>3. ASSUME NEW v \in Windows, NEW g \in Asked,
             y.stack = Append(<<>>, NewGrab(v, g))
      PROVE  Len(y.stack) = 1 /\ y.stack[1].handler \in Asked
  <2>1. y.stack = <<NewGrab(v, g)>>
    BY <1>3
  <2>. QED BY <2>1 DEF NewGrab
<1>4. CASE Len(y.stack) = 1 /\ y.stack[1].handler \in Asked
  BY <1>1, <1>4, PushedShape
<1>. QED BY <1>2, <1>3, <1>4 DEF Called

\* A key, while nothing is grabbed: the map that is entered has its grab above
\* what its entering grabbed.
LEMMA KeyPressFine ==
    ASSUME IInv, NEW reg \in Windows, NEW b \in Bound(w), KeyPress(reg, b)
    PROVE  IInv'
<1>. DEFINE after == DoKey(w, reg, b)
            grab == DoKeyGrab(w, reg, b)
<1>1. /\ w \in State /\ w.stack = <<>> /\ w.stack \in Seq(Grab) /\ ~w.loop
      /\ reg \in w.alive /\ w.sub \subseteq w.alive /\ w.alive \subseteq Windows
      /\ Fine(w) /\ Firm(w) /\ Entered(w.stack, w.sub) /\ Open(w.stack)
      /\ Root \in w.alive
  BY FineState DEF KeyPress, IInv, Fine, Firm, Open, Living
<1>2. \A v \in Grabbing : v \notin w.sub
  BY <1>1 DEF Entered
<1>3. /\ b.to \in {"nothing", "submap", "function"}
      /\ b.fn \in KeyCalls(w) \cup GrabMenus(w)
  BY BoundCalls
<1>4. w' = CASE grab = "submap" -> Establish(after, reg, "submap")
             [] grab = "wait" -> Establish(after, Root, "wait")
             [] grab = "none" -> [after EXCEPT !.sub = @ \ {reg}]
             [] OTHER -> after
  BY DEF KeyPress
<1>5. CASE b.to = "submap"
  <2>. DEFINE q == [w EXCEPT !.sub = @ \cup {reg}]
  <2>1. after = Call(q, b.fn)
    BY <1>5 DEF DoKey
  <2>2. /\ Firm(q) /\ q.stack = w.stack /\ q.sub = w.sub \cup {reg}
        /\ q.alive = w.alive /\ q.loop = w.loop
    <3>1. w.sub \cup {reg} \subseteq w.alive
      BY <1>1
    <3>. QED BY <1>1, <3>1, SubFirm
  <2>. HIDE DEF q
  <2>3. Called(after, q)
    <3>1. b.fn \in KeyCalls(q) \cup GrabMenus(q)
      BY <1>3, <2>2 DEF KeyCalls, GrabMenus
    <3>. QED BY <1>1, <2>1, <2>2, <3>1, CallFirm
  <2>4. Entered(after.stack, w.sub)
    BY <1>1, <2>2, <2>3, CalledEntered
  <2>5. /\ Firm(after) /\ ~after.loop /\ after.stack \in Seq(Grab)
        /\ after.sub = w.sub \cup {reg} /\ reg \in after.alive
    BY <1>1, <2>2, <2>3 DEF Called, Firm, State
  <2>6. CASE reg \in Grabbing
    <3>1. w' = Establish(after, reg, "submap")
      BY <1>4, <1>5, <2>6 DEF DoKeyGrab
    <3>2. Shape(Append(after.stack, NewGrab(reg, "submap")))
      BY <1>1, <2>2, <2>3, AboveCalled
    <3>. DEFINE x == Establish(after, reg, "submap")
    <3>. HIDE DEF after
    <3>3. /\ Firm(x) /\ x.sub = after.sub
          /\ x.stack = Append(after.stack, NewGrab(reg, "submap"))
      BY <2>5, <2>6, <3>2, PushedFirm
    <3>. HIDE DEF x
    <3>4. Entered(x.stack, x.sub)
      BY <2>4, <2>5, <3>3, PushedSubmap
    <3>. QED BY <3>1, <3>3, <3>4 DEF x, IInv, Fine
  <2>7. CASE reg \notin Grabbing
    <3>1. w' = after
      BY <1>4, <1>5, <2>7 DEF DoKeyGrab
    <3>2. Entered(after.stack, after.sub)
      BY <2>4, <2>5, <2>7 DEF Entered
    <3>. QED BY <2>5, <3>1, <3>2 DEF IInv, Fine
  <2>. QED BY <2>6, <2>7
<1>6. CASE b.to # "submap"
  <2>1. Called(after, w)
    <3>1. CASE b.to = "nothing"
      <4>1. after = w
        BY <3>1 DEF DoKey
      <4>. QED BY <1>1, <4>1 DEF Called
    <3>2. CASE b.to = "function"
      <4>1. w.grabbed = FALSE
        BY <1>1 DEF Firm, Stacked
      <4>2. [w EXCEPT !.grabbed = @ /\ reg \notin Grabbing] = w
        BY <1>1, <4>1 DEF State
      <4>3. after = Call(w, b.fn)
        BY <3>2, <4>2 DEF DoKey
      <4>. QED BY <1>1, <1>3, <4>3, CallFirm
    <3>. QED BY <1>3, <1>6, <3>1, <3>2
  <2>. HIDE DEF after
  <2>2. Entered(after.stack, w.sub)
    BY <1>1, <2>1, CalledEntered
  <2>3. /\ Firm(after) /\ ~after.loop /\ after.stack \in Seq(Grab)
        /\ after.sub = w.sub /\ w.alive \subseteq after.alive
    BY <2>1 DEF Called, Firm, State
  <2>4. CASE grab = "wait"
    <3>1. w' = Establish(after, Root, "wait")
      BY <1>4, <2>4
    <3>2. Root \in Windows /\ Root \in after.alive
      BY <1>1, <2>3
    <3>3. Shape(Append(after.stack, NewGrab(Root, "wait")))
      BY <1>1, <2>1, <3>2, AboveCalled
    <3>. DEFINE x == Establish(after, Root, "wait")
    <3>4. /\ Firm(x) /\ x.sub = after.sub
          /\ x.stack = Append(after.stack, NewGrab(Root, "wait"))
      BY <2>3, <3>2, <3>3, PushedFirm
    <3>. HIDE DEF x
    <3>5. Entered(x.stack, x.sub)
      <4>1. "wait" \in Handlers \ {"submap"}
        BY DEF Handlers
      <4>. QED BY <2>2, <2>3, <3>2, <3>4, <4>1, PushedEntered
    <3>. QED BY <3>1, <3>4, <3>5 DEF x, IInv, Fine
  <2>5. CASE grab # "wait"
    <3>1. grab = "none"
      BY <1>6, <2>5 DEF DoKeyGrab
    <3>2. w' = [after EXCEPT !.sub = @ \ {reg}]
      BY <1>4, <3>1
    <3>. DEFINE x == [after EXCEPT !.sub = after.sub \ {reg}]
    <3>3. Firm(x) /\ x.stack = after.stack /\ x.sub = w.sub \ {reg}
      <4>. DEFINE sub == w.sub \ {reg}
      <4>1. sub \subseteq after.alive
        BY <1>1, <2>3
      <4>2. x = [after EXCEPT !.sub = sub]
        BY <2>3
      <4>. HIDE DEF sub, x
      <4>3. Firm(x) /\ x.stack = after.stack /\ x.sub = sub
        BY <2>3, <4>1, <4>2, SubFirm
      <4>. QED BY <4>3 DEF sub
    <3>4. x = [after EXCEPT !.sub = @ \ {reg}]
      OBVIOUS
    <3>. HIDE DEF x
    <3>5. Entered(x.stack, x.sub)
      BY <1>2, <2>2, <3>3 DEF Entered
    <3>. QED BY <3>2, <3>3, <3>4, <3>5 DEF IInv, Fine
  <2>. QED BY <2>4, <2>5
<1>. QED BY <1>5, <1>6

\* The grab that gets the keys
LEMMA TopHolds ==
    ASSUME NEW q, Fine(q), q.stack # <<>>
    PROVE  LET i == Len(q.stack) IN
           /\ i \in DOMAIN q.stack /\ Top(q) = q.stack[i] /\ q.stack[i] \in Grab
           /\ Holds(q.stack, i, q.stack[i].handler)
           /\ q.stack[i].holder \in q.alive
<1>1. /\ q.stack \in Seq(Grab) /\ Len(q.stack) \in Nat
      /\ DOMAIN q.stack = 1 .. Len(q.stack) /\ Owned(q.stack, q.alive)
  BY FineState
<1>2. Len(q.stack) \in DOMAIN q.stack
  BY <1>1
<1>3. ~q.stack[Len(q.stack)].remove
  BY DEF Fine, Firm, Stacked
<1>. QED BY <1>1, <1>2, <1>3 DEF Top, Last, Holds, Owned

\* No button is pressed while the keys are another's
LEMMA NotInLoop ==
    ASSUME NEW q, Fine(q), NEW i \in DOMAIN q.stack,
           q.stack[i].handler \notin {"pointer", "resize"}
    PROVE  ~q.loop
<1>1. q.loop => Holds(q.stack, 1, "pointer")
  BY DEF Fine, Firm, Pressed, Dragging
<1>2. q.stack[1].handler = "pointer" => i = 1 \/ q.stack[i].handler = "resize"
  BY FineState, PointerFirst
<1>. QED BY <1>1, <1>2 DEF Holds

\* The next key of a map: the grab is taken off, though another may be above
\* it by now, and the map is left.
LEMMA SubmapKeyFine ==
    ASSUME IInv, NEW b \in Bound(w), SubmapKey(b)
    PROVE  IInv'
<1>. DEFINE i == Len(w.stack)
            reg == w.stack[i].holder
            after == DoKey(w, reg, b)
            y == Call(w, b.fn)
<1>1. /\ Fine(w) /\ Firm(w) /\ w.stack # <<>> /\ w.stack \in Seq(Grab)
      /\ w \in State /\ Top(w) = w.stack[i] /\ i \in DOMAIN w.stack
      /\ w.stack[i].handler = "submap" /\ Holds(w.stack, i, "submap")
      /\ i \in Nat /\ i <= 3
  BY FineState, TopHolds DEF IInv, Fine, SubmapKey, KeyFor, Shape
<1>2. reg \in Grabbing /\ reg \in w.alive /\ reg \in w.sub
  <2>1. reg \in Grabbing /\ reg \in w.alive
    BY <1>1, FineState DEF Holds, Owned
  <2>. QED BY <1>1, <2>1 DEF Fine, Entered
<1>3. ~w.loop /\ Open(w.stack)
  BY <1>1, NotInLoop DEF Open
<1>4. /\ b.to \in {"nothing", "submap", "function"}
      /\ b.fn \in KeyCalls(w) \cup GrabMenus(w)
  BY BoundCalls
<1>5. w' = IF DoKeyGrab(w, reg, b) = "submap" THEN after
           ELSE Done([after EXCEPT !.sub = @ \ {reg}], i)
  BY <1>1 DEF SubmapKey, Slot
<1>6. Called(y, w)
  BY <1>1, <1>3, <1>4, CallFirm
<1>. HIDE DEF reg
<1>7. CASE b.to = "submap"
  <2>1. DoKeyGrab(w, reg, b) = "submap"
    BY <1>2, <1>7 DEF DoKeyGrab
  <2>2. [w EXCEPT !.sub = @ \cup {reg}] = w
    <3>1. w.sub \cup {reg} = w.sub
      BY <1>2
    <3>. QED BY <1>1, <3>1 DEF State
  <2>3. after = y
    BY <1>7, <2>2 DEF DoKey
  <2>. HIDE DEF after, y
  <2>4. Fine(y)
    BY <1>1, <1>6, CalledFine
  <2>. QED BY <1>5, <2>1, <2>3, <2>4 DEF IInv
<1>8. ASSUME NEW x, Called(x, w), NEW z, z = Done([x EXCEPT !.sub = @ \ {reg}], i)
      PROVE  Fine(z)
  <2>1. Fine(x) /\ x.sub = w.sub /\ x.stack \in Seq(Grab)
    BY <1>1, <1>8, CalledFine, FineState DEF Called
  <2>2. i \in DOMAIN x.stack /\ x.stack[i] = w.stack[i]
    <3>1. ASSUME NEW r \in Windows, NEW h \in Asked,
                 x.stack = Append(w.stack, NewGrab(r, h))
          PROVE  i \in DOMAIN x.stack /\ x.stack[i] = w.stack[i]
      <4>1. h \in Handlers
        BY DEF Asked, Handlers
      <4>. QED BY <1>1, <3>1, <4>1, PushedIs
    <3>. QED BY <1>1, <1>8, <3>1 DEF Called
  <2>3. Holds(x.stack, i, "submap") /\ x.stack[i].holder = reg
    BY <1>1, <2>2 DEF Holds, reg
  <2>4. z = Done([x EXCEPT !.sub = @ \ {x.stack[i].holder}], i)
    BY <1>8, <2>3
  <2>. QED BY <2>1, <2>2, <2>3, <2>4, SubmapDoneFine
<1>9. CASE b.to # "submap"
  <2>1. w' = Done([after EXCEPT !.sub = @ \ {reg}], i)
    BY <1>5, <1>9 DEF DoKeyGrab
  <2>2. CASE b.to = "nothing"
    <3>1. after = w
      BY <2>2 DEF DoKey
    <3>2. Called(w, w)
      BY <1>1, <1>3 DEF Called
    <3>. QED BY <1>8, <2>1, <3>1, <3>2 DEF IInv
  <2>3. CASE b.to = "function"
    <3>1. after = Call([w EXCEPT !.grabbed = FALSE], b.fn)
      <4>1. (w.grabbed /\ reg \notin Grabbing) = FALSE
        BY <1>1, <1>2 DEF State
      <4>2. [w EXCEPT !.grabbed = @ /\ reg \notin Grabbing]
              = [w EXCEPT !.grabbed = FALSE]
        BY <4>1
      <4>. QED BY <2>3, <4>2 DEF DoKey
    <3>. HIDE DEF after, y
    <3>2. Alike(after, y, w, FALSE)
      <4>1. FALSE \in BOOLEAN
        OBVIOUS
      <4>. QED BY <1>1, <1>4, <3>1, <4>1, CallUngrabbed DEF y
    <3>3. CASE after = y
      BY <1>6, <1>8, <2>1, <3>3 DEF IInv
    <3>4. CASE after = [y EXCEPT !.grabbed = FALSE] /\ y.stack = w.stack /\ y \in State
      <4>. DEFINE u == [y EXCEPT !.sub = @ \ {reg}]
                  v == [after EXCEPT !.sub = @ \ {reg}]
      <4>1. u \in State /\ u.stack = w.stack /\ v = [u EXCEPT !.grabbed = FALSE]
        BY <3>4 DEF State
      <4>. HIDE DEF u, v
      <4>2. v \in State /\ v.stack = w.stack
        BY <4>1 DEF State
      <4>. DEFINE t == Popped([w.stack EXCEPT ![i].remove = TRUE])
      <4>3. Done(u, i) = Restacked(u, t)
        BY <1>1, <4>1, DoneTop
      <4>4. Done(v, i) = Restacked(v, t)
        BY <1>1, <4>2, DoneTop
      <4>. HIDE DEF t
      <4>5. Restacked(v, t) = Restacked(u, t)
        BY <4>1 DEF Restacked, State
      <4>6. w' = Done(u, i)
        BY <2>1, <4>3, <4>4, <4>5 DEF v
      <4>. QED BY <1>6, <1>8, <4>6 DEF u, IInv
    <3>. QED BY <3>2, <3>3, <3>4 DEF Alike
  <2>. QED BY <1>4, <1>9, <2>2, <2>3
<1>. QED BY <1>7, <1>9

\* The last modifier is released while a map is entered.
LEMMA SubmapReleaseModFine ==
    ASSUME IInv, NEW f \in KeyCalls(w), SubmapReleaseMod(f)
    PROVE  IInv'
<1>1. /\ Fine(w) /\ Firm(w) /\ w.stack # <<>>
      /\ Len(w.stack) \in DOMAIN w.stack
      /\ w.stack[Len(w.stack)].handler = "submap"
      /\ Holds(w.stack, Len(w.stack), "submap")
  BY TopHolds DEF IInv, Fine, SubmapReleaseMod, KeyFor
<1>2. ~w.loop /\ Open(w.stack)
  BY <1>1, NotInLoop DEF Open
<1>3. Called(Call(w, f), w)
  BY <1>1, <1>2, CallFirm
<1>. DEFINE y == Call(w, f)
<1>. HIDE DEF y
<1>4. Fine(y)
  BY <1>1, <1>3, CalledFine DEF y
<1>. QED BY <1>4 DEF y, SubmapReleaseMod, IInv

\* The key that was waited for
LEMMA LastKeyFine ==
    ASSUME IInv, LastKey
    PROVE  IInv'
<1>1. /\ Fine(w) /\ Len(w.stack) \in DOMAIN w.stack
      /\ w.stack[Len(w.stack)].handler \in {"wait", "quote"}
  BY TopHolds DEF IInv, LastKey, KeyFor
<1>2. ~Holds(w.stack, Len(w.stack), "resize")
  BY <1>1 DEF Holds
<1>3. Fine(Done(w, Len(w.stack)))
  BY <1>1, <1>2, DoneFine
<1>. QED BY <1>3 DEF LastKey, Slot, IInv

\* The last modifier is released over a menu.
LEMMA MenuKeyUpFine ==
    ASSUME IInv, MenuKeyUp
    PROVE  IInv'
<1>. DEFINE i == Len(w.stack)
            m == w.stack[i].holder
            x == [w EXCEPT !.ending = @ \cup {m}]
<1>1. /\ Fine(w) /\ i \in DOMAIN w.stack /\ Top(w) = w.stack[i]
      /\ w.stack[i].handler = "menu" /\ Holds(w.stack, i, "menu")
      /\ w \in State
  BY TopHolds, FineState DEF IInv, MenuKeyUp, KeyFor
<1>2. m \in w.alive /\ m \in Inputs /\ w.alive \subseteq Windows
  BY <1>1, FineState DEF Holds, Owned
<1>3. /\ x \in State /\ x.stack = w.stack /\ x.current = w.current
      /\ x.grabbed = w.grabbed /\ x.mode = w.mode
      /\ x.alive = w.alive /\ x.ending = w.ending \cup {m}
      /\ x.sub = w.sub /\ x.failed = w.failed
      /\ x.target = w.target /\ x.timer = w.timer
      /\ x.pointer = w.pointer /\ x.button = w.button /\ x.loop = w.loop
      /\ x.tabwin = w.tabwin
  BY <1>1, <1>2 DEF State
<1>4. w' = Done(x, i)
  BY <1>1 DEF MenuKeyUp, Slot
<1>. HIDE DEF x
<1>5. Living(x)
  BY <1>1, <1>2, <1>3 DEF Fine, Firm, Living
<1>6. Fine(x)
  BY <1>1, <1>3, <1>5 DEF Fine, Firm, Stacked, Pressed
<1>7. i \in DOMAIN x.stack /\ x.stack[i].handler \notin {"pointer", "submap"}
      /\ ~Holds(x.stack, i, "resize")
  BY <1>1, <1>3 DEF Holds
<1>8. Fine(Done(x, i))
  BY <1>6, <1>7, DoneFine
<1>. QED BY <1>4, <1>8 DEF IInv

\* A step of the resizing
LEMMA ResizeKeyFine ==
    ASSUME IInv, ResizeKey
    PROVE  IInv'
<1>1. /\ Fine(w) /\ Len(w.stack) \in DOMAIN w.stack /\ w \in State
      /\ Holds(w.stack, Len(w.stack), "resize")
  BY TopHolds, FineState DEF IInv, ResizeKey, KeyFor
<1>. DEFINE x == [w EXCEPT !.timer = "set"]
<1>2. /\ x \in State /\ x.stack = w.stack /\ x.current = w.current
      /\ x.grabbed = w.grabbed /\ x.mode = w.mode
      /\ x.alive = w.alive /\ x.ending = w.ending
      /\ x.sub = w.sub /\ x.failed = w.failed
      /\ x.target = w.target /\ x.timer = "set"
      /\ x.pointer = w.pointer /\ x.button = w.button /\ x.loop = w.loop
      /\ x.tabwin = w.tabwin
  BY <1>1 DEF State
<1>. HIDE DEF x
<1>3. Helds(w.stack, "resize")
  BY <1>1 DEF Helds
<1>4. Resizing(x.stack, x.target, x.timer, x.pointer)
  BY <1>1, <1>2, <1>3 DEF Fine, Firm, Resizing
<1>5. Fine(x)
  BY <1>1, <1>2, <1>4 DEF Fine, Firm, Stacked, Living, Pressed
<1>. QED BY <1>5 DEF x, ResizeKey, IInv

\* The handler that ends the mode says it is done, too: by then its grab is
\* gone, and nothing else is taken off in its place.
LEMMA ResizeEndsFine ==
    ASSUME IInv, ResizeEnds
    PROVE  IInv'
<1>. DEFINE i == Len(w.stack)
            x == Cancel(w)
<1>1. Fine(w) /\ i \in DOMAIN w.stack /\ Holds(w.stack, i, "resize") /\ i \in Nat
  BY TopHolds, FineState DEF IInv, ResizeEnds, KeyFor
<1>2. Fine(x) /\ Less(x.stack, w.stack, i)
  BY <1>1, CancelFine
<1>. HIDE DEF x
<1>3. i \notin DOMAIN x.stack
  <2>. SUFFICES ASSUME i \in DOMAIN x.stack PROVE FALSE
    OBVIOUS
  <2>1. x.stack # <<>> /\ Len(x.stack) \in Nat /\ DOMAIN x.stack = 1 .. Len(x.stack)
        /\ Len(x.stack) <= i
    BY <1>2, FineState DEF Less
  <2>2. Len(x.stack) = i
    BY <1>1, <2>1
  <2>3. ~x.stack[i].remove
    BY <1>2, <2>1, <2>2 DEF Less
  <2>4. i \in 1 .. Len(x.stack)
    BY <1>1, <2>1, <2>2
  <2>. QED BY <1>2, <2>3, <2>4 DEF Less
<1>4. Done(x, i) = x
  BY <1>3 DEF Done
<1>. QED BY <1>2, <1>4 DEF x, ResizeEnds, Slot, IInv

\* The timer of the mode
LEMMA TimesFine ==
    ASSUME IInv, Tick \/ TimeOut
    PROVE  IInv'
<1>1. Fine(w) /\ w \in State /\ w.timer # "no"
  BY FineState DEF IInv, Tick, TimeOut
<1>2. PICK i \in DOMAIN w.stack : Holds(w.stack, i, "resize")
  BY <1>1 DEF Fine, Firm, Resizing, Helds
<1>3. CASE Tick
  <2>. DEFINE x == [w EXCEPT !.timer = "due"]
  <2>1. /\ x \in State /\ x.stack = w.stack /\ x.current = w.current
        /\ x.grabbed = w.grabbed /\ x.mode = w.mode
        /\ x.alive = w.alive /\ x.ending = w.ending
        /\ x.sub = w.sub /\ x.failed = w.failed
        /\ x.target = w.target /\ x.timer = "due"
        /\ x.pointer = w.pointer /\ x.button = w.button /\ x.loop = w.loop
        /\ x.tabwin = w.tabwin
    BY <1>1 DEF State
  <2>. HIDE DEF x
  <2>2. Helds(w.stack, "resize")
    BY <1>2 DEF Helds
  <2>3. Resizing(x.stack, x.target, x.timer, x.pointer)
    BY <1>1, <2>1, <2>2 DEF Fine, Firm, Resizing
  <2>4. Fine(x)
    BY <1>1, <2>1, <2>3 DEF Fine, Firm, Stacked, Living, Pressed
  <2>. QED BY <1>3, <2>4 DEF x, Tick, IInv
<1>4. CASE TimeOut
  <2>1. w.target # None
    <3>1. w.target = w.stack[i].holder
      BY <1>1, <1>2 DEF Fine, Firm, Resizing
    <3>2. w.stack[i].holder \in w.alive /\ w.alive \subseteq Windows
      BY <1>1, <1>2, FineState DEF Owned, Holds
    <3>. QED BY <3>1, <3>2, GrabsAssumption
  <2>2. Fine(Cancel(w))
    BY <1>1, <1>2, CancelFine
  <2>. QED BY <1>4, <2>1, <2>2 DEF TimeOut, IInv
<1>. QED BY <1>3, <1>4

-----------------------------------------------------------------------------
(* Buttons.                                                                *)

\* What is there while a press is handled, whatever is dragged
Loose(x) ==
    /\ x \in State /\ Stacked(x) /\ Living(x) /\ Entered(x.stack, x.sub)
    /\ Holds(x.stack, 1, "pointer")

\* What the call for a button leaves
Clicked(x, q, f) ==
    /\ Loose(x) /\ x.loop /\ x.button = q.button /\ x.tabwin = None
    /\ \A p : Resizing(x.stack, x.target, x.timer, p)
    /\ x.pointer.held /\ x.pointer.reg \in x.alive
    /\ ~x.pointer.motion => x.pointer.drag = "none" /\ ~x.pointer.begin
    /\ x.pointer.begin => x.pointer.drag \in {"moveres", "tab"}
    /\ x.pointer.drag = "moveres" => f = "moveres"
    /\ x.pointer.drag = "menu" => x.pointer.reg \in Inputs
    /\ Helds(x.stack, "resize") => f = "kbresize" \/ Helds(q.stack, "resize")

\* ioncore_set_drag_handlers
LEMMA SetDragClicked ==
    ASSUME NEW q, NEW d \in {"moveres", "tab", "menu"}, Clicked(q, q, d),
           q.pointer.reg # None, ~q.pointer.motion,
           NEW reg \in q.alive, d = "menu" => reg \in Inputs,
           NEW begin \in BOOLEAN, begin => d # "menu"
    PROVE  Clicked(SetDrag(q, reg, d, begin), q, d)
<1>. DEFINE p == [q.pointer EXCEPT !.reg = reg, !.motion = TRUE,
                                   !.drag = d, !.begin = begin]
            x == [q EXCEPT !.pointer = p]
<1>1. q \in State /\ q.pointer \in Pointer /\ q.pointer.held
      /\ reg \in Windows
  BY DEF Clicked, Loose, State
<1>2. x = SetDrag(q, reg, d, begin)
  BY <1>1 DEF SetDrag
<1>3. /\ p \in Pointer /\ p.reg = reg /\ p.held = q.pointer.held
      /\ p.motion = TRUE /\ p.drag = d /\ p.begin = begin
  BY <1>1 DEF Pointer, Drags
<1>. HIDE DEF p
<1>4. /\ x \in State /\ x.stack = q.stack /\ x.current = q.current
      /\ x.grabbed = q.grabbed /\ x.mode = q.mode
      /\ x.alive = q.alive /\ x.ending = q.ending
      /\ x.sub = q.sub /\ x.failed = q.failed
      /\ x.target = q.target /\ x.timer = q.timer
      /\ x.pointer = p /\ x.button = q.button /\ x.loop = q.loop
      /\ x.tabwin = q.tabwin
  BY <1>1, <1>3 DEF State
<1>. HIDE DEF x
<1>5. Loose(x)
  BY <1>4 DEF Clicked, Loose, Stacked, Living
<1>6. Clicked(x, q, d)
  BY <1>1, <1>3, <1>4, <1>5 DEF Clicked
<1>. QED BY <1>2, <1>6

\* Before anything is dragged
LEMMA NotDragged ==
    ASSUME NEW q, Fine(q), q.loop, ~q.pointer.motion, NEW f
    PROVE  Clicked(q, q, f) /\ q.pointer.reg # None
<1>1. /\ q \in State /\ q.stack \in Seq(Grab)
      /\ Dragging(q.stack, q.pointer, q.button, q.tabwin, q.alive)
      /\ q.alive \subseteq Windows
      /\ Resizing(q.stack, q.target, q.timer, q.pointer)
  BY FineState DEF Fine, Firm, Pressed
<1>2. Loose(q)
  BY <1>1 DEF Fine, Firm, Loose, Dragging
<1>3. q.pointer.drag = "none" /\ ~q.pointer.begin /\ q.tabwin = None
      /\ q.pointer.reg # None
  BY <1>1, GrabsAssumption DEF Dragging
<1>4. \A p : Resizing(q.stack, q.target, q.timer, p)
  BY <1>1, <1>3 DEF Resizing
<1>. QED BY <1>1, <1>2, <1>3, <1>4 DEF Clicked, Dragging

\* Whatever function a button calls
LEMMA CallsClicked ==
    ASSUME NEW q, Fine(q), q.loop, ~q.pointer.motion, NEW f \in PressCalls,
           NEW pressed \in BOOLEAN, NEW x \in PointerCalls(q, f, pressed)
    PROVE  Clicked(x, q, f)
<1>1. /\ q \in State /\ q.stack \in Seq(Grab) /\ Len(q.stack) \in Nat
      /\ DOMAIN q.stack = 1 .. Len(q.stack) /\ q.alive \subseteq Windows
      /\ Shape(q.stack) /\ Owned(q.stack, q.alive) /\ Living(q)
  BY FineState DEF Fine, Firm
<1>2. \A g : Clicked(q, q, g)
  BY NotDragged
<1>3. q.pointer.reg # None /\ q.pointer.reg \in q.alive
  BY <1>2, NotDragged DEF Clicked
<1>4. CASE f = "moveres"
  <2>1. x = SetDrag(q, q.pointer.reg, "moveres", TRUE)
    BY <1>4 DEF PointerCalls
  <2>2. Clicked(SetDrag(q, q.pointer.reg, "moveres", TRUE), q, "moveres")
    BY <1>2, <1>3, SetDragClicked
  <2>. QED BY <1>4, <2>1, <2>2
<1>5. CASE f = "tab"
  <2>1. x = SetDrag(q, q.pointer.reg, "tab", TRUE)
    BY <1>5 DEF PointerCalls
  <2>2. Clicked(SetDrag(q, q.pointer.reg, "tab", TRUE), q, "tab")
    BY <1>2, <1>3, SetDragClicked
  <2>. QED BY <1>5, <2>1, <2>2
<1>6. CASE f = "pmenu" /\ pressed /\ Inputs \ q.alive # {}
  <2>1. PICK m \in Inputs \ q.alive :
            x = SetDrag([q EXCEPT !.alive = @ \cup {m}], m, "menu", FALSE)
    BY <1>6 DEF PointerCalls
  <2>. DEFINE y == [q EXCEPT !.alive = @ \cup {m}]
  <2>2. m \in Windows
    BY DEF Windows
  <2>3. Fine(y) /\ m \in y.alive /\ y.loop = q.loop /\ y.stack = q.stack
    <3>1. /\ Firm(y) /\ y.stack = q.stack /\ y.sub = q.sub
          /\ y.loop = q.loop /\ y.alive = q.alive \cup {m}
      BY <2>2, BornFirm DEF Fine
    <3>. HIDE DEF y
    <3>. QED BY <3>1 DEF Fine
  <2>4. y.pointer = q.pointer /\ y.button = q.button
    BY <1>1 DEF State
  <2>5. x = SetDrag(y, m, "menu", FALSE)
    BY <2>1
  <2>. HIDE DEF y
  <2>6. Clicked(y, y, "menu") /\ y.pointer.reg # None
    BY <2>3, <2>4, NotDragged
  <2>7. Clicked(x, y, "menu")
    BY <2>3, <2>4, <2>5, <2>6, SetDragClicked
  <2>. QED BY <2>3, <2>4, <2>7 DEF Clicked
<1>7. CASE f = "kbresize"
  <2>1. PICK r \in q.alive \ {Root} : x = BeginKbResize(q, r)
    BY <1>7 DEF PointerCalls
  <2>2. CASE q.target # None
    BY <1>2, <2>1, <2>2 DEF BeginKbResize
  <2>3. CASE q.target = None
    <3>1. Holds(q.stack, 1, "pointer") /\ Resizing(q.stack, q.target, q.timer, q.pointer)
      BY <1>2 DEF Clicked, Loose
    <3>2. Len(q.stack) = 1
      <4>. SUFFICES ASSUME Len(q.stack) # 1 PROVE FALSE
        OBVIOUS
      <4>1. q.stack # <<>> /\ 1 \in DOMAIN q.stack
        BY <3>1 DEF Holds
      <4>2. Len(q.stack) \in DOMAIN q.stack /\ Len(q.stack) # 1
        BY <1>1, <4>1
      <4>3. q.stack[Len(q.stack)].handler = "resize"
        BY <1>1, <3>1, <4>2, PointerFirst DEF Holds
      <4>4. Holds(q.stack, Len(q.stack), "resize")
            /\ q.stack[Len(q.stack)].holder \in q.alive
        BY <1>1, <4>1, <4>2, <4>3, TopHolds
      <4>. QED BY <1>1, <2>3, <3>1, <4>2, <4>4, GrabsAssumption DEF Resizing
    <3>3. Shape(Append(q.stack, NewGrab(r, "resize")))
      <4>1. "resize" \in Handlers /\ r \in Windows
        BY <1>1 DEF Handlers
      <4>. QED BY <1>1, <3>1, <3>2, <4>1, PushedShape DEF Holds
    <3>4. x = Begun(q, r)
      <4>1. r \in Windows \ {Root} /\ Len(q.stack) <= 3
        BY <1>1, <3>2
      <4>. QED BY <1>1, <2>1, <2>3, <4>1, BeginIsBegun
    <3>5. /\ x \in State /\ Stacked(x) /\ Living(x)
          /\ Resizing(x.stack, x.target, x.timer, x.pointer)
          /\ x.stack = Append(q.stack, NewGrab(r, "resize"))
          /\ x.alive = q.alive /\ x.sub = q.sub /\ x.pointer = q.pointer
          /\ x.button = q.button /\ x.loop = q.loop /\ x.tabwin = q.tabwin
      BY <1>1, <2>3, <3>1, <3>3, <3>4, BegunKeeps
    <3>6. r \in Windows /\ "resize" \in Handlers \ {"submap"}
      BY <1>1 DEF Handlers
    <3>7. Entered(x.stack, x.sub)
      BY <1>1, <3>5, <3>6, PushedEntered DEF Fine
    <3>8. Holds(x.stack, 1, "pointer") /\ Helds(x.stack, "resize")
      <4>1. Helds(x.stack, "resize")
        BY <1>1, <3>5, <3>6, PushedHelds
      <4>2. Holds(x.stack, 1, "pointer")
        BY <1>1, <3>1, <3>5, <3>6, PushedIs
      <4>. QED BY <4>1, <4>2
    <3>9. Loose(x)
      BY <3>5, <3>7, <3>8 DEF Loose
    <3>10. \A p : Resizing(x.stack, x.target, x.timer, p)
      BY <3>5, <3>8 DEF Resizing
    <3>. QED BY <1>2, <1>7, <3>5, <3>9, <3>10 DEF Clicked
  <2>. QED BY <2>2, <2>3
<1>8. CASE x = q
  BY <1>2, <1>8
<1>. QED BY <1>4, <1>5, <1>6, <1>7, <1>8 DEF PointerCalls, PressCalls

\* The grab of a press that is over
LetGo(x) == [GrabRemove(x, "pointer") EXCEPT
                 !.pointer = NoPointer, !.loop = FALSE, !.button = None]

\* When it is over nothing of it is left.
LEMMA LetGoFine ==
    ASSUME NEW x, Loose(x), x.tabwin = None,
           Resizing(x.stack, x.target, x.timer, NoPointer)
    PROVE  Fine(LetGo(x))
<1>. DEFINE s == x.stack
<1>1. /\ x \in State /\ s \in Seq(Grab) /\ Len(s) \in Nat /\ DOMAIN s = 1 .. Len(s)
      /\ 1 \in DOMAIN s /\ s[1].handler = "pointer" /\ s # <<>>
      /\ Shape(s) /\ Owned(s, x.alive)
      /\ x.current = Len(s) /\ x.grabbed = TRUE /\ x.mode = "grab"
  BY DEF Loose, State, Stacked, Holds
<1>2. \A j \in 1 + 1 .. Len(s) : s[j].handler # "pointer"
  <2>1. ASSUME NEW j \in 1 + 1 .. Len(s) PROVE s[j].handler # "pointer"
    <3>1. j \in DOMAIN s /\ j # 1
      BY <1>1
    <3>. QED BY <1>1, <3>1, PointerFirst
  <2>. QED BY <2>1
<1>3. GrabRemove(x, "pointer") = Done(x, 1)
  BY <1>1, <1>2, GrabRemoveTakes
<1>4. PICK t : Less(t, s, 1) /\ Done(x, 1) = Restacked(x, t)
  BY <1>1, DoneLeaves
<1>5. t \in Seq(Grab)
  BY <1>4 DEF Less
<1>. DEFINE y == Restacked(x, t)
            z == [y EXCEPT !.pointer = NoPointer, !.loop = FALSE, !.button = None]
<1>6. y \in State /\ Stacked(y)
  BY <1>1, <1>4, LessStacked
<1>7. /\ y.stack = t /\ y.alive = x.alive
      /\ y.target = x.target /\ y.timer = x.timer /\ y.sub = x.sub
      /\ y.tabwin = x.tabwin /\ y.ending = x.ending /\ y.failed = x.failed
  BY <1>1, <1>5, RestackedIs
<1>8. z = LetGo(x)
  BY <1>3, <1>4 DEF LetGo
<1>. HIDE DEF y
<1>9. NoPointer \in Pointer
  BY DEF NoPointer, Pointer, Drags
<1>10. /\ z \in State /\ z.stack = y.stack /\ z.current = y.current
       /\ z.grabbed = y.grabbed /\ z.mode = y.mode
       /\ z.alive = y.alive /\ z.ending = y.ending
       /\ z.sub = y.sub /\ z.failed = y.failed
       /\ z.target = y.target /\ z.timer = y.timer
       /\ z.pointer = NoPointer /\ z.loop = FALSE
       /\ z.tabwin = y.tabwin
  BY <1>6, <1>9 DEF State
<1>. HIDE DEF z
<1>11. Stacked(z) /\ Living(z)
  BY <1>6, <1>7, <1>10 DEF Stacked, Living, Loose
<1>12. ~Holds(s, 1, "resize") /\ ~Holds(s, 1, "submap")
  BY <1>1 DEF Holds
<1>13. Resizing(t, z.target, z.timer, NoPointer)
  BY <1>1, <1>4, <1>7, <1>10, <1>12, LessResizing
<1>14. Entered(t, z.sub)
  BY <1>1, <1>4, <1>7, <1>10, <1>12, LessEntered DEF Loose
<1>15. ~Helds(t, "pointer")
  <2>1. \A k : Holds(s, k, "pointer") => k = 1
    BY <1>1, PointerFirst DEF Holds
  <2>2. \A k, h : Holds(t, k, h) <=> Holds(s, k, h) /\ k # 1
    BY <1>1, <1>4, LessHolds
  <2>. QED BY <2>1, <2>2 DEF Helds
<1>16. Pressed(z)
  BY <1>7, <1>10, <1>15 DEF Pressed, Released
<1>. QED BY <1>7, <1>8, <1>10, <1>11, <1>13, <1>14, <1>16 DEF Fine, Firm

\* What was dragged is let go
LEMMA MotionEndedIs ==
    ASSUME NEW q, Fine(q), q.loop
    PROVE  LET x == MotionEnded(q) IN
           /\ Loose(x) /\ x.tabwin = None
           /\ Resizing(x.stack, x.target, x.timer, NoPointer)
           /\ x.stack = q.stack /\ x.loop = q.loop
<1>. DEFINE x == MotionEnded(q)
            p == q.pointer
<1>1. /\ q \in State /\ q.stack \in Seq(Grab) /\ q.alive \subseteq Windows
      /\ Dragging(q.stack, p, q.button, q.tabwin, q.alive)
      /\ Resizing(q.stack, q.target, q.timer, p)
      /\ Stacked(q) /\ Living(q) /\ Entered(q.stack, q.sub)
      /\ p.drag \in Drags
  BY FineState DEF Fine, Firm, Pressed, State, Pointer
<1>2. CASE p.drag = "moveres" /\ q.target = p.reg
  <2>1. ~Helds(q.stack, "resize") /\ q.timer = "no"
    BY <1>1, <1>2, GrabsAssumption DEF Dragging, Resizing
  <2>2. x = [q EXCEPT !.target = None]
    BY <1>2 DEF MotionEnded, DoEnd
  <2>3. /\ x \in State /\ x.stack = q.stack /\ x.current = q.current
        /\ x.grabbed = q.grabbed /\ x.mode = q.mode
        /\ x.alive = q.alive /\ x.ending = q.ending
        /\ x.sub = q.sub /\ x.failed = q.failed
        /\ x.target = None /\ x.timer = q.timer
        /\ x.loop = q.loop /\ x.tabwin = q.tabwin
    BY <1>1, <2>2 DEF State
  <2>. HIDE DEF x
  <2>4. Resizing(x.stack, x.target, x.timer, NoPointer)
    BY <2>1, <2>3 DEF Resizing, Helds
  <2>5. Loose(x) /\ x.tabwin = None
    BY <1>1, <1>2, <2>3 DEF Loose, Stacked, Living, Dragging
  <2>. QED BY <2>3, <2>4, <2>5 DEF x
<1>3. ASSUME ~(p.drag = "moveres" /\ q.target = p.reg)
      PROVE  Resizing(q.stack, q.target, q.timer, NoPointer)
  BY <1>1, <1>3 DEF Resizing
<1>4. CASE p.drag = "tab"
  <2>1. x = [q EXCEPT !.tabwin = None]
    BY <1>4 DEF MotionEnded
  <2>2. /\ x \in State /\ x.stack = q.stack /\ x.current = q.current
        /\ x.grabbed = q.grabbed /\ x.mode = q.mode
        /\ x.alive = q.alive /\ x.ending = q.ending
        /\ x.sub = q.sub /\ x.failed = q.failed
        /\ x.target = q.target /\ x.timer = q.timer
        /\ x.loop = q.loop /\ x.tabwin = None
    BY <1>1, <2>1 DEF State
  <2>. HIDE DEF x
  <2>3. Loose(x)
    BY <1>1, <2>2 DEF Loose, Stacked, Living, Dragging
  <2>. QED BY <1>3, <1>4, <2>2, <2>3 DEF x
<1>5. CASE p.drag = "menu"
  <2>. DEFINE e == q.ending \cup {p.reg}
  <2>1. x = [q EXCEPT !.ending = e]
    BY <1>5 DEF MotionEnded
  <2>2. p.reg \in q.alive \cap Inputs /\ q.tabwin = None
    BY <1>1, <1>5 DEF Dragging
  <2>3. e \in SUBSET Windows /\ e \subseteq q.alive \cap Inputs
    BY <1>1, <2>2 DEF Living
  <2>. HIDE DEF e, p
  <2>4. /\ x \in State /\ x.stack = q.stack /\ x.current = q.current
        /\ x.grabbed = q.grabbed /\ x.mode = q.mode
        /\ x.alive = q.alive /\ x.ending = e
        /\ x.sub = q.sub /\ x.failed = q.failed
        /\ x.target = q.target /\ x.timer = q.timer
        /\ x.loop = q.loop /\ x.tabwin = q.tabwin
    BY <1>1, <2>1, <2>3 DEF State
  <2>. HIDE DEF x
  <2>5. Living(x)
    BY <1>1, <2>3, <2>4 DEF Living
  <2>6. Loose(x)
    BY <1>1, <2>4, <2>5 DEF Loose, Stacked, Dragging
  <2>. QED BY <1>3, <1>5, <2>2, <2>4, <2>6 DEF x
<1>6. CASE ~(p.drag = "moveres" /\ q.target = p.reg) /\ p.drag \notin {"tab", "menu"}
  <2>1. x = q
    BY <1>6 DEF MotionEnded
  <2>2. Loose(q) /\ q.tabwin = None
    BY <1>1, <1>6 DEF Loose, Dragging
  <2>. QED BY <1>3, <1>6, <2>1, <2>2
<1>. QED BY <1>2, <1>4, <1>5, <1>6

\* A button is pressed.
LEMMA PressFine ==
    ASSUME IInv, NEW reg \in Windows, NEW b \in Buttons, Press(reg, b)
    PROVE  IInv'
<1>. DEFINE p == [NoPointer EXCEPT !.reg = reg, !.held = TRUE]
            y == [w EXCEPT !.pointer = p, !.button = b, !.loop = TRUE]
            t == Append(w.stack, NewGrab(reg, "pointer"))
            q == Restacked(y, t)
<1>1. /\ w \in State /\ w.stack = <<>> /\ w.stack \in Seq(Grab) /\ ~w.loop
      /\ reg \in w.alive /\ Fine(w) /\ "pointer" \in Handlers
  BY FineState DEF Press, IInv, Handlers
<1>2. p \in Pointer /\ p.reg = reg /\ p.held /\ ~p.motion
      /\ p.drag = "none" /\ ~p.begin
  BY DEF NoPointer, Pointer, Drags
<1>. HIDE DEF p
<1>3. /\ y \in State /\ y.stack = w.stack /\ y.alive = w.alive
      /\ y.target = w.target /\ y.timer = w.timer /\ y.sub = w.sub
      /\ y.pointer = p /\ y.button = b /\ y.loop = TRUE
      /\ y.tabwin = w.tabwin /\ y.ending = w.ending /\ y.failed = w.failed
  BY <1>1, <1>2 DEF State
<1>4. w' \in PointerCalls(Establish(y, reg, "pointer"), b.press, TRUE)
  BY DEF Press, p
<1>. HIDE DEF y
<1>5. t \in Seq(Grab)
      /\ \A k, g : Holds(t, k, g)
                     <=> Holds(w.stack, k, g) \/ (k = Len(w.stack) + 1 /\ g = "pointer")
  BY <1>1, PushedIs
<1>6. Len(w.stack) = 0 /\ \A k, g : ~Holds(w.stack, k, g)
  BY <1>1 DEF Holds
<1>7. Establish(y, reg, "pointer") = q
  <2>1. Len(y.stack) <= 3
    BY <1>1, <1>3
  <2>. QED BY <1>1, <1>3, <2>1, EstablishPushes DEF NewGrab
<1>8. q \in State /\ Stacked(q)
  <2>1. Shape(t) /\ Shape(w.stack)
    BY <1>1, PushedShape DEF Fine, Firm, Stacked
  <2>2. Owned(y.stack, y.alive)
    BY <1>1, <1>3 DEF Owned
  <2>3. t = Append(y.stack, NewGrab(reg, "pointer")) /\ reg \in y.alive
    BY <1>1, <1>3
  <2>. QED BY <1>1, <1>3, <2>1, <2>2, <2>3, PushedStacked
<1>9. /\ q.stack = t /\ q.alive = w.alive
      /\ q.target = w.target /\ q.timer = w.timer /\ q.sub = w.sub
      /\ q.pointer = p /\ q.button = b /\ q.loop = TRUE
      /\ q.tabwin = w.tabwin /\ q.ending = w.ending /\ q.failed = w.failed
  <2>. HIDE DEF t
  <2>. QED BY <1>3, <1>5, RestackedIs
<1>. HIDE DEF q, t
<1>10. Living(q)
  BY <1>1, <1>9 DEF Fine, Firm, Living
<1>11. w.target = None /\ w.timer = "no" /\ w.tabwin = None
  <2>1. w.pointer = NoPointer /\ w.tabwin = None
    BY <1>1 DEF Fine, Firm, Pressed, Released
  <2>2. w.pointer.drag # "moveres"
    BY <2>1 DEF NoPointer
  <2>. QED BY <1>1, <1>6, <2>1, <2>2 DEF Fine, Firm, Resizing, Helds
<1>12. \A k, g : Holds(t, k, g) <=> k = 1 /\ g = "pointer"
  BY <1>5, <1>6
<1>13. Resizing(q.stack, q.target, q.timer, q.pointer)
  BY <1>9, <1>11, <1>12 DEF Resizing
<1>14. Dragging(q.stack, q.pointer, q.button, q.tabwin, q.alive)
  BY <1>1, <1>2, <1>9, <1>11, <1>12 DEF Dragging, Helds
<1>15. Entered(q.stack, q.sub)
  BY <1>1, <1>6, <1>9, <1>12 DEF Fine, Entered
<1>16. Fine(q)
  BY <1>8, <1>9, <1>10, <1>13, <1>14, <1>15 DEF Fine, Firm, Pressed
<1>17. b.press \in PressCalls
  BY GrabsAssumption
<1>18. Clicked(w', q, b.press)
  <2>1. q.loop /\ ~q.pointer.motion /\ TRUE \in BOOLEAN
    BY <1>2, <1>9
  <2>. QED BY <1>4, <1>7, <1>16, <1>17, <2>1, CallsClicked
<1>19. Dragging(w'.stack, w'.pointer, w'.button, w'.tabwin, w'.alive)
  <2>1. Helds(w'.stack, "resize") => b.press = "kbresize"
    BY <1>9, <1>12, <1>18 DEF Clicked, Helds
  <2>. QED BY <1>9, <1>18, <2>1 DEF Clicked, Loose, Dragging
<1>20. Fine(w')
  BY <1>18, <1>19 DEF Clicked, Loose, Fine, Firm, Pressed
<1>. QED BY <1>20 DEF IInv

\* The pointer moves with the button pressed.
LEMMA MotionFine ==
    ASSUME IInv, Motion
    PROVE  IInv'
<1>. DEFINE b == w.button
<1>1. /\ w \in State /\ w.loop /\ ~w.pointer.motion /\ Fine(w)
      /\ Dragging(w.stack, w.pointer, b, w.tabwin, w.alive)
      /\ b \in Buttons /\ w.alive \subseteq Windows
  BY FineState DEF Motion, IInv, Fine, Firm, Pressed, Dragging
<1>2. PICK q \in PointerCalls(w, b.drag, FALSE) : w' = DragBegun(q)
  BY DEF Motion
<1>3. Clicked(q, w, b.drag)
  <2>1. b.drag \in PressCalls /\ FALSE \in BOOLEAN
    BY <1>1, GrabsAssumption
  <2>. QED BY <1>1, <1>2, <2>1, CallsClicked
<1>. HIDE DEF b
<1>4. /\ q \in State /\ q.pointer \in Pointer /\ q.stack \in Seq(Grab)
      /\ Resizing(q.stack, q.target, q.timer, q.pointer)
      /\ q.alive \subseteq Windows /\ q.button = b
  BY <1>3 DEF Clicked, Loose, State, b
<1>5. Helds(q.stack, "resize") => "kbresize" \in {b.press, b.drag}
  BY <1>1, <1>3 DEF Clicked, Dragging
<1>. DEFINE p == [q.pointer EXCEPT !.begin = FALSE, !.motion = TRUE]
            y == [q EXCEPT !.pointer = p]
<1>6. /\ p \in Pointer /\ p.reg = q.pointer.reg /\ p.held = q.pointer.held
      /\ p.motion = TRUE /\ p.drag = q.pointer.drag /\ p.begin = FALSE
  BY <1>4 DEF Pointer
<1>7. [q EXCEPT !.pointer.begin = FALSE, !.pointer.motion = TRUE] = y
  BY <1>4 DEF State, Pointer
<1>. HIDE DEF p
<1>8. /\ y \in State /\ y.stack = q.stack /\ y.current = q.current
      /\ y.grabbed = q.grabbed /\ y.mode = q.mode
      /\ y.alive = q.alive /\ y.ending = q.ending
      /\ y.sub = q.sub /\ y.failed = q.failed
      /\ y.target = q.target /\ y.timer = q.timer
      /\ y.pointer = p /\ y.button = q.button /\ y.loop = q.loop
      /\ y.tabwin = q.tabwin
  BY <1>4, <1>6 DEF State
<1>. HIDE DEF y
<1>9. Loose(y) /\ Clicked(y, w, b.drag)
  BY <1>3, <1>6, <1>8 DEF Clicked, Loose, Stacked, Living
<1>10. Dragging(y.stack, y.pointer, y.button, y.tabwin, y.alive)
  <2>1. p.drag = "moveres" => "moveres" \in {b.press, b.drag}
    BY <1>3, <1>6 DEF Clicked
  <2>. QED BY <1>1, <1>3, <1>4, <1>5, <1>6, <1>8, <2>1 DEF Clicked, Loose, Dragging
<1>11. Fine(y)
  BY <1>8, <1>9, <1>10 DEF Clicked, Loose, Fine, Firm, Pressed
<1>12. CASE ~q.pointer.begin
  <2>1. w' = y
    BY <1>2, <1>7, <1>12 DEF DragBegun
  <2>. QED BY <1>11, <2>1 DEF IInv
<1>13. CASE q.pointer.begin /\ q.pointer.drag = "moveres"
  <2>1. w' = BeginResize(y, q.pointer.reg)
    BY <1>2, <1>7, <1>13 DEF DragBegun
  <2>2. CASE y.target # None \/ q.pointer.reg = Root
    BY <1>11, <2>1, <2>2 DEF BeginResize, IInv
  <2>3. CASE y.target = None /\ q.pointer.reg # Root
    <3>. DEFINE r == q.pointer.reg
                x == [y EXCEPT !.target = r]
    <3>1. w' = x
      BY <2>1, <2>3 DEF BeginResize
    <3>2. r \in y.alive /\ r \in Windows /\ r # None
      BY <1>3, <1>4, <1>8, GrabsAssumption DEF Clicked
    <3>. HIDE DEF r
    <3>3. /\ x \in State /\ x.stack = y.stack /\ x.current = y.current
          /\ x.grabbed = y.grabbed /\ x.mode = y.mode
          /\ x.alive = y.alive /\ x.ending = y.ending
          /\ x.sub = y.sub /\ x.failed = y.failed
          /\ x.target = r /\ x.timer = y.timer
          /\ x.pointer = p /\ x.button = y.button /\ x.loop = y.loop
          /\ x.tabwin = y.tabwin
      BY <1>8, <3>2 DEF State
    <3>. HIDE DEF x
    <3>4. ~Helds(y.stack, "resize")
      BY <1>3, <1>4, <1>5, <1>8, <1>13, GrabsAssumption, <1>1 DEF Clicked
    <3>5. y.timer = "no"
      BY <1>9, <3>4 DEF Clicked, Resizing
    <3>6. Resizing(x.stack, x.target, x.timer, x.pointer)
      BY <1>6, <1>13, <3>3, <3>4, <3>5 DEF r, Resizing, Helds
    <3>7. Living(x) /\ Stacked(x)
      BY <1>9, <3>2, <3>3 DEF Loose, Living, Stacked
    <3>8. Fine(x)
      BY <1>8, <1>9, <1>10, <3>3, <3>6, <3>7 DEF Clicked, Loose, Fine, Firm, Pressed
    <3>. QED BY <3>1, <3>8 DEF IInv
  <2>. QED BY <2>2, <2>3
<1>14. CASE q.pointer.begin /\ q.pointer.drag # "moveres"
  <2>. DEFINE r == q.pointer.reg
              x == [y EXCEPT !.tabwin = r]
  <2>1. w' = x
    BY <1>2, <1>7, <1>14 DEF DragBegun
  <2>2. r \in y.alive /\ r \in Windows /\ q.pointer.drag = "tab"
    BY <1>3, <1>4, <1>8, <1>14 DEF Clicked
  <2>. HIDE DEF r
  <2>3. /\ x \in State /\ x.stack = y.stack /\ x.current = y.current
        /\ x.grabbed = y.grabbed /\ x.mode = y.mode
        /\ x.alive = y.alive /\ x.ending = y.ending
        /\ x.sub = y.sub /\ x.failed = y.failed
        /\ x.target = y.target /\ x.timer = y.timer
        /\ x.pointer = y.pointer /\ x.button = y.button /\ x.loop = y.loop
        /\ x.tabwin = r
    BY <1>8, <2>2 DEF State
  <2>. HIDE DEF x
  <2>4. Dragging(x.stack, x.pointer, x.button, x.tabwin, x.alive)
    BY <1>6, <1>8, <1>10, <2>2, <2>3 DEF r, Dragging
  <2>5. Fine(x)
    BY <1>8, <1>11, <1>9, <2>3, <2>4
       DEF Clicked, Loose, Fine, Firm, Pressed, Living, Stacked
  <2>. QED BY <2>1, <2>5 DEF IInv
<1>. QED BY <1>12, <1>13, <1>14

\* It is released.
LEMMA ReleaseFine ==
    ASSUME IInv, Release
    PROVE  IInv'
<1>1. Fine(w) /\ w.loop /\ w.button \in Buttons
  BY DEF IInv, Release, Fine, Firm, Pressed, Dragging
<1>2. PICK q \in IF w.pointer.motion THEN {MotionEnded(w)}
                 ELSE PointerCalls(w, w.button.click, FALSE) :
          w' = LetGo(q)
  BY DEF Release, LetGo
<1>3. Loose(q) /\ q.tabwin = None /\ Resizing(q.stack, q.target, q.timer, NoPointer)
  <2>1. CASE w.pointer.motion
    <3>1. q = MotionEnded(w)
      BY <1>2, <2>1
    <3>. QED BY <1>1, <3>1, MotionEndedIs
  <2>2. CASE ~w.pointer.motion
    <3>1. w.button.click \in PressCalls /\ FALSE \in BOOLEAN
      BY <1>1, GrabsAssumption
    <3>2. Clicked(q, w, w.button.click)
      BY <1>1, <1>2, <2>2, <3>1, CallsClicked
    <3>. QED BY <3>2 DEF Clicked
  <2>. QED BY <2>1, <2>2
<1>4. Fine(LetGo(q))
  BY <1>3, LetGoFine
<1>. QED BY <1>2, <1>4 DEF IInv

\* mark_for_removal of the pointer's grab: what was dragged is let go.
LEMMA PointerKilledFine ==
    ASSUME NEW q, Fine(q), q.stack # <<>>,
           Holds(q.stack, Len(q.stack), "pointer")
    PROVE  Fine(Looked(Kill(q, Len(q.stack))))
<1>. DEFINE s == q.stack
            sm == [s EXCEPT ![1].remove = TRUE]
            m == [q EXCEPT !.stack[1].remove = TRUE]
            e == MotionEnded(q)
            P == Popped(sm)
<1>1. /\ q \in State /\ s \in Seq(Grab) /\ DOMAIN s = 1 .. Len(s) /\ Len(s) \in Nat
      /\ Shape(s) /\ q.loop \in BOOLEAN
  BY FineState
<1>2. Len(s) = 1 /\ s[1].handler = "pointer" /\ ~s[1].remove /\ 1 \in DOMAIN s
  BY <1>1, PointerFirst DEF Holds
<1>3. q.loop
  BY <1>1, <1>2 DEF Fine, Firm, Pressed, Released, Helds
<1>4. /\ Loose(e) /\ e.tabwin = None /\ e \in State
      /\ Resizing(e.stack, e.target, e.timer, NoPointer)
      /\ e.stack = s /\ e.loop = q.loop
  BY <1>3, MotionEndedIs DEF Loose
<1>5. Kill(q, 1) = Settled(PointerKilled(m))
  BY <1>2 DEF Kill, Killed
<1>6. PointerKilled(m) = [e EXCEPT !.stack = sm, !.pointer = NoPointer]
  <2>1. m = [q EXCEPT !.stack = sm]
    BY <1>1 DEF State
  <2>. HIDE DEF sm, m
  <2>2. m.pointer = q.pointer /\ m.target = q.target
    BY <1>1, <2>1 DEF State
  <2>3. CASE q.pointer.drag = "moveres" /\ q.target = q.pointer.reg
    <3>1. e = [q EXCEPT !.target = None]
      BY <2>3 DEF MotionEnded, DoEnd
    <3>2. PointerKilled(m) = [DoEnd(m) EXCEPT !.pointer = NoPointer]
      BY <2>2, <2>3 DEF PointerKilled
    <3>. QED BY <1>1, <2>1, <3>1, <3>2 DEF DoEnd, State
  <2>4. CASE q.pointer.drag = "tab"
    <3>1. e = [q EXCEPT !.tabwin = None]
      BY <2>4 DEF MotionEnded
    <3>2. PointerKilled(m) = [[m EXCEPT !.tabwin = None] EXCEPT !.pointer = NoPointer]
      BY <2>2, <2>4 DEF PointerKilled
    <3>. QED BY <1>1, <2>1, <3>1, <3>2 DEF State
  <2>5. CASE q.pointer.drag = "menu"
    <3>1. e = [q EXCEPT !.ending = @ \cup {q.pointer.reg}]
      BY <2>5 DEF MotionEnded
    <3>2. PointerKilled(m) = [[m EXCEPT !.ending = @ \cup {m.pointer.reg}]
                                 EXCEPT !.pointer = NoPointer]
      BY <2>2, <2>5 DEF PointerKilled
    <3>. QED BY <1>1, <2>1, <2>2, <3>1, <3>2 DEF State
  <2>6. CASE /\ ~(q.pointer.drag = "moveres" /\ q.target = q.pointer.reg)
             /\ q.pointer.drag \notin {"tab", "menu"}
    <3>1. e = q
      BY <2>6 DEF MotionEnded
    <3>2. PointerKilled(m) = [m EXCEPT !.pointer = NoPointer]
      BY <2>2, <2>6 DEF PointerKilled
    <3>. QED BY <1>1, <2>1, <3>1, <3>2 DEF State
  <2>. QED BY <2>3, <2>4, <2>5, <2>6
<1>. HIDE DEF e, m
<1>7. sm \in Seq(Grab) /\ Len(sm) = 1 /\ sm[1].remove
  <2>1. sm \in Seq(Grab) /\ Len(sm) = 1
    BY <1>1, <1>2, MarkIsStack
  <2>2. sm[1] = [s[1] EXCEPT !.remove = TRUE] /\ s[1] \in Grab
    BY <1>1, <1>2
  <2>. QED BY <2>1, <2>2 DEF Grab
<1>. DEFINE z == [e EXCEPT !.stack = sm, !.pointer = NoPointer]
            y == [e EXCEPT !.pointer = NoPointer]
<1>8. P = <<>>
  <2>. HIDE DEF sm
  <2>1. Kept(sm) = {}
    BY <1>7 DEF Kept
  <2>. QED BY <2>1 DEF Popped
<1>9. Done(e, 1) = Restacked(e, <<>>)
  BY <1>2, <1>4, <1>8, DoneTop
<1>10. GrabRemove(e, "pointer") = Done(e, 1)
  BY <1>2, <1>4, GrabRemoveTakes
<1>. HIDE DEF sm
<1>11. NoPointer \in Pointer
  BY DEF NoPointer, Pointer, Drags
<1>12. y \in State /\ y.loop = q.loop /\ z = [y EXCEPT !.stack = sm]
       /\ z \in State /\ z.stack = sm
  <2>1. y \in State /\ y.loop = q.loop
    BY <1>4, <1>11 DEF State
  <2>2. z = [y EXCEPT !.stack = sm]
    BY <1>4 DEF State
  <2>. HIDE DEF y, z
  <2>3. z \in State /\ z.stack = sm
    BY <1>7, <2>1, <2>2 DEF State
  <2>. QED BY <2>1, <2>2, <2>3
<1>13. Settled(z) = Restacked(y, <<>>)
  <2>. HIDE DEF y, z
  <2>1. sm # <<>>
    <3>1. Len(sm) # Len(<<>>)
      BY <1>7
    <3>. QED BY <3>1
  <2>2. Settled(z) = DoGrabRemove(z)
    BY <1>7, <1>12, <2>1 DEF Settled, Top, Last
  <2>3. DoGrabRemove(z) = Restacked(z, <<>>)
    BY <1>8, <1>12, DoGrabRemovePops
  <2>4. Restacked(z, <<>>) = Restacked(y, <<>>)
    <3>1. <<>> \in Seq(Grab)
      OBVIOUS
    <3>. QED BY <1>7, <1>12, <3>1, RestackedTwice
  <2>. QED BY <2>2, <2>3, <2>4
<1>14. Kill(q, Len(s)) = Restacked(y, <<>>)
  BY <1>2, <1>5, <1>6, <1>13
<1>15. Looked(Restacked(y, <<>>)) = LetGo(e)
  <2>1. /\ Restacked(y, <<>>).stack = <<>> /\ Restacked(y, <<>>).loop = q.loop
    <3>1. <<>> \in Seq(Grab)
      OBVIOUS
    <3>2. y \in State /\ y.loop = q.loop
      BY <1>12
    <3>. HIDE DEF y, z, P
    <3>. QED BY <3>1, <3>2, RestackedIs
  <2>2. Looked(Restacked(y, <<>>))
          = [Restacked(y, <<>>) EXCEPT !.loop = FALSE, !.button = None]
    BY <1>3, <2>1 DEF Looked
  <2>3. LetGo(e) = [Restacked(e, <<>>) EXCEPT
                       !.pointer = NoPointer, !.loop = FALSE, !.button = None]
    BY <1>9, <1>10 DEF LetGo
  <2>4. [Restacked(y, <<>>) EXCEPT !.loop = FALSE, !.button = None]
          = [Restacked(e, <<>>) EXCEPT
                !.pointer = NoPointer, !.loop = FALSE, !.button = None]
    BY <1>4, <1>11 DEF Restacked, State
  <2>. QED BY <2>2, <2>3, <2>4
<1>16. Fine(LetGo(e))
  BY <1>4, LetGoFine
<1>. QED BY <1>14, <1>15, <1>16

\* Escape kills the topmost grab, whatever it is.
LEMMA EscapeFine ==
    ASSUME IInv, Escape
    PROVE  IInv'
<1>. DEFINE i == Len(w.stack)
<1>1. Fine(w) /\ w.stack # <<>> /\ i \in DOMAIN w.stack /\ i \in Nat
  BY TopHolds, FineState DEF IInv, Escape
<1>2. CASE Holds(w.stack, i, "pointer")
  <2>1. Fine(Looked(Kill(w, i)))
    BY <1>1, <1>2, PointerKilledFine
  <2>. QED BY <2>1 DEF Escape, Slot, IInv
<1>3. CASE ~Holds(w.stack, i, "pointer")
  <2>. DEFINE x == Kill(w, i)
  <2>1. Killing(x, w, i)
    <3>1. \A k \in i + 1 .. i : ~w.stack[k].remove => w.stack[k].holder # w.stack[i].holder
      BY <1>1
    <3>. QED BY <1>1, <1>3, <3>1, KillFine
  <2>. HIDE DEF x
  <2>2. x.loop => x.stack # <<>>
    BY <2>1 DEF Killing, Fine, Firm, Pressed, Dragging, Holds
  <2>3. Looked(x) = x
    BY <2>2 DEF Looked
  <2>4. Fine(x)
    BY <2>1 DEF Killing
  <2>. QED BY <2>3, <2>4 DEF x, Escape, Slot, IInv
<1>. QED BY <1>2, <1>3

-----------------------------------------------------------------------------
(* The rest, and the theorems.                                             *)

\* Windows come and go.
LEMMA ComeAndGoFine ==
    ASSUME IInv, NEW reg \in Windows,
           Appear(reg) \/ Destroy(reg) \/ MenuGoes(reg)
    PROVE  IInv'
<1>1. CASE Appear(reg)
  <2>. DEFINE x == [w EXCEPT !.alive = @ \cup {reg}]
  <2>1. Firm(x) /\ x.stack = w.stack /\ x.sub = w.sub
    BY BornFirm DEF IInv, Fine
  <2>. HIDE DEF x
  <2>2. Fine(x)
    BY <2>1 DEF IInv, Fine
  <2>. QED BY <1>1, <2>2 DEF x, Appear, IInv
<1>2. CASE Destroy(reg)
  <2>1. Fine(Destroyed(w, reg))
    BY <1>2, DestroyedFine DEF Destroy, IInv
  <2>. QED BY <1>2, <2>1 DEF Destroy, IInv
<1>3. CASE MenuGoes(reg)
  <2>1. reg \in Inputs /\ reg # Root
    BY <1>3, GrabsAssumption DEF MenuGoes, IInv, Fine, Firm, Living
  <2>2. Fine(Destroyed(w, reg))
    BY <1>3, <2>1, DestroyedFine DEF MenuGoes, IInv
  <2>. QED BY <1>3, <2>2 DEF MenuGoes, IInv
<1>. QED BY <1>1, <1>2, <1>3

\* The invariant holds at first,
LEMMA Initially == Init => IInv
<1>. SUFFICES ASSUME Init PROVE IInv
  OBVIOUS
<1>1. Root \in Windows /\ NoPointer \in Pointer /\ <<>> \in Seq(Grab)
      /\ "normal" \in Modes /\ None \notin Windows
  BY GrabsAssumption DEF Windows, NoPointer, Pointer, Drags, Modes
<1>2. /\ w \in State /\ w.stack = <<>> /\ w.current = 0
      /\ w.grabbed = FALSE /\ w.mode = "normal" /\ w.alive = {Root}
      /\ w.ending = {} /\ w.sub = {} /\ w.failed = None /\ w.target = None
      /\ w.timer = "no" /\ w.pointer = NoPointer /\ w.loop = FALSE
      /\ w.tabwin = None
  BY <1>1 DEF Init, State
<1>3. Len(w.stack) = 0 /\ DOMAIN w.stack = {}
  BY <1>2
<1>4. Stacked(w)
  <2>1. Shape(w.stack)
    BY <1>3 DEF Shape
  <2>2. Owned(w.stack, w.alive)
    BY <1>3 DEF Owned
  <2>. QED BY <1>2, <1>3, <2>1, <2>2 DEF Stacked
<1>5. Living(w)
  BY <1>1, <1>2 DEF Living, Grabbing, Windows
<1>6. Resizing(w.stack, w.target, w.timer, w.pointer)
  BY <1>2, <1>3 DEF Resizing
<1>7. Pressed(w)
  BY <1>2, <1>3 DEF Pressed, Released, Helds
<1>8. Entered(w.stack, w.sub)
  BY <1>2, <1>3 DEF Entered
<1>. QED BY <1>2, <1>4, <1>5, <1>6, <1>7, <1>8 DEF IInv, Fine, Firm

\* and every step keeps it.
LEMMA Step == IInv /\ [Next]_w => IInv'
<1>. SUFFICES ASSUME IInv, [Next]_w PROVE IInv'
  OBVIOUS
<1>1. ASSUME NEW reg \in Windows, NEW b \in Bound(w), KeyPress(reg, b) PROVE IInv'
  BY <1>1, KeyPressFine
<1>2. ASSUME NEW b \in Bound(w), SubmapKey(b) PROVE IInv'
  BY <1>2, SubmapKeyFine
<1>3. ASSUME NEW f \in KeyCalls(w), SubmapReleaseMod(f) PROVE IInv'
  BY <1>3, SubmapReleaseModFine
<1>4. CASE LastKey
  BY <1>4, LastKeyFine
<1>5. CASE ResizeKey
  BY <1>5, ResizeKeyFine
<1>6. CASE ResizeEnds
  BY <1>6, ResizeEndsFine
<1>7. CASE MenuKeyUp
  BY <1>7, MenuKeyUpFine
<1>8. CASE Escape
  BY <1>8, EscapeFine
<1>9. ASSUME NEW reg \in Windows, NEW b \in Buttons, Press(reg, b) PROVE IInv'
  BY <1>9, PressFine
<1>10. CASE Motion
  BY <1>10, MotionFine
<1>11. CASE Release
  BY <1>11, ReleaseFine
<1>12. CASE Tick \/ TimeOut
  BY <1>12, TimesFine
<1>13. ASSUME NEW reg \in Windows, Appear(reg) \/ Destroy(reg) \/ MenuGoes(reg)
       PROVE  IInv'
  BY <1>13, ComeAndGoFine
<1>14. CASE UNCHANGED w
  BY <1>14 DEF IInv
<1>. QED BY <1>1, <1>2, <1>3, <1>4, <1>5, <1>6, <1>7, <1>8, <1>9, <1>10, <1>11,
            <1>12, <1>13, <1>14 DEF Next, Events, Aborted

\* The inductive invariant holds of any frames, clients, menus and buttons.
THEOREM Invariance == Spec => []IInv
BY Initially, Step, PTL DEF Spec

\* The invariant implies what is typed,
LEMMA IsTyped ==
    ASSUME IInv
    PROVE  TypeOK
<1>1. /\ w \in State /\ w.stack \in Seq(Grab) /\ Len(w.stack) \in Nat
      /\ DOMAIN w.stack = 1 .. Len(w.stack) /\ w.alive \subseteq Windows
      /\ Shape(w.stack) /\ Owned(w.stack, w.alive)
      /\ Stacked(w) /\ Living(w) /\ Pressed(w)
  BY FineState DEF IInv, Fine, Firm
<1>2. /\ w.alive \subseteq Windows /\ w.target \in w.alive \cup {None}
      /\ w.timer \in {"no", "set", "due"}
      /\ w.sub \subseteq w.alive /\ w.ending \subseteq w.alive
      /\ w.button \in Buttons \cup {None} /\ w.failed \in Windows \cup {None}
  BY <1>1 DEF Living, State
<1>3. Len(w.stack) < MAX_GRABS /\ w.current = Len(w.stack)
  BY <1>1 DEF Shape, MAX_GRABS, Stacked
<1>4. w.stack # <<>> => ~Top(w).remove
  BY <1>1 DEF Stacked, Top, Last
<1>5. /\ w.grabbed <=> w.stack # <<>>
      /\ w.mode = IF w.grabbed THEN "grab" ELSE "normal"
  BY <1>1 DEF Stacked
<1>6. \A g \in Range(w.stack) : ~g.remove => g.holder \in w.alive
  BY <1>1 DEF Range, Owned
<1>7. /\ w.pointer.held => w.pointer.reg \in w.alive
      /\ w.tabwin \in w.alive \cup {None}
  BY <1>1 DEF Pressed, Dragging, Released, NoPointer
<1>. QED BY <1>1, <1>2, <1>3, <1>4, <1>5, <1>6, <1>7 DEF TypeOK

\* The grabs with a handler, as the properties and as the invariant say it
LEMMA HeldIs ==
    ASSUME IInv, NEW h
    PROVE  /\ Held(w, h) # {} <=> Helds(w.stack, h)
           /\ \A r : (\E g \in Held(w, h) : g.holder = r)
                <=> \E i \in DOMAIN w.stack : Holds(w.stack, i, h) /\ w.stack[i].holder = r
BY DEF Held, Helds, Holds, Range

\* ModeHasEnd: a move/resize mode has its own grab of the keys and its timer,
\* or the drag that began it, and neither outlives it (kbresize.c, presize.c).
THEOREM ModesEnd == Spec => []ModeHasEnd
<1>1. IInv => ModeHasEnd
  <2>. SUFFICES ASSUME IInv PROVE ModeHasEnd
    OBVIOUS
  <2>1. Resizing(w.stack, w.target, w.timer, w.pointer) /\ Owned(w.stack, w.alive)
        /\ w.alive \subseteq Windows
    BY FineState DEF IInv, Fine, Firm
  <2>2. TypeOK
    BY IsTyped
  <2>3. /\ Held(w, "resize") # {} <=> Helds(w.stack, "resize")
        /\ (\E g \in Held(w, "resize") : g.holder = w.target)
             <=> \E i \in DOMAIN w.stack :
                     Holds(w.stack, i, "resize") /\ w.stack[i].holder = w.target
    BY HeldIs
  <2>4. Helds(w.stack, "resize") =>
          /\ \E i \in DOMAIN w.stack :
                 Holds(w.stack, i, "resize") /\ w.stack[i].holder = w.target
          /\ w.timer # "no" /\ w.target # None
    BY <2>1, GrabsAssumption DEF Resizing, Helds, Owned, Holds
  <2>. QED BY <2>1, <2>2, <2>3, <2>4 DEF ModeHasEnd, Resizing
<1>. QED BY <1>1, Invariance, PTL

\* GrabsServe: the press is in its loop exactly while its grab is held, the
\* window of a dragged tab is there only while it is dragged, and the maps that
\* were entered are those whose grab is held (pointer.c, key.c, grab.c).
THEOREM GrabsAreServed == Spec => []GrabsServe
<1>1. IInv => GrabsServe
  <2>. SUFFICES ASSUME IInv PROVE GrabsServe
    OBVIOUS
  <2>1. /\ w \in State /\ Pressed(w) /\ Entered(w.stack, w.sub) /\ Living(w)
        /\ Owned(w.stack, w.alive) /\ w.loop \in BOOLEAN
    BY FineState DEF IInv, Fine, Firm
  <2>2. DragHeld
    <3>1. Held(w, "pointer") # {} <=> Helds(w.stack, "pointer")
      BY HeldIs
    <3>2. CASE w.loop
      <4>1. Helds(w.stack, "pointer")
        BY <2>1, <3>2 DEF Pressed, Dragging, Helds, Holds
      <4>. QED BY <2>1, <3>1, <3>2, <4>1 DEF DragHeld, Pressed, Dragging
    <3>3. CASE ~w.loop
      <4>1. ~w.pointer.held /\ w.tabwin = None /\ ~Helds(w.stack, "pointer")
        BY <2>1, <3>3 DEF Pressed, Released, NoPointer
      <4>. QED BY <3>1, <3>3, <4>1 DEF DragHeld
    <3>. QED BY <3>2, <3>3
  <2>3. w.sub \cap Grabbing = {g.holder : g \in Held(w, "submap")}
    <3>1. ASSUME NEW r
          PROVE  r \in w.sub \cap Grabbing <=> \E g \in Held(w, "submap") : g.holder = r
      <4>1. (\E g \in Held(w, "submap") : g.holder = r)
              <=> \E i \in DOMAIN w.stack :
                      Holds(w.stack, i, "submap") /\ w.stack[i].holder = r
        BY HeldIs
      <4>2. (\E i \in DOMAIN w.stack : Holds(w.stack, i, "submap") /\ w.stack[i].holder = r)
              => r \in Grabbing
        BY <2>1 DEF Owned, Holds
      <4>. QED BY <2>1, <4>1, <4>2 DEF Entered
    <3>. QED BY <3>1
  <2>. QED BY <2>1, <2>2, <2>3 DEF GrabsServe, SubmapsHeld, Living
<1>. QED BY <1>1, Invariance, PTL
=============================================================================
