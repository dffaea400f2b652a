---------------------------- MODULE MainLoopProofs ----------------------------
(***************************************************************************)
(* Proofs about the lists of ioncore that outlive what is on them, and     *)
(* about the session that the main loop hears of.                          *)
(* Timers: the queue and the alarm agree, nothing is slept through, and no *)
(* timer fires early.  Deferred: the inductive invariant IInv and what     *)
(* follows from it, for any number of objects, slots and heap cells.       *)
(* Tags, for any set of regions and any number of nodes: the flags, the    *)
(* list and the watches on its objects tell the same story, and the list   *)
(* is the order of tagging.                                                *)
(* Session, for any windows, places and numbers of acts and starts: every  *)
(* SaveYourself is answered once, what is done when a save is complete is  *)
(* what was asked for last, and windows come back to the places that the   *)
(* file has for them.                                                      *)
(***************************************************************************)
EXTENDS Deferred, Timers, Tags, Session, ListLemmas

(****************************** struct timeval ******************************)

LEMMA ProductGrows ==
    ASSUME NEW m \in Nat, NEW n \in Nat, NEW d \in Nat, m > n
    PROVE  m * d >= n * d + d
<1>1. (m - n - 1) * d >= 0
  <2>1. m - n - 1 \in Nat
    OBVIOUS
  <2>. QED BY <2>1
<1>2. m * d - n * d - d = (m - n - 1) * d
  OBVIOUS
<1>. QED BY <1>1, <1>2

LEMMA UsecsNatural ==
    ASSUME NEW a \in TimeVal
    PROVE  Usecs(a) \in Nat /\ a.sec \in Nat /\ a.usec \in Nat
           /\ a.usec < UsecsInSec /\ a.sec * UsecsInSec \in Nat
<1>1. a.sec \in Nat /\ a.usec \in 0 .. (UsecsInSec - 1) /\ UsecsInSec \in Nat
  BY TimeAssumption DEF TimeVal
<1>2. a.sec * UsecsInSec \in Nat
  BY <1>1
<1>. QED BY <1>1, <1>2 DEF Usecs

\* TIMEVAL_LATER compares the times, not only the records.
LEMMA LaterIsAfter ==
    ASSUME NEW a \in TimeVal, NEW b \in TimeVal
    PROVE  Later(a, b) <=> Usecs(a) > Usecs(b)
<1>. DEFINE A == a.sec * UsecsInSec
            B == b.sec * UsecsInSec
<1>0. /\ a.sec \in Nat /\ a.usec \in Nat /\ a.usec < UsecsInSec
      /\ b.sec \in Nat /\ b.usec \in Nat /\ b.usec < UsecsInSec
      /\ A \in Nat /\ B \in Nat /\ UsecsInSec \in Nat
  BY UsecsNatural, TimeAssumption
<1>1. Usecs(a) = A + a.usec /\ Usecs(b) = B + b.usec
  BY DEF Usecs
<1>2. a.sec > b.sec => A >= B + UsecsInSec
  BY <1>0, ProductGrows
<1>3. b.sec > a.sec => B >= A + UsecsInSec
  BY <1>0, ProductGrows
<1>4. a.sec = b.sec => A = B
  OBVIOUS
<1>. HIDE DEF A, B
<1>5. a.sec > b.sec \/ b.sec > a.sec \/ a.sec = b.sec
  BY <1>0
<1>6. CASE a.sec > b.sec
  <2>1. A >= B + UsecsInSec
    BY <1>2, <1>6
  <2>2. A + a.usec > B + b.usec
    BY <1>0, <2>1
  <2>. QED BY <1>1, <1>6, <2>2 DEF Later
<1>7. CASE b.sec > a.sec
  <2>1. B >= A + UsecsInSec
    BY <1>3, <1>7
  <2>2. ~(A + a.usec > B + b.usec)
    BY <1>0, <2>1
  <2>. QED BY <1>0, <1>1, <1>7, <2>2 DEF Later
<1>8. CASE a.sec = b.sec
  BY <1>0, <1>1, <1>4, <1>8 DEF Later
<1>. QED BY <1>5, <1>6, <1>7, <1>8

\* libmainloop_get_timeout borrows a second where it must.
LEMMA DifferenceIs ==
    ASSUME NEW a \in TimeVal, NEW b \in TimeVal, Later(a, b)
    PROVE  Usecs(Difference(a, b)) = Usecs(a) - Usecs(b)
<1>0. /\ a.sec \in Nat /\ a.usec \in Nat /\ b.sec \in Nat /\ b.usec \in Nat
      /\ UsecsInSec \in Nat
  BY UsecsNatural, TimeAssumption
<1>1. (a.sec - 1 - b.sec) * UsecsInSec
        = a.sec * UsecsInSec - UsecsInSec - b.sec * UsecsInSec
  BY <1>0
<1>2. (a.sec - b.sec) * UsecsInSec
        = a.sec * UsecsInSec - b.sec * UsecsInSec
  BY <1>0
<1>3. a.sec * UsecsInSec \in Nat /\ b.sec * UsecsInSec \in Nat
  BY UsecsNatural
<1>4. CASE a.usec < b.usec
  BY <1>0, <1>1, <1>3, <1>4 DEF Usecs, Difference
<1>5. CASE ~(a.usec < b.usec)
  BY <1>0, <1>2, <1>3, <1>5 DEF Usecs, Difference
<1>. QED BY <1>4, <1>5

\* add_to_current_time carries, and adds the product that fits in a uint.
LEMMA AddMsecsIs ==
    ASSUME NEW a \in TimeVal, NEW m \in Nat
    PROVE  /\ AddMsecs(a, m) \in TimeVal
           /\ Usecs(AddMsecs(a, m))
                = Usecs(a) + ((m * UsecsInMsec) % UintMod)
<1>. DEFINE add == (m * UsecsInMsec) % UintMod
            usec == a.usec + add
            carry == usec \div UsecsInSec
            rest == usec % UsecsInSec
<1>0. /\ a.sec \in Nat /\ a.usec \in Nat
      /\ UsecsInSec \in Nat \ {0} /\ UintMod \in Nat \ {0}
      /\ UsecsInMsec \in Nat
  BY UsecsNatural, TimeAssumption
<1>1. m * UsecsInMsec \in Nat
  BY <1>0
<1>2. add \in Nat
  BY <1>0, <1>1
<1>. HIDE DEF add
<1>3. usec \in Nat
  BY <1>0, <1>2
<1>. HIDE DEF usec
<1>4. /\ carry \in Nat /\ rest \in 0 .. UsecsInSec - 1
      /\ usec = carry * UsecsInSec + rest
  BY <1>0, <1>3
<1>. HIDE DEF carry, rest
<1>5. AddMsecs(a, m) = [sec |-> a.sec + carry, usec |-> rest]
  BY DEF AddMsecs, add, usec, carry, rest
<1>6. AddMsecs(a, m) \in TimeVal
  BY <1>0, <1>4, <1>5 DEF TimeVal
<1>7. (a.sec + carry) * UsecsInSec
        = a.sec * UsecsInSec + carry * UsecsInSec
  BY <1>0, <1>4
<1>8. a.sec * UsecsInSec \in Nat /\ carry * UsecsInSec \in Nat
  BY <1>0, <1>4
<1>9. Usecs(AddMsecs(a, m)) = (a.sec + carry) * UsecsInSec + rest
  BY <1>5 DEF Usecs
<1>10. Usecs(a) + add = a.sec * UsecsInSec + usec
  BY <1>0, <1>2, <1>8 DEF Usecs, usec
<1>11. Usecs(AddMsecs(a, m)) = Usecs(a) + add
  BY <1>0, <1>3, <1>4, <1>7, <1>8, <1>9, <1>10
<1>. QED BY <1>6, <1>11 DEF add

LEMMA TickIs ==
    ASSUME TimersTypeOK, Tick
    PROVE  clock' \in TimeVal /\ Usecs(clock') = Usecs(clock) + 1
<1>0. /\ clock.sec \in Nat /\ clock.usec \in 0 .. (UsecsInSec - 1)
      /\ UsecsInSec \in Nat \ {0} /\ clock \in TimeVal
  BY TimeAssumption DEF TimersTypeOK, TimeVal
<1>1. CASE clock.usec + 1 = UsecsInSec
  <2>1. clock' = [sec |-> clock.sec + 1, usec |-> 0]
    BY <1>1 DEF Tick
  <2>2. (clock.sec + 1) * UsecsInSec = clock.sec * UsecsInSec + UsecsInSec
    BY <1>0
  <2>3. clock.sec * UsecsInSec \in Nat
    BY <1>0
  <2>. QED BY <1>0, <1>1, <2>1, <2>2, <2>3 DEF TimeVal, Usecs
<1>2. CASE clock.usec + 1 # UsecsInSec
  <2>1. clock' = [clock EXCEPT !.usec = clock.usec + 1]
    BY <1>2 DEF Tick
  <2>2. clock' = [sec |-> clock.sec, usec |-> clock.usec + 1]
    BY <1>0, <2>1 DEF TimeVal
  <2>3. clock.sec * UsecsInSec \in Nat
    BY <1>0
  <2>. QED BY <1>0, <1>2, <2>2, <2>3 DEF TimeVal, Usecs
<1>. QED BY <1>1, <1>2

(***************************** The timer queue *****************************)

\* The elements of a queue: each timer once, the earliest first.
Sorted(q) ==
    \A i, j \in DOMAIN q : i < j =>
        q[i].timer # q[j].timer /\ ~Later(q[i].when, q[j].when)

\* What the queue w is made from: some of q, and what is new.
PartOf(w, q) == \A i \in DOMAIN w : \E j \in DOMAIN q : w[i] = q[j]
PartOfAnd(w, q, e) ==
    \A i \in DOMAIN w : w[i] = e \/ \E j \in DOMAIN q : w[i] = q[j]

LEMMA SortedOnce ==
    ASSUME NEW q, Sorted(q), DOMAIN q \subseteq Int,
           NEW i \in DOMAIN q, NEW j \in DOMAIN q, q[i].timer = q[j].timer
    PROVE  i = j
BY DEF Sorted

\* timer_reset unlinks the timer, which is in the queue once, and keeps the
\* order of the others.
LEMMA WithoutSorted ==
    ASSUME NEW t, queue \in Seq(SetTimers), Sorted(queue)
    PROVE  /\ Without(t) \in Seq(SetTimers) /\ Sorted(Without(t))
           /\ PartOf(Without(t), queue)
           /\ \A i \in DOMAIN Without(t) : Without(t)[i].timer # t
<1>1. CASE ~Set(t)
  BY <1>1 DEF Without, Set, PartOf
<1>2. CASE Set(t)
  <2>. DEFINE at == CHOOSE i \in DOMAIN queue : queue[i].timer = t
              w == RemoveAt(queue, at)
  <2>1. at \in 1 .. Len(queue) /\ queue[at].timer = t
    BY <1>2 DEF Set
  <2>2. Without(t) = w
    BY <1>2 DEF Without
  <2>. HIDE DEF at
  <2>3. /\ w \in Seq(SetTimers) /\ Len(w) = Len(queue) - 1
        /\ \A i \in 1 .. Len(queue) - 1 :
              w[i] = IF i < at THEN queue[i] ELSE queue[i + 1]
    BY <2>1, RemoveAtElements
  <2>. HIDE DEF w
  <2>. DEFINE from(i) == IF i < at THEN i ELSE i + 1
  <2>4. \A i \in DOMAIN w : /\ from(i) \in DOMAIN queue /\ w[i] = queue[from(i)]
                            /\ from(i) # at
    BY <2>1, <2>3
  <2>5. \A i, j \in DOMAIN w : i < j => from(i) < from(j)
    BY <2>1, <2>3
  <2>6. DOMAIN queue \subseteq Int /\ at \in DOMAIN queue
    BY <2>1
  <2>. HIDE DEF from
  <2>7. Sorted(w)
    BY <2>4, <2>5 DEF Sorted
  <2>8. \A i \in DOMAIN w : w[i].timer # t
    BY <2>1, <2>4, <2>6, SortedOnce
  <2>9. PartOf(w, queue)
    BY <2>4 DEF PartOf
  <2>. QED BY <2>2, <2>3, <2>7, <2>8, <2>9
<1>. QED BY <1>1, <1>2

\* timer_do_set puts the timer behind those that are not later.
LEMMA EnqueueSorted ==
    ASSUME NEW q \in Seq(SetTimers), Sorted(q), NEW e \in SetTimers,
           \A i \in DOMAIN q : q[i].timer # e.timer
    PROVE  /\ Enqueue(q, e) \in Seq(SetTimers) /\ Enqueue(q, e) # <<>>
           /\ Sorted(Enqueue(q, e))
           /\ PartOfAnd(Enqueue(q, e), q, e)
<1>. DEFINE later == {i \in DOMAIN q : Later(q[i].when, e.when)}
            at == IF later = {} THEN Len(q) + 1 ELSE Min(later)
            w == InsertAt(q, at, e)
<1>1. Len(q) \in Nat /\ DOMAIN q = 1 .. Len(q)
  OBVIOUS
<1>2. /\ at \in 1 .. Len(q) + 1
      /\ \A i \in 1 .. Len(q) : i < at => ~Later(q[i].when, e.when)
      /\ at \in DOMAIN q => Later(q[at].when, e.when)
  <2>1. CASE later = {}
    BY <1>1, <2>1
  <2>2. CASE later # {}
    <3>1. later \in SUBSET Int /\ IsFiniteSet(later)
      <4>1. IsFiniteSet(1 .. Len(q))
        BY <1>1, FS_Interval
      <4>. QED BY <1>1, <4>1, FS_Subset
    <3>2. Min(later) \in later /\ \A i \in later : Min(later) <= i
      BY <2>2, <3>1, LeastInt DEF Min
    <3>3. at = Min(later)
      BY <2>2
    <3>. HIDE DEF at
    <3>4. at \in DOMAIN q /\ Later(q[at].when, e.when)
      BY <3>2, <3>3
    <3>5. \A i \in 1 .. Len(q) : Later(q[i].when, e.when) => at <= i
      BY <1>1, <3>2, <3>3
    <3>6. at \in Int /\ \A i \in 1 .. Len(q) : i < at => ~(at <= i)
      BY <1>1, <3>4
    <3>. QED BY <1>1, <3>4, <3>5, <3>6
  <2>. QED BY <2>1, <2>2
<1>3. Enqueue(q, e) = w
  BY DEF Enqueue
<1>. HIDE DEF at, later
<1>4. /\ w \in Seq(SetTimers) /\ Len(w) = Len(q) + 1
      /\ \A i \in 1 .. Len(q) + 1 :
            w[i] = IF i < at THEN q[i] ELSE IF i = at THEN e ELSE q[i - 1]
  BY <1>2, InsertAtElements
<1>. HIDE DEF w
<1>. DEFINE from(i) == IF i < at THEN i ELSE i - 1
<1>5. \A i \in DOMAIN w : i # at => from(i) \in DOMAIN q /\ w[i] = q[from(i)]
  BY <1>1, <1>2, <1>4
<1>6. at \in DOMAIN w /\ w[at] = e
  BY <1>1, <1>2, <1>4
<1>7. \A i, j \in DOMAIN w : i # at /\ j # at /\ i < j => from(i) < from(j)
  BY <1>1, <1>2, <1>4
<1>8. \A i \in DOMAIN w : i # at => w[i].timer # e.timer
  BY <1>5
<1>9. \A i \in DOMAIN w : i < at => ~Later(w[i].when, e.when)
  BY <1>1, <1>2, <1>4
<1>10. ASSUME NEW i \in DOMAIN w, i > at
       PROVE  ~Later(e.when, w[i].when)
  <2>1. at \in DOMAIN q /\ i - 1 \in DOMAIN q /\ w[i] = q[i - 1] /\ at <= i - 1
    BY <1>1, <1>2, <1>4, <1>10
  <2>2. q[at] \in SetTimers /\ q[i - 1] \in SetTimers
    BY <2>1
  <2>3. e.when \in TimeVal /\ q[at].when \in TimeVal /\ q[i - 1].when \in TimeVal
    BY <2>2 DEF SetTimers
  <2>4. Usecs(q[at].when) > Usecs(e.when)
    BY <1>2, <2>1, <2>3, LaterIsAfter
  <2>5. ~(Usecs(q[at].when) > Usecs(q[i - 1].when))
    <3>1. CASE at = i - 1
      BY <2>3, <3>1, UsecsNatural
    <3>2. CASE at < i - 1
      <4>1. ~Later(q[at].when, q[i - 1].when)
        BY <2>1, <3>2 DEF Sorted
      <4>. QED BY <2>3, <4>1, LaterIsAfter
    <3>. QED BY <1>1, <2>1, <3>1, <3>2
  <2>6. /\ Usecs(e.when) \in Nat /\ Usecs(q[at].when) \in Nat
        /\ Usecs(q[i - 1].when) \in Nat
    BY <2>3, UsecsNatural
  <2>7. ~(Usecs(e.when) > Usecs(q[i - 1].when))
    BY <2>4, <2>5, <2>6
  <2>. QED BY <2>1, <2>3, <2>7, LaterIsAfter
<1>11. Sorted(w)
  <2>. SUFFICES ASSUME NEW i \in DOMAIN w, NEW j \in DOMAIN w, i < j
                PROVE  w[i].timer # w[j].timer /\ ~Later(w[i].when, w[j].when)
    BY DEF Sorted
  <2>1. CASE i = at
    BY <1>1, <1>4, <1>6, <1>8, <1>10, <2>1
  <2>2. CASE j = at
    BY <1>1, <1>4, <1>6, <1>8, <1>9, <2>2
  <2>3. CASE i # at /\ j # at
    BY <1>5, <1>7, <2>3 DEF Sorted
  <2>. QED BY <2>1, <2>2, <2>3
<1>12. PartOfAnd(w, q, e)
  BY <1>5, <1>6 DEF PartOfAnd
<1>13. w # <<>>
  BY <1>1, <1>4
<1>. QED BY <1>3, <1>4, <1>11, <1>12, <1>13

(******************************** The alarm ********************************)

\* What do_timer_set is for: the alarm comes when the head is due, or had_tmr
\* says that it is due.
LEMMA DoTimerSetArms ==
    ASSUME NEW q \in Seq(SetTimers), NEW had \in BOOLEAN,
           NEW al \in Nat \cup {Off}, clock \in TimeVal
    PROVE  /\ DoTimerSet(q, had, al).had \in BOOLEAN
           /\ DoTimerSet(q, had, al).alarm \in Nat \cup {Off}
           /\ \/ q = <<>> \/ DoTimerSet(q, had, al).had
              \/ /\ DoTimerSet(q, had, al).alarm # Off
                 /\ DoTimerSet(q, had, al).alarm <= Usecs(Head(q).when)
<1>. DEFINE tm == GetTimeout(q, had)
            set == DoTimerSet(q, had, al)
<1>0. Usecs(clock) \in Nat
  BY UsecsNatural
<1>1. set = [had |-> tm.had,
             alarm |-> IF tm.left # Off THEN Expiry(tm.left)
                       ELSE IF tm.had THEN al ELSE Off]
  BY DEF DoTimerSet
<1>2. CASE q = <<>>
  <2>1. tm = [left |-> Off, had |-> had]
    BY <1>2 DEF GetTimeout
  <2>. QED BY <1>1, <1>2, <2>1
<1>3. CASE q # <<>> /\ Later(Head(q).when, clock)
  <2>1. Head(q).when \in TimeVal
    <3>1. Head(q) \in SetTimers
      BY <1>3
    <3>. QED BY <3>1 DEF SetTimers
  <2>2. tm = [left |-> Usecs(Difference(Head(q).when, clock)), had |-> had]
    BY <1>3 DEF GetTimeout
  <2>3. Usecs(Difference(Head(q).when, clock))
          = Usecs(Head(q).when) - Usecs(clock)
    BY <1>3, <2>1, DifferenceIs
  <2>4. Usecs(Head(q).when) > Usecs(clock) /\ Usecs(Head(q).when) \in Nat
    BY <1>3, <2>1, LaterIsAfter, UsecsNatural
  <2>5. tm.left \in Nat \ {0} /\ tm.left # Off
        /\ Usecs(clock) + tm.left = Usecs(Head(q).when) /\ tm.had = had
    BY <1>0, <2>2, <2>3, <2>4 DEF Off
  <2>. HIDE DEF tm
  <2>6. set.alarm = Usecs(Head(q).when) /\ set.had = had
    BY <1>1, <2>5 DEF Expiry
  <2>. QED BY <2>4, <2>6 DEF Off
<1>4. CASE q # <<>> /\ ~Later(Head(q).when, clock)
  <2>1. tm = [left |-> Off, had |-> TRUE]
    BY <1>4 DEF GetTimeout
  <2>. QED BY <1>1, <2>1
<1>. QED BY <1>2, <1>3, <1>4

(************************* The inductive invariant *************************)

\* What is known at each place of the loop on the way to sleep.
OnTheWay ==
    /\ pc = "getevent" => modal
    /\ pc = "blocked" /\ ~pselect /\ queue # <<>> => timeout # Off \/ had_tmr
    /\ pc = "entering" /\ ~pselect /\ queue # <<>> => timeout # Off
    /\ pc = "entering" /\ pselect =>
         ~had_tmr /\ ~usr2_sig /\ ~wait_sig /\ kill_sig \notin SpecialSigs

\* Every child is alive, dead or waited for; the build does not change.
Counted == pselect \in BOOLEAN /\ children + zombies <= MaxChildren

\* The moment that the queue is run through for has come.
NowPassed == pc \in {"expire", "callback"} => Usecs(now) <= Usecs(clock)

TimersInv ==
    /\ TimersTypeOK /\ Counted /\ QueueSorted /\ Armed /\ OnTheWay
    /\ TimersWake /\ ZombiesNoticed /\ SleepsUnsignalled /\ NowPassed

LEMMA SortedQueue ==
    QueueSorted <=> /\ \A i \in DOMAIN queue : queue[i].timer \in live
                    /\ Sorted(queue)
BY DEF QueueSorted, Sorted

LEMMA TimersInitHolds == TimersInit => TimersInv
<1>. SUFFICES ASSUME TimersInit PROVE TimersInv
  OBVIOUS
<1>1. TimersTypeOK
  <2>1. Zero \in TimeVal /\ Start \in TimeVal /\ MaxChildren \in Nat
    BY TimersAssumption, TimeAssumption DEF Zero, TimeVal
  <2>2. <<>> \in Seq(SetTimers)
    OBVIOUS
  <2>3. /\ clock \in TimeVal /\ now \in TimeVal /\ queue \in Seq(SetTimers)
        /\ children \in 0 .. MaxChildren /\ zombies \in 0 .. MaxChildren
    BY <2>1, <2>2 DEF TimersInit
  <2>4. /\ live \subseteq WTimers /\ pending \subseteq SpecialSigs
        /\ had_tmr \in BOOLEAN /\ usr2_sig \in BOOLEAN /\ wait_sig \in BOOLEAN
        /\ kill_sig \in KillSigs \cup {"none"} /\ modal \in BOOLEAN
        /\ alarm \in Nat \cup {Off} /\ timeout \in Nat \cup {Off}
        /\ pc = "usr2"
    BY DEF TimersInit
  <2>. QED BY <2>3, <2>4 DEF TimersTypeOK
<1>2. Counted
  BY TimersAssumption DEF TimersInit, Counted
<1>3. QueueSorted
  BY DEF TimersInit, QueueSorted
<1>4. Armed /\ OnTheWay /\ TimersWake /\ ZombiesNoticed /\ SleepsUnsignalled
  BY DEF TimersInit, Armed, OnTheWay, TimersWake, ZombiesNoticed, SleepsUnsignalled
<1>5. NowPassed
  BY DEF TimersInit, NowPassed
<1>. QED BY <1>1, <1>2, <1>3, <1>4, <1>5 DEF TimersInv

(***************************** Calls on timers *****************************)

\* Any call keeps what is not about the queue and the alarm.
LEMMA CallKeeps ==
    ASSUME TimersInv, Calling,
           UNCHANGED <<flagvars, localvars, pselect, clock, children, zombies,
                       pc>>,
           live' \subseteq WTimers, queue' \in Seq(SetTimers),
           had_tmr' \in BOOLEAN, alarm' \in Nat \cup {Off},
           QueueSorted', Armed'
    PROVE  TimersInv'
<1>1. TimersTypeOK'
  BY DEF TimersInv, TimersTypeOK, flagvars, localvars
<1>2. Counted' /\ NowPassed'
  BY DEF TimersInv, Counted, NowPassed, localvars
<1>3. OnTheWay' /\ TimersWake' /\ ZombiesNoticed' /\ SleepsUnsignalled'
  BY DEF TimersInv, OnTheWay, TimersWake, ZombiesNoticed, SleepsUnsignalled, Calling,
         flagvars, localvars
<1>. QED BY <1>1, <1>2, <1>3 DEF TimersInv

LEMMA AfterResetArms ==
    ASSUME NEW t, TimersInv
    PROVE  /\ AfterReset(t).had \in BOOLEAN
           /\ AfterReset(t).alarm \in Nat \cup {Off}
           /\ \/ Without(t) = <<>> \/ AfterReset(t).had
              \/ /\ AfterReset(t).alarm # Off
                 /\ AfterReset(t).alarm <= Usecs(Head(Without(t)).when)
              \/ "ALRM" \in pending \/ pc \in {"expire", "callback"}
              \/ pc \in {"dead", "aborted"}
<1>0. /\ queue \in Seq(SetTimers) /\ had_tmr \in BOOLEAN
      /\ alarm \in Nat \cup {Off} /\ clock \in TimeVal /\ Sorted(queue)
  BY SortedQueue DEF TimersInv, TimersTypeOK
<1>1. CASE Set(t)
  <2>1. Without(t) \in Seq(SetTimers)
    BY <1>0, WithoutSorted
  <2>2. AfterReset(t) = DoTimerSet(Without(t), had_tmr, alarm)
    BY <1>1 DEF AfterReset
  <2>. DEFINE w == Without(t)
              set == DoTimerSet(w, had_tmr, alarm)
  <2>. HIDE DEF w
  <2>3. /\ set.had \in BOOLEAN /\ set.alarm \in Nat \cup {Off}
        /\ \/ w = <<>> \/ set.had
           \/ set.alarm # Off /\ set.alarm <= Usecs(Head(w).when)
    BY <1>0, <2>1, DoTimerSetArms DEF w
  <2>. QED BY <2>2, <2>3 DEF w
<1>2. CASE ~Set(t)
  <2>1. Without(t) = queue
    BY <1>2 DEF Without
  <2>2. AfterReset(t) = [had |-> had_tmr, alarm |-> alarm]
    BY <1>2 DEF AfterReset
  <2>3. Armed
    BY DEF TimersInv
  <2>. QED BY <1>0, <2>1, <2>2, <2>3 DEF Armed
<1>. QED BY <1>1, <1>2

LEMMA CreateTimerKeeps ==
    ASSUME TimersInv, NEW t \in WTimers, CreateTimer(t)
    PROVE  TimersInv'
<1>1. live' = live \cup {t} /\ Calling
      /\ UNCHANGED <<flagvars, worldvars, localvars, had_tmr, queue, pc>>
  BY DEF CreateTimer
<1>2. QueueSorted'
  BY <1>1 DEF TimersInv, QueueSorted
<1>3. Armed'
  BY <1>1 DEF TimersInv, Armed, flagvars, worldvars
<1>4. /\ live' \subseteq WTimers /\ queue' \in Seq(SetTimers)
      /\ had_tmr' \in BOOLEAN /\ alarm' \in Nat \cup {Off}
  BY <1>1 DEF TimersInv, TimersTypeOK, worldvars
<1>. QED BY <1>1, <1>2, <1>3, <1>4, CallKeeps DEF worldvars

LEMMA SetTimerKeeps ==
    ASSUME TimersInv, NEW t \in WTimers, NEW msecs \in Msecs, SetTimer(t, msecs)
    PROVE  TimersInv'
<1>. DEFINE reset == AfterReset(t)
            e == [timer |-> t, when |-> AddMsecs(clock, msecs),
                  due |-> Usecs(clock) + msecs * UsecsInMsec]
            w == Without(t)
            q == Enqueue(w, e)
            set == DoTimerSet(q, reset.had, reset.alarm)
<1>1. /\ Calling /\ t \in live /\ queue' = q
      /\ had_tmr' = set.had /\ alarm' = set.alarm
      /\ UNCHANGED <<flagvars, localvars, pselect, clock, children, zombies,
                     live, pc>>
  BY DEF SetTimer
<1>2. /\ queue \in Seq(SetTimers) /\ Sorted(queue) /\ clock \in TimeVal
      /\ \A i \in DOMAIN queue : queue[i].timer \in live
      /\ live \subseteq WTimers
  BY SortedQueue DEF TimersInv, TimersTypeOK
<1>3. e \in SetTimers /\ e.timer = t
  <2>1. msecs \in Nat /\ UsecsInMsec \in Nat
    BY TimersAssumption, TimeAssumption
  <2>2. AddMsecs(clock, msecs) \in TimeVal
    BY <1>2, <2>1, AddMsecsIs
  <2>3. Usecs(clock) \in Nat /\ msecs * UsecsInMsec \in Nat
    BY <1>2, <2>1, UsecsNatural
  <2>. QED BY <2>2, <2>3 DEF SetTimers
<1>4. /\ w \in Seq(SetTimers) /\ Sorted(w) /\ PartOf(w, queue)
      /\ \A i \in DOMAIN w : w[i].timer # t
  BY <1>2, WithoutSorted
<1>5. reset.had \in BOOLEAN /\ reset.alarm \in Nat \cup {Off}
  BY AfterResetArms
<1>. HIDE DEF reset, e, w
<1>6. q \in Seq(SetTimers) /\ q # <<>> /\ Sorted(q) /\ PartOfAnd(q, w, e)
  BY <1>3, <1>4, EnqueueSorted
<1>. HIDE DEF q
<1>7. /\ set.had \in BOOLEAN /\ set.alarm \in Nat \cup {Off}
      /\ \/ set.had
         \/ set.alarm # Off /\ set.alarm <= Usecs(Head(q).when)
  BY <1>2, <1>5, <1>6, DoTimerSetArms
<1>. HIDE DEF set
<1>8. QueueSorted'
  <2>1. \A i \in DOMAIN q : q[i].timer \in live
    BY <1>1, <1>2, <1>3, <1>4, <1>6 DEF PartOf, PartOfAnd
  <2>. QED BY <1>1, <1>6, <2>1 DEF QueueSorted, Sorted
<1>9. Armed'
  BY <1>1, <1>7 DEF Armed
<1>. QED BY <1>1, <1>2, <1>6, <1>7, <1>8, <1>9, CallKeeps

\* timer_reset, of a timer that stays or goes.
LEMMA UnsetKeeps ==
    ASSUME TimersInv, Calling, NEW t \in WTimers,
           live' = live \/ live' = live \ {t},
           queue' = Without(t), had_tmr' = AfterReset(t).had,
           alarm' = AfterReset(t).alarm,
           UNCHANGED <<flagvars, localvars, pselect, clock, children, zombies,
                       pc>>
    PROVE  TimersInv'
<1>1. /\ queue \in Seq(SetTimers) /\ Sorted(queue)
      /\ \A i \in DOMAIN queue : queue[i].timer \in live
      /\ live \subseteq WTimers
  BY SortedQueue DEF TimersInv, TimersTypeOK
<1>2. /\ queue' \in Seq(SetTimers) /\ Sorted(queue') /\ PartOf(queue', queue)
      /\ \A i \in DOMAIN queue' : queue'[i].timer # t
  BY <1>1, WithoutSorted
<1>3. QueueSorted'
  BY <1>1, <1>2 DEF QueueSorted, Sorted, PartOf
<1>4. /\ had_tmr' \in BOOLEAN /\ alarm' \in Nat \cup {Off} /\ Armed'
  BY AfterResetArms DEF Armed, Calling, flagvars
<1>. QED BY <1>1, <1>2, <1>3, <1>4, CallKeeps

LEMMA CallsKeep == TimersInv /\ Calls => TimersInv'
<1>. SUFFICES ASSUME TimersInv, NEW t \in WTimers,
                     \/ CreateTimer(t) \/ ResetTimer(t) \/ DestroyTimer(t)
                     \/ \E msecs \in Msecs : SetTimer(t, msecs)
              PROVE  TimersInv'
  BY DEF Calls
<1>1. CASE CreateTimer(t)
  BY <1>1, CreateTimerKeeps
<1>2. CASE ResetTimer(t)
  BY <1>2, UnsetKeeps DEF ResetTimer
<1>3. CASE DestroyTimer(t)
  BY <1>3, UnsetKeeps DEF DestroyTimer
<1>4. CASE \E msecs \in Msecs : SetTimer(t, msecs)
  BY <1>4, SetTimerKeeps
<1>. QED BY <1>1, <1>2, <1>3, <1>4

(********************** The loop around the calls **********************)

USE DEF Goes, queuevars, flagvars, worldvars, localvars

LEMMA CheckUsr2Keeps == TimersInv /\ CheckUsr2 => TimersInv'
<1>. SUFFICES ASSUME TimersInv, CheckUsr2 PROVE TimersInv'
  OBVIOUS
<1>1. TimersTypeOK'
  BY DEF TimersInv, TimersTypeOK, Counted, CheckUsr2, Off
<1>2. Counted' /\ NowPassed'
  BY DEF TimersInv, Counted, NowPassed, TimersTypeOK, CheckUsr2
<1>3. QueueSorted' /\ Armed'
  BY DEF TimersInv, QueueSorted, Armed, CheckUsr2
<1>4. OnTheWay' /\ TimersWake' /\ ZombiesNoticed' /\ SleepsUnsignalled'
  BY DEF TimersInv, TimersTypeOK, OnTheWay, TimersWake, ZombiesNoticed, SleepsUnsignalled,
         CheckUsr2
<1>. QED BY <1>1, <1>2, <1>3, <1>4 DEF TimersInv

LEMMA CheckChldKeeps == TimersInv /\ CheckChld => TimersInv'
<1>. SUFFICES ASSUME TimersInv, CheckChld PROVE TimersInv'
  OBVIOUS
<1>1. TimersTypeOK'
  BY DEF TimersInv, TimersTypeOK, Counted, CheckChld, Off
<1>2. Counted' /\ NowPassed'
  BY DEF TimersInv, Counted, NowPassed, TimersTypeOK, CheckChld
<1>3. QueueSorted' /\ Armed'
  BY DEF TimersInv, QueueSorted, Armed, CheckChld
<1>4. OnTheWay' /\ TimersWake' /\ ZombiesNoticed' /\ SleepsUnsignalled'
  BY DEF TimersInv, TimersTypeOK, OnTheWay, TimersWake, ZombiesNoticed, SleepsUnsignalled,
         CheckChld
<1>. QED BY <1>1, <1>2, <1>3, <1>4 DEF TimersInv

LEMMA ReapKeeps == TimersInv /\ Reap => TimersInv'
<1>. SUFFICES ASSUME TimersInv, Reap PROVE TimersInv'
  OBVIOUS
<1>1. TimersTypeOK'
  BY TimersAssumption DEF TimersInv, TimersTypeOK, Counted, Reap, Off
<1>2. Counted' /\ NowPassed'
  BY TimersAssumption DEF TimersInv, Counted, NowPassed, TimersTypeOK, Reap
<1>3. QueueSorted' /\ Armed'
  BY DEF TimersInv, QueueSorted, Armed, Reap
<1>4. OnTheWay' /\ TimersWake' /\ ZombiesNoticed' /\ SleepsUnsignalled'
  BY DEF TimersInv, TimersTypeOK, OnTheWay, TimersWake, ZombiesNoticed, SleepsUnsignalled,
         Reap
<1>. QED BY <1>1, <1>2, <1>3, <1>4 DEF TimersInv

LEMMA CheckKillKeeps == TimersInv /\ CheckKill => TimersInv'
<1>. SUFFICES ASSUME TimersInv, CheckKill PROVE TimersInv'
  OBVIOUS
<1>1. TimersTypeOK'
  BY DEF TimersInv, TimersTypeOK, Counted, CheckKill, Off
<1>2. Counted' /\ NowPassed'
  BY DEF TimersInv, Counted, NowPassed, TimersTypeOK, CheckKill
<1>3. QueueSorted' /\ Armed'
  BY DEF TimersInv, QueueSorted, Armed, CheckKill
<1>4. OnTheWay' /\ TimersWake' /\ ZombiesNoticed' /\ SleepsUnsignalled'
  BY DEF TimersInv, TimersTypeOK, OnTheWay, TimersWake, ZombiesNoticed, SleepsUnsignalled,
         CheckKill
<1>. QED BY <1>1, <1>2, <1>3, <1>4 DEF TimersInv

LEMMA CheckTimersKeeps == TimersInv /\ CheckTimers => TimersInv'
<1>. SUFFICES ASSUME TimersInv, CheckTimers PROVE TimersInv'
  OBVIOUS
<1>1. TimersTypeOK'
  BY UsecsNatural DEF TimersInv, TimersTypeOK, Counted, CheckTimers, CallerPlace, Off
<1>2. Counted' /\ NowPassed'
  BY UsecsNatural DEF TimersInv, Counted, NowPassed, TimersTypeOK, CheckTimers, CallerPlace
<1>3. QueueSorted' /\ Armed'
  BY DEF TimersInv, QueueSorted, Armed, CheckTimers, CallerPlace
<1>4. OnTheWay' /\ TimersWake' /\ ZombiesNoticed' /\ SleepsUnsignalled'
  BY DEF TimersInv, TimersTypeOK, OnTheWay, TimersWake, ZombiesNoticed, SleepsUnsignalled,
         CheckTimers, CallerPlace
<1>. QED BY <1>1, <1>2, <1>3, <1>4 DEF TimersInv

LEMMA ReturnKeeps == TimersInv /\ Return => TimersInv'
<1>. SUFFICES ASSUME TimersInv, Return PROVE TimersInv'
  OBVIOUS
<1>1. TimersTypeOK'
  BY DEF TimersInv, TimersTypeOK, Counted, Return, Off
<1>2. Counted' /\ NowPassed'
  BY DEF TimersInv, Counted, NowPassed, TimersTypeOK, Return
<1>3. QueueSorted' /\ Armed'
  BY DEF TimersInv, QueueSorted, Armed, Return
<1>4. OnTheWay' /\ TimersWake' /\ ZombiesNoticed' /\ SleepsUnsignalled'
  BY DEF TimersInv, TimersTypeOK, OnTheWay, TimersWake, ZombiesNoticed, SleepsUnsignalled,
         Return
<1>. QED BY <1>1, <1>2, <1>3, <1>4 DEF TimersInv

LEMMA FinishWorkKeeps == TimersInv /\ FinishWork => TimersInv'
<1>. SUFFICES ASSUME TimersInv, FinishWork PROVE TimersInv'
  OBVIOUS
<1>1. TimersTypeOK'
  BY DEF TimersInv, TimersTypeOK, Counted, FinishWork, Off
<1>2. Counted' /\ NowPassed'
  BY DEF TimersInv, Counted, NowPassed, TimersTypeOK, FinishWork
<1>3. QueueSorted' /\ Armed'
  BY DEF TimersInv, QueueSorted, Armed, FinishWork
<1>4. OnTheWay' /\ TimersWake' /\ ZombiesNoticed' /\ SleepsUnsignalled'
  BY DEF TimersInv, TimersTypeOK, OnTheWay, TimersWake, ZombiesNoticed, SleepsUnsignalled,
         FinishWork
<1>. QED BY <1>1, <1>2, <1>3, <1>4 DEF TimersInv

LEMMA GetEventKeeps == TimersInv /\ GetEvent => TimersInv'
<1>. SUFFICES ASSUME TimersInv, GetEvent PROVE TimersInv'
  OBVIOUS
<1>1. TimersTypeOK'
  BY DEF TimersInv, TimersTypeOK, Counted, GetEvent, Off
<1>2. Counted' /\ NowPassed'
  BY DEF TimersInv, Counted, NowPassed, TimersTypeOK, GetEvent
<1>3. QueueSorted' /\ Armed'
  BY DEF TimersInv, QueueSorted, Armed, GetEvent
<1>4. OnTheWay' /\ TimersWake' /\ ZombiesNoticed' /\ SleepsUnsignalled'
  BY DEF TimersInv, TimersTypeOK, OnTheWay, TimersWake, ZombiesNoticed, SleepsUnsignalled,
         GetEvent
<1>. QED BY <1>1, <1>2, <1>3, <1>4 DEF TimersInv

LEMMA GotEventKeeps == TimersInv /\ GotEvent => TimersInv'
<1>. SUFFICES ASSUME TimersInv, GotEvent PROVE TimersInv'
  OBVIOUS
<1>1. TimersTypeOK'
  BY DEF TimersInv, TimersTypeOK, Counted, GotEvent, Off
<1>2. Counted' /\ NowPassed'
  BY DEF TimersInv, Counted, NowPassed, TimersTypeOK, GotEvent
<1>3. QueueSorted' /\ Armed'
  BY DEF TimersInv, QueueSorted, Armed, GotEvent
<1>4. OnTheWay' /\ TimersWake' /\ ZombiesNoticed' /\ SleepsUnsignalled'
  BY DEF TimersInv, TimersTypeOK, OnTheWay, TimersWake, ZombiesNoticed, SleepsUnsignalled,
         GotEvent
<1>. QED BY <1>1, <1>2, <1>3, <1>4 DEF TimersInv

LEMMA WaitEventKeeps == TimersInv /\ WaitEvent => TimersInv'
<1>. SUFFICES ASSUME TimersInv, WaitEvent PROVE TimersInv'
  OBVIOUS
<1>1. TimersTypeOK'
  BY DEF TimersInv, TimersTypeOK, Counted, WaitEvent, Off
<1>2. Counted' /\ NowPassed'
  BY DEF TimersInv, Counted, NowPassed, TimersTypeOK, WaitEvent
<1>3. QueueSorted' /\ Armed'
  BY DEF TimersInv, QueueSorted, Armed, WaitEvent
<1>4. OnTheWay' /\ TimersWake' /\ ZombiesNoticed' /\ SleepsUnsignalled'
  BY DEF TimersInv, TimersTypeOK, OnTheWay, TimersWake, ZombiesNoticed, SleepsUnsignalled,
         WaitEvent
<1>. QED BY <1>1, <1>2, <1>3, <1>4 DEF TimersInv

LEMMA EnterSelectKeeps == TimersInv /\ EnterSelect => TimersInv'
<1>. SUFFICES ASSUME TimersInv, EnterSelect PROVE TimersInv'
  OBVIOUS
<1>1. TimersTypeOK'
  BY DEF TimersInv, TimersTypeOK, Counted, EnterSelect, Unhandled, SpecialSigs, Off
<1>2. Counted' /\ NowPassed'
  BY DEF TimersInv, Counted, NowPassed, TimersTypeOK, EnterSelect, Unhandled, SpecialSigs
<1>3. QueueSorted' /\ Armed'
  BY DEF TimersInv, QueueSorted, Armed, EnterSelect, Unhandled, SpecialSigs
<1>4. OnTheWay' /\ TimersWake' /\ ZombiesNoticed' /\ SleepsUnsignalled'
  BY DEF TimersInv, TimersTypeOK, OnTheWay, TimersWake, ZombiesNoticed, SleepsUnsignalled,
         EnterSelect, Unhandled, SpecialSigs
<1>. QED BY <1>1, <1>2, <1>3, <1>4 DEF TimersInv

LEMMA TimedOutKeeps == TimersInv /\ TimedOut => TimersInv'
<1>. SUFFICES ASSUME TimersInv, TimedOut PROVE TimersInv'
  OBVIOUS
<1>1. TimersTypeOK'
  BY DEF TimersInv, TimersTypeOK, Counted, TimedOut, Off
<1>2. Counted' /\ NowPassed'
  BY DEF TimersInv, Counted, NowPassed, TimersTypeOK, TimedOut
<1>3. QueueSorted' /\ Armed'
  BY DEF TimersInv, QueueSorted, Armed, TimedOut
<1>4. OnTheWay' /\ TimersWake' /\ ZombiesNoticed' /\ SleepsUnsignalled'
  BY DEF TimersInv, TimersTypeOK, OnTheWay, TimersWake, ZombiesNoticed, SleepsUnsignalled,
         TimedOut
<1>. QED BY <1>1, <1>2, <1>3, <1>4 DEF TimersInv

LEMMA ReadableKeeps == TimersInv /\ Readable => TimersInv'
<1>. SUFFICES ASSUME TimersInv, Readable PROVE TimersInv'
  OBVIOUS
<1>1. TimersTypeOK'
  BY DEF TimersInv, TimersTypeOK, Counted, Readable, Off
<1>2. Counted' /\ NowPassed'
  BY DEF TimersInv, Counted, NowPassed, TimersTypeOK, Readable
<1>3. QueueSorted' /\ Armed'
  BY DEF TimersInv, QueueSorted, Armed, Readable
<1>4. OnTheWay' /\ TimersWake' /\ ZombiesNoticed' /\ SleepsUnsignalled'
  BY DEF TimersInv, TimersTypeOK, OnTheWay, TimersWake, ZombiesNoticed, SleepsUnsignalled,
         Readable
<1>. QED BY <1>1, <1>2, <1>3, <1>4 DEF TimersInv

\* The head leaves a queue that stays sorted.
LEMMA ExpireKeeps == TimersInv /\ Expire => TimersInv'
<1>. SUFFICES ASSUME TimersInv, Expire PROVE TimersInv'
  OBVIOUS
<1>1. /\ queue \in Seq(SetTimers) /\ queue # <<>> /\ queue' = Tail(queue)
      /\ pc = "expire" /\ pc' = "callback"
  BY DEF TimersInv, TimersTypeOK, Expire
<1>2. /\ Tail(queue) \in Seq(SetTimers) /\ Len(queue) \in Nat
      /\ \A i \in DOMAIN Tail(queue) :
            i + 1 \in DOMAIN queue /\ Tail(queue)[i] = queue[i + 1] /\ i \in Int
  BY <1>1
<1>3. TimersTypeOK'
  BY <1>1, <1>2 DEF TimersInv, TimersTypeOK, Expire
<1>4. Counted' /\ NowPassed'
  BY <1>1 DEF TimersInv, Counted, NowPassed, Expire
<1>5. QueueSorted'
  <2>1. live' = live
    BY DEF Expire
  <2>2. \A i, j \in DOMAIN Tail(queue) : i < j => i + 1 < j + 1
    BY <1>2
  <2>. QED BY <1>1, <1>2, <2>1, <2>2 DEF TimersInv, QueueSorted
<1>6. Armed'
  BY <1>1 DEF Armed
<1>7. OnTheWay' /\ TimersWake' /\ ZombiesNoticed' /\ SleepsUnsignalled'
  BY <1>1 DEF TimersInv, OnTheWay, TimersWake, ZombiesNoticed, SleepsUnsignalled,
              Expire
<1>. QED BY <1>3, <1>4, <1>5, <1>6, <1>7 DEF TimersInv

LEMMA ExpiredAllKeeps == TimersInv /\ ExpiredAll => TimersInv'
<1>. SUFFICES ASSUME TimersInv, ExpiredAll PROVE TimersInv'
  OBVIOUS
<1>. DEFINE set == DoTimerSet(queue, had_tmr, alarm)
<1>1. /\ had_tmr' = set.had /\ alarm' = set.alarm
      /\ pc = "expire" /\ pc' = "timers" /\ now' = Zero
      /\ UNCHANGED <<queuevars, flagvars, pselect, clock, children, zombies,
                     modal, timeout>>
  BY DEF ExpiredAll
<1>2. /\ queue \in Seq(SetTimers) /\ had_tmr \in BOOLEAN
      /\ alarm \in Nat \cup {Off} /\ clock \in TimeVal
  BY DEF TimersInv, TimersTypeOK
<1>3. /\ set.had \in BOOLEAN /\ set.alarm \in Nat \cup {Off}
      /\ \/ queue = <<>> \/ set.had
         \/ set.alarm # Off /\ set.alarm <= Usecs(Head(queue).when)
  BY <1>2, DoTimerSetArms
<1>. HIDE DEF set
<1>4. TimersTypeOK'
  <2>1. Zero \in TimeVal
    BY TimeAssumption DEF Zero, TimeVal
  <2>. QED BY <1>1, <1>3, <2>1 DEF TimersInv, TimersTypeOK
<1>5. Counted' /\ NowPassed' /\ QueueSorted'
  BY <1>1 DEF TimersInv, Counted, NowPassed, QueueSorted
<1>6. Armed'
  BY <1>1, <1>3 DEF Armed
<1>7. OnTheWay' /\ TimersWake' /\ ZombiesNoticed' /\ SleepsUnsignalled'
  BY <1>1 DEF TimersInv, OnTheWay, TimersWake, ZombiesNoticed, SleepsUnsignalled
<1>. QED BY <1>4, <1>5, <1>6, <1>7 DEF TimersInv

(****************************** mainloop_select *****************************)

\* Without pselect(), a head that is due shows in had_tmr and one that is not
\* gives the timeout.
LEMMA PrepareSelectKeeps == TimersInv /\ PrepareSelect => TimersInv'
<1>. SUFFICES ASSUME TimersInv, PrepareSelect PROVE TimersInv'
  OBVIOUS
<1>. DEFINE tm == GetTimeout(queue, had_tmr)
<1>1. /\ tm.left \in Nat \cup {Off} /\ tm.had \in BOOLEAN
      /\ had_tmr => tm.had
      /\ queue # <<>> => tm.left # Off \/ tm.had
  <2>1. clock \in TimeVal /\ queue \in Seq(SetTimers) /\ had_tmr \in BOOLEAN
    BY DEF TimersInv, TimersTypeOK
  <2>2. CASE queue # <<>> /\ Later(Head(queue).when, clock)
    <3>1. Head(queue) \in SetTimers
      BY <2>1, <2>2
    <3>2. Head(queue).when \in TimeVal
      BY <3>1 DEF SetTimers
    <3>3. Usecs(Difference(Head(queue).when, clock)) \in Nat
      BY <2>1, <2>2, <3>2, DifferenceIs, LaterIsAfter, UsecsNatural
    <3>4. tm = [left |-> Usecs(Difference(Head(queue).when, clock)),
                had |-> had_tmr]
      BY <2>2 DEF GetTimeout
    <3>. QED BY <2>1, <3>3, <3>4 DEF Off
  <2>3. CASE queue = <<>>
    BY <2>1, <2>3 DEF GetTimeout
  <2>4. CASE queue # <<>> /\ ~Later(Head(queue).when, clock)
    BY <2>1, <2>4 DEF GetTimeout
  <2>. QED BY <2>2, <2>3, <2>4
<1>2. /\ pc = "select" /\ pc' = "blocked"
      /\ timeout' \in {Off, tm.left} /\ had_tmr' \in {had_tmr, tm.had}
      /\ ~pselect => timeout' = tm.left /\ had_tmr' = tm.had
      /\ UNCHANGED <<queuevars, flagvars, worldvars, modal, now>>
  BY DEF PrepareSelect
<1>. HIDE DEF tm
<1>3. TimersTypeOK'
  BY <1>1, <1>2 DEF TimersInv, TimersTypeOK
<1>4. Counted' /\ NowPassed' /\ QueueSorted'
  BY <1>2 DEF TimersInv, Counted, NowPassed, QueueSorted
<1>5. Armed'
  BY <1>1, <1>2 DEF TimersInv, Armed
<1>6. OnTheWay' /\ TimersWake' /\ ZombiesNoticed' /\ SleepsUnsignalled'
  BY <1>1, <1>2 DEF TimersInv, OnTheWay, TimersWake, ZombiesNoticed,
                    SleepsUnsignalled
<1>. QED BY <1>3, <1>4, <1>5, <1>6 DEF TimersInv

\* The flags after handlers of signals have run.
LEMMA DeliverTypes ==
    ASSUME NEW sigs, Deliver(sigs), TimersTypeOK
    PROVE  /\ had_tmr' \in BOOLEAN /\ usr2_sig' \in BOOLEAN
           /\ wait_sig' \in BOOLEAN /\ kill_sig' \in KillSigs \cup {"none"}
BY DEF Deliver, TimersTypeOK

LEMMA SkipSelectKeeps == TimersInv /\ SkipSelect => TimersInv'
<1>. SUFFICES ASSUME TimersInv, SkipSelect PROVE TimersInv'
  OBVIOUS
<1>1. TimersTypeOK'
  BY DeliverTypes DEF TimersInv, TimersTypeOK, SkipSelect
<1>2. Counted' /\ NowPassed' /\ QueueSorted'
  BY DEF TimersInv, Counted, NowPassed, QueueSorted, SkipSelect
<1>3. Armed'
  BY DEF TimersInv, Armed, SkipSelect, Deliver
<1>4. OnTheWay' /\ TimersWake' /\ ZombiesNoticed' /\ SleepsUnsignalled'
  BY DEF TimersInv, OnTheWay, TimersWake, ZombiesNoticed, SleepsUnsignalled,
         SkipSelect, Deliver
<1>. QED BY <1>1, <1>2, <1>3, <1>4 DEF TimersInv

\* The signals that were blocked keep the program awake; without any, what
\* was known before holds in the system call.
LEMMA SleepKeeps == TimersInv /\ Sleep => TimersInv'
<1>. SUFFICES ASSUME TimersInv, Sleep PROVE TimersInv'
  OBVIOUS
<1>1. /\ pc = "entering" /\ pc' \in {"asleep", "usr2"}
      /\ pc' = "asleep" => pending = {}
      /\ Deliver(pending) /\ pending' = {}
      /\ UNCHANGED <<queuevars, worldvars, modal, now>>
  BY DEF Sleep
<1>2. timeout' \in Nat \cup {Off} /\ (timeout # Off => timeout' # Off)
  <2>1. CASE timeout = Off
    BY <2>1 DEF Sleep
  <2>2. CASE timeout # Off
    <3>1. /\ Usecs(clock) + timeout \in Nat /\ MaxUsecs \in Nat
      BY <2>2, UsecsNatural, TimersAssumption DEF TimersInv, TimersTypeOK
    <3>2. \A a, b \in Nat : Min({a, b}) \in Nat
      <4>. SUFFICES ASSUME NEW a \in Nat, NEW b \in Nat
                    PROVE  Min({a, b}) \in Nat
        OBVIOUS
      <4>1. \E x \in {a, b} : \A y \in {a, b} : x <= y
        OBVIOUS
      <4>. QED BY <4>1 DEF Min
    <3>3. timeout' = Min({Usecs(clock) + timeout, MaxUsecs})
      BY <2>2 DEF Sleep
    <3>. QED BY <3>1, <3>2, <3>3 DEF Off
  <2>. QED BY <2>1, <2>2
<1>3. TimersTypeOK'
  BY <1>1, <1>2, DeliverTypes DEF TimersInv, TimersTypeOK
<1>4. Counted' /\ NowPassed' /\ QueueSorted'
  BY <1>1 DEF TimersInv, Counted, NowPassed, QueueSorted
<1>5. Armed'
  BY <1>1 DEF TimersInv, Armed, Deliver
<1>6. OnTheWay' /\ ZombiesNoticed'
  BY <1>1 DEF TimersInv, OnTheWay, ZombiesNoticed, Deliver
<1>7. SleepsUnsignalled'
  BY <1>1 DEF TimersInv, OnTheWay, SleepsUnsignalled, Deliver
<1>8. TimersWake'
  BY <1>1, <1>2 DEF TimersInv, TimersTypeOK, OnTheWay, Armed, TimersWake, Deliver
<1>. QED BY <1>3, <1>4, <1>5, <1>6, <1>7, <1>8 DEF TimersInv

(************************** Signals and the clock ***************************)

\* A signal takes nothing back: its handler sets a flag, at once or when the
\* signal is unblocked, and a program that sleeps is woken.
LEMMA RaiseKeeps ==
    ASSUME TimersInv, NEW s, Raise(s),
           UNCHANGED <<queuevars, localvars, pselect, clock>>,
           children' \in 0 .. MaxChildren, zombies' \in 0 .. MaxChildren,
           children' + zombies' <= MaxChildren,
           zombies' = zombies \/ s = "CHLD",
           \/ alarm' = alarm
           \/ alarm' = Off /\ s = "ALRM"
    PROVE  TimersInv'
<1>1. CASE Blocks(s)
  <2>1. /\ pending' = pending \cup {s} /\ s \in SpecialSigs
        /\ UNCHANGED <<had_tmr, usr2_sig, wait_sig, kill_sig, pc>>
        /\ pc \in {"blocked", "entering"}
    BY <1>1 DEF Raise, Blocks
  <2>2. TimersTypeOK'
    BY <2>1 DEF TimersInv, TimersTypeOK
  <2>3. Counted' /\ NowPassed' /\ QueueSorted'
    BY <2>1 DEF TimersInv, Counted, NowPassed, QueueSorted
  <2>4. Armed'
    BY <2>1 DEF TimersInv, Armed
  <2>5. OnTheWay' /\ TimersWake' /\ ZombiesNoticed' /\ SleepsUnsignalled'
    BY <2>1 DEF TimersInv, OnTheWay, TimersWake, ZombiesNoticed, SleepsUnsignalled
  <2>. QED BY <2>2, <2>3, <2>4, <2>5 DEF TimersInv
<1>2. CASE ~Blocks(s)
  <2>1. /\ Deliver({s}) /\ pending' = pending
        /\ pc' = IF pc = "asleep" THEN "usr2" ELSE pc
    BY <1>2 DEF Raise
  <2>2. TimersTypeOK'
    BY <2>1, DeliverTypes DEF TimersInv, TimersTypeOK, Off
  <2>3. Counted' /\ NowPassed' /\ QueueSorted'
    BY <2>1 DEF TimersInv, Counted, NowPassed, QueueSorted
  <2>4. Armed'
    BY <2>1 DEF TimersInv, Armed, Deliver
  <2>5. pc = "entering" /\ pselect => s \notin SpecialSigs
    BY <1>2 DEF Blocks
  <2>6. OnTheWay'
    BY <2>1, <2>5 DEF TimersInv, OnTheWay, Deliver, SpecialSigs
  <2>7. TimersWake' /\ ZombiesNoticed' /\ SleepsUnsignalled'
    BY <2>1 DEF TimersInv, TimersWake, ZombiesNoticed, SleepsUnsignalled, Deliver
  <2>. QED BY <2>2, <2>3, <2>4, <2>6, <2>7 DEF TimersInv
<1>. QED BY <1>1, <1>2

LEMMA SignalsKeep ==
    ASSUME TimersInv, \/ Usr2 \/ ChildDies \/ Alarm \/ \E s \in KillSigs : Kill(s)
    PROVE  TimersInv'
<1>0. /\ children \in 0 .. MaxChildren /\ zombies \in 0 .. MaxChildren
      /\ children + zombies <= MaxChildren /\ MaxChildren \in Nat
  BY TimersAssumption DEF TimersInv, TimersTypeOK, Counted
<1>1. CASE Usr2
  <2>1. /\ Raise("USR2") /\ UNCHANGED <<queuevars, worldvars, localvars>>
    BY <1>1 DEF Usr2
  <2>. QED BY <1>0, <2>1, RaiseKeeps
<1>2. CASE ChildDies
  <2>1. /\ children' = children - 1 /\ zombies' = zombies + 1
        /\ UNCHANGED <<queuevars, localvars, pselect, clock, alarm>>
        /\ children > 0 /\ Raise("CHLD")
    BY <1>2 DEF ChildDies
  <2>2. /\ children' \in 0 .. MaxChildren /\ zombies' \in 0 .. MaxChildren
        /\ children' + zombies' <= MaxChildren
    BY <1>0, <2>1
  <2>. QED BY <2>1, <2>2, RaiseKeeps
<1>3. CASE Alarm
  BY <1>0, <1>3, RaiseKeeps DEF Alarm
<1>4. CASE \E s \in KillSigs : Kill(s)
  <2>1. PICK s \in KillSigs : Kill(s)
    BY <1>4
  <2>2. /\ Raise(s) /\ UNCHANGED <<queuevars, worldvars, localvars>>
    BY <2>1 DEF Kill
  <2>. QED BY <1>0, <2>2, RaiseKeeps
<1>. QED BY <1>1, <1>2, <1>3, <1>4

LEMMA TickKeeps == TimersInv /\ Tick => TimersInv'
<1>. SUFFICES ASSUME TimersInv, Tick PROVE TimersInv'
  OBVIOUS
<1>1. /\ UNCHANGED <<queuevars, flagvars, localvars, had_tmr, pselect, alarm,
                     children, zombies, pc>>
      /\ clock' \in TimeVal /\ Usecs(clock') = Usecs(clock) + 1
  BY TickIs DEF TimersInv, Tick
<1>2. TimersTypeOK'
  BY <1>1 DEF TimersInv, TimersTypeOK
<1>3. NowPassed'
  <2>1. Usecs(now) \in Nat /\ Usecs(clock) \in Nat
    BY UsecsNatural DEF TimersInv, TimersTypeOK
  <2>. QED BY <1>1, <2>1 DEF TimersInv, NowPassed
<1>4. Counted' /\ QueueSorted' /\ Armed'
  BY <1>1 DEF TimersInv, Counted, QueueSorted, Armed
<1>5. OnTheWay' /\ TimersWake' /\ ZombiesNoticed' /\ SleepsUnsignalled'
  BY <1>1 DEF TimersInv, OnTheWay, TimersWake, ZombiesNoticed, SleepsUnsignalled
<1>. QED BY <1>2, <1>3, <1>4, <1>5 DEF TimersInv

LEMMA StutterKeeps == TimersInv /\ UNCHANGED timersVars => TimersInv'
<1>. SUFFICES ASSUME TimersInv, UNCHANGED timersVars PROVE TimersInv'
  OBVIOUS
<1>1. TimersTypeOK'
  BY DEF TimersInv, timersVars, TimersTypeOK
<1>2. Counted' /\ NowPassed' /\ QueueSorted' /\ Armed'
  BY DEF TimersInv, timersVars, Counted, NowPassed, QueueSorted, Armed
<1>3. OnTheWay' /\ TimersWake' /\ ZombiesNoticed' /\ SleepsUnsignalled'
  BY DEF TimersInv, timersVars, OnTheWay, TimersWake, ZombiesNoticed, SleepsUnsignalled
<1>. QED BY <1>1, <1>2, <1>3 DEF TimersInv

LEMMA StepKeeps == TimersInv /\ [TimersNext]_timersVars => TimersInv'
<1>. SUFFICES ASSUME TimersInv, [TimersNext]_timersVars PROVE TimersInv'
  OBVIOUS
<1>1. CASE Calls
  BY <1>1, CallsKeep
<1>2. CASE Steps
  BY <1>2, CheckUsr2Keeps, CheckChldKeeps, ReapKeeps, CheckKillKeeps,
     CheckTimersKeeps, ExpireKeeps, ExpiredAllKeeps, ReturnKeeps,
     FinishWorkKeeps, GotEventKeeps, WaitEventKeeps, PrepareSelectKeeps,
     SkipSelectKeeps, EnterSelectKeeps, SleepKeeps, TimedOutKeeps DEF Steps
<1>3. CASE GetEvent \/ Readable
  BY <1>3, GetEventKeeps, ReadableKeeps
<1>4. CASE Usr2 \/ ChildDies \/ Alarm \/ \E s \in KillSigs : Kill(s)
  BY <1>4, SignalsKeep
<1>5. CASE Tick
  BY <1>5, TickKeeps
<1>6. CASE UNCHANGED timersVars
  BY <1>6, StutterKeeps
<1>. QED BY <1>1, <1>2, <1>3, <1>4, <1>5, <1>6 DEF TimersNext

\* The queue, the alarm and the flags agree in every state (signal.c and
\* select.c): the invariant on which the others rest.
THEOREM TimersInvariance == TimersSpec => []TimersInv
<1>. QED BY TimersInitHolds, StepKeeps, PTL DEF TimersSpec

\* The main loop sleeps through no timer, no child and no blocked signal, and
\* the alarm stands for the earliest timer, with either way of waiting.
THEOREM SleepIsSafe == TimersSpec => []NothingSleptThrough
<1>1. TimersInv => NothingSleptThrough
  BY DEF TimersInv, NothingSleptThrough, QueueArmed
<1>. QED BY <1>1, TimersInvariance, PTL

(**************************** Timers fire on time ***************************)

\* What timer_set is asked for fits in a uint of microseconds: below 71
\* minutes for 32 bits (signal.c:281).
NoWrap == \A msecs \in Msecs : msecs * UsecsInMsec < UintMod

\* The time of a timer is the time that was asked for.
DueKept == \A i \in DOMAIN queue : queue[i].due = Usecs(queue[i].when)

LEMMA StepKeepsDue == NoWrap /\ TimersInv /\ DueKept /\ [TimersNext]_timersVars => DueKept'
<1>. SUFFICES ASSUME NoWrap, TimersInv, DueKept, [TimersNext]_timersVars PROVE DueKept'
  OBVIOUS
<1>0. queue \in Seq(SetTimers) /\ Sorted(queue) /\ clock \in TimeVal
  BY SortedQueue DEF TimersInv, TimersTypeOK
<1>1. CASE \E t \in WTimers, msecs \in Msecs : SetTimer(t, msecs)
  <2>. PICK t \in WTimers, msecs \in Msecs : SetTimer(t, msecs)
    BY <1>1
  <2>. DEFINE e == [timer |-> t, when |-> AddMsecs(clock, msecs),
                    due |-> Usecs(clock) + msecs * UsecsInMsec]
              w == Without(t)
              q == Enqueue(w, e)
  <2>1. queue' = q
    BY DEF SetTimer
  <2>2. /\ w \in Seq(SetTimers) /\ Sorted(w) /\ PartOf(w, queue)
        /\ \A i \in DOMAIN w : w[i].timer # t
    BY <1>0, WithoutSorted
  <2>3. /\ msecs * UsecsInMsec \in Nat /\ UintMod \in Nat \ {0}
        /\ msecs * UsecsInMsec < UintMod /\ msecs \in Nat
    BY TimersAssumption, TimeAssumption DEF NoWrap
  <2>4. (msecs * UsecsInMsec) % UintMod = msecs * UsecsInMsec
    <3>1. \A x \in Nat, m \in Nat \ {0} : x < m => x % m = x
      OBVIOUS
    <3>. QED BY <2>3, <3>1
  <2>5. Usecs(e.when) = e.due /\ e \in SetTimers /\ e.timer = t
    <3>1. Usecs(clock) \in Nat
      BY <1>0, UsecsNatural
    <3>2. /\ AddMsecs(clock, msecs) \in TimeVal
          /\ Usecs(AddMsecs(clock, msecs)) = Usecs(clock) + msecs * UsecsInMsec
      BY <1>0, <2>3, <2>4, AddMsecsIs
    <3>3. Usecs(clock) + msecs * UsecsInMsec \in Nat
      BY <2>3, <3>1
    <3>. QED BY <3>2, <3>3 DEF SetTimers
  <2>. HIDE DEF e, w
  <2>6. PartOfAnd(q, w, e)
    BY <2>2, <2>5, EnqueueSorted
  <2>. HIDE DEF q
  <2>. QED BY <2>1, <2>2, <2>5, <2>6 DEF DueKept, PartOf, PartOfAnd
<1>2. CASE \E t \in WTimers : ResetTimer(t) \/ DestroyTimer(t)
  <2>. PICK t \in WTimers : ResetTimer(t) \/ DestroyTimer(t)
    BY <1>2
  <2>1. queue' = Without(t)
    BY DEF ResetTimer, DestroyTimer
  <2>2. PartOf(queue', queue)
    BY <1>0, <2>1, WithoutSorted
  <2>. QED BY <2>2 DEF DueKept, PartOf
<1>3. CASE Expire
  <2>1. queue # <<>> /\ queue' = Tail(queue)
    BY <1>3 DEF Expire
  <2>2. \A i \in DOMAIN Tail(queue) : \E j \in DOMAIN queue : Tail(queue)[i] = queue[j]
    <3>. SUFFICES ASSUME NEW i \in DOMAIN Tail(queue)
                  PROVE  i + 1 \in DOMAIN queue /\ Tail(queue)[i] = queue[i + 1]
      OBVIOUS
    <3>. QED BY <1>0, <2>1
  <2>. QED BY <2>1, <2>2 DEF DueKept
<1>4. CASE queue' = queue
  BY <1>4 DEF DueKept
<1>5. \/ queue' = queue \/ Expire
      \/ \E t \in WTimers : ResetTimer(t) \/ DestroyTimer(t)
      \/ \E t \in WTimers, msecs \in Msecs : SetTimer(t, msecs)
  <2>1. CASE Calls
    BY <2>1 DEF Calls, CreateTimer
  <2>2. CASE Steps
    BY <2>2 DEF Steps, CheckUsr2, CheckChld, Reap, CheckKill, CheckTimers,
       ExpiredAll, Return, FinishWork, GotEvent, WaitEvent, PrepareSelect,
       SkipSelect, EnterSelect, Sleep, TimedOut
  <2>3. CASE \/ GetEvent \/ Readable \/ Usr2 \/ ChildDies \/ Alarm \/ Tick
             \/ \E s \in KillSigs : Kill(s)
    BY <2>3 DEF GetEvent, Readable, Usr2, ChildDies, Alarm, Tick, Kill
  <2>4. CASE UNCHANGED timersVars
    BY <2>4 DEF timersVars
  <2>. QED BY <2>1, <2>2, <2>3, <2>4 DEF TimersNext
<1>. QED BY <1>1, <1>2, <1>3, <1>4, <1>5

\* The handler of a timer is called after the time that was asked for and not
\* before (mainloop_check_signals), if no time asked for wraps.
THEOREM TimersPunctual == ASSUME NoWrap PROVE TimersSpec => FiresOnTime
<1>1. TimersInit => DueKept
  BY DEF TimersInit, DueKept
<1>2. TimersInv /\ DueKept /\ [TimersNext]_timersVars => DueKept'
  BY StepKeepsDue
<1>3. ASSUME TimersInv, DueKept, [TimersNext]_timersVars, Goes("expire", "callback")
      PROVE  Usecs(clock) > Head(queue).due
  <2>1. Expire
    BY <1>3 DEF TimersNext, Calls, CreateTimer, ResetTimer, DestroyTimer, SetTimer,
       Calling, Steps, CheckUsr2, CheckChld, Reap, CheckKill, CheckTimers,
       ExpiredAll, Return, FinishWork, GotEvent, WaitEvent, PrepareSelect,
       SkipSelect, EnterSelect, Sleep, TimedOut, GetEvent, Readable, Usr2,
       ChildDies, Alarm, Kill, Raise, Tick, CallerPlace, timersVars
  <2>2. /\ queue \in Seq(SetTimers) /\ queue # <<>> /\ Later(now, Head(queue).when)
        /\ now \in TimeVal /\ clock \in TimeVal /\ Usecs(now) <= Usecs(clock)
    BY <1>3, <2>1 DEF Expire, TimersInv, TimersTypeOK, NowPassed
  <2>3. Head(queue) \in SetTimers /\ 1 \in DOMAIN queue /\ Head(queue) = queue[1]
    BY <2>2
  <2>4. Head(queue).when \in TimeVal
    BY <2>3 DEF SetTimers
  <2>5. Usecs(now) > Usecs(Head(queue).when)
    BY <2>2, <2>4, LaterIsAfter
  <2>6. Head(queue).due = Usecs(Head(queue).when)
    BY <1>3, <2>3 DEF DueKept
  <2>. QED BY <2>2, <2>4, <2>5, <2>6, UsecsNatural
<1>4. TimersInv /\ DueKept /\ [TimersNext]_timersVars
        => [Goes("expire", "callback") => Usecs(clock) > Head(queue).due]_timersVars
  BY <1>3
<1>. QED BY <1>1, <1>2, <1>4, TimersInvariance, PTL DEF TimersSpec, FiresOnTime

-----------------------------------------------------------------------------
(* Deferred actions.                                                       *)


USE DEF Slots, ObjActions, NullActions, Actions, Entries, Entry, NoEntry,
        OnList

\* The part of the invariant that speaks of the list and the watches.
ListInv ==
    /\ watches \in [Objs -> Seq(Cells)]
    /\ deferred \in Seq(Cells)
    /\ entry \in [Cells -> Entries]
    /\ \A c \in OnList : entry[c].action \in Actions
    /\ used \subseteq Slots /\ heap \subseteq HeapCells
    /\ CellsAccounted /\ NoDuplicates /\ TargetsWatched /\ ListInOrder
    /\ \A o \in Objs : IsInjective(watches[o])

USE DEF ListInv

\* A cell alloc_defer returns is not on the list, and is accounted for.
LEMMA AllocFresh ==
    ASSUME ListInv, NEW c \in Allocatable, MarkAllocated(c)
    PROVE  /\ c \in Cells /\ c \notin OnList
           /\ used' \cup heap' = OnList \cup {c}
           /\ used' \subseteq Slots /\ used' \subseteq {0}
           /\ heap' \subseteq HeapCells
<1>1. CASE FreeSlots # {}
  <2>1. used = {} /\ 0 \in FreeSlots /\ \A i \in FreeSlots : i = 0
    BY <1>1 DEF FreeSlots, SlotIsFree
  <2>2. c = 0 /\ 0 \in Slots
    BY <1>1, <2>1 DEF Allocatable, FreeSlots
  <2>3. 0 \notin HeapCells
    BY <2>2, BufferAssumption
  <2>. QED BY <2>1, <2>2, <2>3, BufferAssumption
           DEF MarkAllocated, CellsAccounted, ListInOrder
<1>2. CASE FreeSlots = {}
  <2>1. c \in HeapCells \ heap
    BY <1>2 DEF Allocatable
  <2>2. c \notin Slots /\ c \in Cells
    BY <2>1, BufferAssumption
  <2>. QED BY <2>1, <2>2 DEF MarkAllocated, CellsAccounted, ListInOrder
<1>. QED BY <1>1, <1>2

\* free_defer of a cell of the list gives back that cell and no other.
LEMMA FreeExact ==
    ASSUME ListInv, NEW d \in OnList, FreeDefer(d)
    PROVE  /\ used' \cup heap' = OnList \ {d}
           /\ used' \subseteq Slots /\ used' \subseteq {0}
           /\ heap' \subseteq HeapCells
<1>1. d \in used \cup heap
  BY DEF CellsAccounted
<1>2. CASE d \in Slots
  <2>1. d = 0 /\ d \notin HeapCells
    BY <1>1, <1>2, BufferAssumption DEF ListInOrder
  <2>2. 0 \div SizeofDeferred = 0
    BY BufferAssumption
  <2>3. ClearedBits(d) = {0}
    BY <2>1, <2>2 DEF ClearedBits
  <2>. QED BY <1>2, <2>1, <2>3 DEF FreeDefer, CellsAccounted, ListInOrder
<1>3. CASE d \notin Slots
  BY <1>1, <1>3 DEF FreeDefer, CellsAccounted, ListInOrder
<1>. QED BY <1>2, <1>3

\* Linking an entry that is not pending, for a live object or for none.
LEMMA LinkKeeps ==
    ASSUME ListInv, NEW o \in Objs \cup {Nobody}, NEW a \in Actions,
           o \in Objs => state[o] = "live" /\ a \in ObjActions,
           o = Nobody => a \in NullActions,
           a # "extl" => ~AlreadyDeferred(Entry(o, a)),
           Link(Entry(o, a)), UNCHANGED state
    PROVE  /\ ListInv'
           /\ OnList \subseteq OnList'
           /\ \A c \in OnList : entry'[c] = entry[c]
           /\ \E c \in OnList' : entry'[c] = Entry(o, a)
           /\ \A c \in OnList' \ OnList : entry'[c] = Entry(o, a)
           /\ \A p \in Objs : watches'[p] # watches[p] => p = o
<1>. DEFINE e == Entry(o, a)
<1>1. PICK c \in Allocatable :
        /\ MarkAllocated(c)
        /\ deferred' = Append(deferred, c)
        /\ IF e.obj \in Objs /\ WatchAccepted(e.obj)
           THEN /\ entry' = [entry EXCEPT ![c] = e]
                /\ watches' = WatchSetup(e.obj, c)
           ELSE /\ entry' = [entry EXCEPT ![c] = Entry(Nobody, e.action)]
                /\ UNCHANGED watches
  BY DEF Link
<1>2. /\ c \in Cells /\ c \notin OnList
      /\ used' \cup heap' = OnList \cup {c}
      /\ used' \subseteq Slots /\ used' \subseteq {0}
      /\ heap' \subseteq HeapCells
  BY <1>1, AllocFresh
<1>3. /\ deferred' \in Seq(Cells)
      /\ OnList' = OnList \cup {c}
      /\ IsInjective(deferred')
  BY <1>1, <1>2, AppendElements DEF CellsAccounted
<1>4. entry' = [entry EXCEPT ![c] = e] /\ e \in Entries
  BY <1>1 DEF WatchAccepted
<1>5. /\ entry' \in [Cells -> Entries]
      /\ entry'[c] = e
      /\ \A d \in OnList : entry'[d] = entry[d]
  BY <1>2, <1>4
<1>6. \A d \in OnList : d \in Cells
  BY <1>2, BufferAssumption DEF CellsAccounted
<1>7. /\ watches' \in [Objs -> Seq(Cells)]
      /\ \A p \in Objs : IsInjective(watches'[p])
      /\ \A p \in Objs : ToSet(watches'[p]) =
            IF p = o THEN ToSet(watches[p]) \cup {c} ELSE ToSet(watches[p])
      /\ \A p \in Objs : watches'[p] # watches[p] => p = o
  <2>1. CASE o \in Objs
    <3>1. c \notin ToSet(watches[o])
      BY <1>2, <2>1 DEF TargetsWatched
    <3>2. watches' = [watches EXCEPT ![o] = Append(watches[o], c)]
      BY <1>1, <2>1 DEF WatchAccepted, WatchSetup
    <3>3. /\ Append(watches[o], c) \in Seq(Cells)
          /\ ToSet(Append(watches[o], c)) = ToSet(watches[o]) \cup {c}
          /\ IsInjective(Append(watches[o], c))
      BY <1>2, <2>1, <3>1, AppendElements
    <3>. QED BY <2>1, <3>2, <3>3
  <2>2. CASE o = Nobody
    BY <1>1, <2>2, BufferAssumption
  <2>. QED BY <2>1, <2>2
<1>8. CellsAccounted'
  BY <1>2, <1>3 DEF CellsAccounted
<1>9. NoDuplicates'
  <2>1. a # "extl" => \A d \in OnList : entry[d] # e
    BY DEF AlreadyDeferred
  <2>. QED BY <1>3, <1>5, <2>1 DEF NoDuplicates
<1>10. TargetsWatched'
  <2>1. ASSUME NEW d \in OnList', entry'[d].action \in ObjActions
        PROVE  /\ entry'[d].obj \in Objs
               /\ state'[entry'[d].obj] # "freed"
               /\ d \in ToSet(watches'[entry'[d].obj])
    <3>1. CASE d = c
      <4>1. o \in Objs /\ state[o] = "live" /\ e.obj = o
        BY <1>5, <2>1, <3>1
      <4>2. c \in ToSet(watches'[o])
        BY <1>7, <4>1
      <4>. QED BY <1>5, <3>1, <4>1, <4>2
    <3>2. CASE d \in OnList
      <4>1. /\ entry'[d] = entry[d]
            /\ entry[d].obj \in Objs
            /\ state[entry[d].obj] # "freed"
            /\ d \in ToSet(watches[entry[d].obj])
        BY <1>5, <2>1, <3>2 DEF TargetsWatched
      <4>. QED BY <1>7, <4>1
    <3>. QED BY <1>3, <3>1, <3>2
  <2>2. ASSUME NEW p \in Objs, NEW d \in ToSet(watches'[p])
        PROVE  d \in OnList' /\ entry'[d].obj = p
    <3>1. CASE d \in ToSet(watches[p])
      BY <1>3, <1>5, <3>1 DEF TargetsWatched
    <3>2. CASE d = c /\ p = o
      BY <1>3, <1>5, <3>2
    <3>. QED BY <1>7, <3>1, <3>2
  <2>. QED BY <2>1, <2>2 DEF TargetsWatched
<1>11. ListInOrder'
  BY <1>2, <1>3, <1>5, BufferAssumption DEF ListInOrder
<1>12. \A d \in OnList' : entry'[d].action \in Actions
  BY <1>3, <1>5
<1>. QED BY <1>2, <1>3, <1>5, <1>7, <1>8, <1>9, <1>10, <1>11, <1>12

\* Taking a deferral off the list and its watch off its object.
LEMMA UnlinkKeeps ==
    ASSUME ListInv, NEW d \in OnList, FreeDefer(d),
           deferred' \in Seq(Cells), OnList' = OnList \ {d},
           IsInjective(deferred'),
           entry' = [entry EXCEPT ![d].obj = Nobody],
           watches' = IF entry[d].obj \in Objs
                      THEN WatchReset(entry[d].obj, d) ELSE watches,
           state' \in [Objs -> {"live", "dest", "freed"}],
           \A o \in Objs : state'[o] = "freed" => state[o] = "freed"
    PROVE  /\ ListInv'
           /\ \A c \in OnList' : entry'[c] = entry[c]
           /\ \A p \in Objs : watches[p] = <<>> => watches'[p] = <<>>
<1>1. /\ used' \cup heap' = OnList \ {d}
      /\ used' \subseteq Slots /\ used' \subseteq {0}
      /\ heap' \subseteq HeapCells
  BY FreeExact
<1>2. d \in Cells /\ \A c \in OnList : c \in Cells
  BY BufferAssumption DEF CellsAccounted
<1>3. /\ entry' \in [Cells -> Entries]
      /\ \A c \in OnList' : entry'[c] = entry[c]
  BY <1>2
<1>4. /\ watches' \in [Objs -> Seq(Cells)]
      /\ \A p \in Objs : IsInjective(watches'[p])
      /\ \A p \in Objs : ToSet(watches'[p]) = ToSet(watches[p]) \ {d}
      /\ \A p \in Objs : watches[p] = <<>> => watches'[p] = <<>>
  <2>1. ASSUME NEW p \in Objs, p # entry[d].obj PROVE d \notin ToSet(watches[p])
    BY <2>1 DEF TargetsWatched
  <2>2. CASE entry[d].obj \in Objs
    <3>. DEFINE o == entry[d].obj
    <3>1. d \in ToSet(watches[o])
      <4>1. entry[d].action \in ObjActions
        BY <2>2, BufferAssumption DEF ListInOrder
      <4>. QED BY <4>1 DEF TargetsWatched
    <3>2. watches[o] # <<>>
      BY <2>2, <3>1 DEF ToSet
    <3>3. /\ Unlink(watches[o], d) \in Seq(Cells)
          /\ ToSet(Unlink(watches[o], d)) = ToSet(watches[o]) \ {d}
          /\ IsInjective(Unlink(watches[o], d))
      BY <2>2, <3>1, UnlinkElements
    <3>4. watches' = [watches EXCEPT ![o] = Unlink(watches[o], d)]
      BY <2>2 DEF WatchReset
    <3>5. watches'[o] = Unlink(watches[o], d)
      BY <2>2, <3>4
    <3>6. ASSUME NEW p \in Objs, p # o PROVE watches'[p] = watches[p]
      BY <3>4, <3>6
    <3>7. watches' \in [Objs -> Seq(Cells)]
      BY <2>2, <3>3, <3>4
    <3>8. ASSUME NEW p \in Objs
          PROVE  /\ IsInjective(watches'[p])
                 /\ ToSet(watches'[p]) = ToSet(watches[p]) \ {d}
                 /\ watches[p] = <<>> => watches'[p] = <<>>
      <4>1. CASE p = o
        BY <3>2, <3>3, <3>5, <4>1
      <4>2. CASE p # o
        BY <2>1, <3>6, <4>2
      <4>. QED BY <4>1, <4>2
    <3>. QED BY <3>7, <3>8
  <2>3. CASE entry[d].obj \notin Objs
    BY <2>1, <2>3
  <2>. QED BY <2>2, <2>3
<1>5. CellsAccounted'
  BY <1>1 DEF CellsAccounted
<1>6. NoDuplicates'
  BY <1>3 DEF NoDuplicates
<1>7. TargetsWatched'
  <2>1. ASSUME NEW c \in OnList', entry'[c].action \in ObjActions
        PROVE  /\ entry'[c].obj \in Objs
               /\ state'[entry'[c].obj] # "freed"
               /\ c \in ToSet(watches'[entry'[c].obj])
    <3>1. c \in OnList /\ c # d /\ entry'[c] = entry[c]
      BY <1>3
    <3>2. /\ entry[c].obj \in Objs
          /\ state[entry[c].obj] # "freed"
          /\ c \in ToSet(watches[entry[c].obj])
      BY <2>1, <3>1 DEF TargetsWatched
    <3>. QED BY <1>4, <3>1, <3>2
  <2>2. ASSUME NEW p \in Objs, NEW c \in ToSet(watches'[p])
        PROVE  c \in OnList' /\ entry'[c].obj = p
    BY <1>3, <1>4, <2>2 DEF TargetsWatched
  <2>. QED BY <2>1, <2>2 DEF TargetsWatched
<1>8. ListInOrder'
  BY <1>1, <1>3 DEF ListInOrder
<1>9. \A c \in OnList' : entry'[c].action \in Actions
  BY <1>3
<1>. QED BY <1>1, <1>3, <1>4, <1>5, <1>6, <1>7, <1>8, <1>9

-----------------------------------------------------------------------------
(* What a deferral does, whether or not a cell is linked. *)

LEMMA DeferKeeps ==
    ASSUME IInv, NEW o \in Objs \cup {Nobody}, NEW a \in Actions,
           o \in Objs => state[o] = "live" /\ a \in ObjActions,
           o = Nobody => a \in NullActions,
           DeferEffect(Entry(o, a)) \/ (a = "extl" /\ Link(Entry(o, a))),
           UNCHANGED <<state, stack>>
    PROVE  /\ ListInv'
           /\ StackMatchesState' /\ WatchesInOrder'
           /\ \A p \in Objs, b \in ObjActions :
                 <<p, b>> # <<o, a>> => (Pending(p, b)' <=> Pending(p, b))
           /\ o \in Objs /\ a # "extl" =>
                 (Pending(o, a)' <=> DeferResult(Entry(o, a)))
<1>. DEFINE e == Entry(o, a)
<1>1. ListInv
  BY DEF IInv, TypeOK, WatchesInOrder
<1>2. StackMatchesState'
  BY DEF IInv, StackMatchesState
<1>3. CASE UNCHANGED <<listvars, watches>> /\ (a # "extl" \/ AlreadyDeferred(e) \/ Allocatable = {})
           /\ (AlreadyDeferred(e) \/ Allocatable = {})
  <2>1. ListInv'
    BY <1>1, <1>3 DEF listvars, CellsAccounted, NoDuplicates, TargetsWatched,
       ListInOrder
  <2>2. WatchesInOrder'
    BY <1>3 DEF IInv, WatchesInOrder
  <2>3. \A p, b : Pending(p, b)' <=> Pending(p, b)
    BY <1>3 DEF listvars, Pending, AlreadyDeferred
  <2>4. DeferResult(e) <=> AlreadyDeferred(e)
    BY <1>3 DEF DeferResult
  <2>. QED BY <1>2, <2>1, <2>2, <2>3, <2>4 DEF Pending
<1>4. CASE Link(e) /\ Allocatable # {} /\ (a # "extl" => ~AlreadyDeferred(e))
  <2>1. /\ ListInv'
        /\ OnList \subseteq OnList'
        /\ \A c \in OnList : entry'[c] = entry[c]
        /\ \E c \in OnList' : entry'[c] = e
        /\ \A c \in OnList' \ OnList : entry'[c] = e
        /\ \A p \in Objs : watches'[p] # watches[p] => p = o
    BY <1>1, <1>4, LinkKeeps
  <2>2. WatchesInOrder'
    <3>1. ASSUME NEW p \in Objs, state'[p] = "freed" PROVE watches'[p] = <<>>
      BY <2>1, <3>1 DEF IInv, WatchesInOrder
    <3>2. ASSUME NEW i \in DOMAIN stack, stack[i].phase = "deinit"
          PROVE  watches'[stack[i].obj] = <<>>
      <4>1. stack[i].obj \in Objs /\ state[stack[i].obj] = "dest"
        <5>0. stack \in Seq(Frames)
          BY DEF IInv, TypeOK
        <5>1. stack[i] \in Frames
          BY <5>0
        <5>. QED BY <5>1 DEF IInv, StackMatchesState, Frames
      <4>. QED BY <2>1, <3>2, <4>1 DEF IInv, WatchesInOrder
    <3>. QED BY <2>1, <3>1, <3>2 DEF WatchesInOrder
  <2>3. ASSUME NEW p \in Objs, NEW b \in ObjActions
        PROVE  Pending(p, b)' <=> Pending(p, b) \/ Entry(p, b) = e
    BY <2>1 DEF Pending, AlreadyDeferred
  <2>4. DeferResult(e)
    BY <1>4 DEF DeferResult
  <2>5. ASSUME NEW p \in Objs, NEW b \in ObjActions
        PROVE  Entry(p, b) = e <=> <<p, b>> = <<o, a>>
    OBVIOUS
  <2>6. o \in Objs => a \in ObjActions
    OBVIOUS
  <2>. QED BY <1>2, <2>1, <2>2, <2>3, <2>4, <2>5, <2>6
<1>5. Link(e) => Allocatable # {}
  BY DEF Link
<1>. QED BY <1>3, <1>4, <1>5 DEF DeferEffect

-----------------------------------------------------------------------------
(* destroy_obj: what its steps do to the objects and the stack.            *)

LEMMA StartDestroyKeeps ==
    ASSUME IInv, NEW o \in Objs, StartDestroy(o)
    PROVE  /\ state' \in [Objs -> {"live", "dest", "freed"}]
           /\ stack' \in Seq(Frames)
           /\ StackMatchesState'
           /\ \A p \in Objs : state'[p] = "freed" <=> state[p] = "freed"
           /\ \A p \in Objs : state'[p] = "live" => state[p] = "live"
           /\ \A i \in DOMAIN stack' : stack'[i].phase = "deinit" =>
                 i \in DOMAIN stack /\ stack'[i] = stack[i]
<1>1. state \in [Objs -> {"live", "dest", "freed"}] /\ stack \in Seq(Frames)
  BY DEF IInv, TypeOK
<1>2. StackMatchesState
  BY DEF IInv
<1>3. CASE state[o] # "live"
  BY <1>1, <1>2, <1>3 DEF StartDestroy, StackMatchesState
<1>4. CASE state[o] = "live"
  <2>. DEFINE f == [obj |-> o, phase |-> "watches"]
  <2>1. state' = [state EXCEPT ![o] = "dest"] /\ stack' = Append(stack, f)
    BY <1>4 DEF StartDestroy
  <2>2. f \in Frames
    BY DEF Frames
  <2>3. /\ stack' \in Seq(Frames) /\ DOMAIN stack = 1 .. Len(stack)
        /\ DOMAIN stack' = 1 .. Len(stack) + 1
        /\ \A i \in DOMAIN stack : i \in DOMAIN stack' /\ stack'[i] = stack[i]
        /\ stack'[Len(stack) + 1] = f
        /\ \A i \in DOMAIN stack' : i \in DOMAIN stack \/ i = Len(stack) + 1
        /\ Len(stack) + 1 \in DOMAIN stack'
    BY <1>1, <2>1, <2>2
  <2>4. \A i \in DOMAIN stack : stack[i].obj # o
    BY <1>2, <1>4 DEF StackMatchesState
  <2>5. StackMatchesState'
    <3>1. ASSUME NEW p \in Objs
          PROVE  state'[p] = "dest" <=> \E i \in DOMAIN stack' : stack'[i].obj = p
      <4>1. CASE p = o
        BY <1>1, <2>1, <2>3, <4>1
      <4>2. CASE p # o
        <5>1. state'[p] = state[p]
          BY <1>1, <2>1, <4>2
        <5>2. (\E i \in DOMAIN stack' : stack'[i].obj = p) <=>
              (\E i \in DOMAIN stack : stack[i].obj = p)
          BY <2>3, <4>2
        <5>. QED BY <1>2, <5>1, <5>2 DEF StackMatchesState
      <4>. QED BY <4>1, <4>2
    <3>2. ASSUME NEW i \in DOMAIN stack', NEW j \in DOMAIN stack',
                 stack'[i].obj = stack'[j].obj
          PROVE  i = j
      BY <1>2, <2>3, <2>4, <3>2 DEF StackMatchesState
    <3>. QED BY <3>1, <3>2 DEF StackMatchesState
  <2>. QED BY <1>1, <1>4, <2>1, <2>3, <2>5
<1>. QED BY <1>3, <1>4

LEMMA EndWatchesKeeps ==
    ASSUME IInv, NEW o \in Objs, EndWatches(o), UNCHANGED <<state, watches>>
    PROVE  /\ stack' \in Seq(Frames)
           /\ StackMatchesState'
           /\ WatchesInOrder'
<1>1. stack \in Seq(Frames) /\ stack # <<>> /\ Last(stack).obj = o
  BY DEF IInv, TypeOK, EndWatches, RunsWatches, Innermost
<1>2. Len(stack) \in DOMAIN stack
  BY <1>1
<1>3. stack' = [stack EXCEPT ![Len(stack)].phase = "deinit"]
  BY DEF EndWatches
<1>4. /\ stack' \in Seq(Frames) /\ DOMAIN stack' = DOMAIN stack
      /\ \A i \in DOMAIN stack : stack'[i].obj = stack[i].obj
      /\ \A i \in DOMAIN stack : i # Len(stack) => stack'[i] = stack[i]
  <2>1. stack[Len(stack)] \in Frames
    BY <1>1, <1>2
  <2>. DEFINE f == [stack[Len(stack)] EXCEPT !.phase = "deinit"]
  <2>2. f \in Frames /\ f.obj = stack[Len(stack)].obj
    BY <2>1 DEF Frames
  <2>3. stack' = [stack EXCEPT ![Len(stack)] = f]
    BY <1>3
  <2>. HIDE DEF f
  <2>4. /\ DOMAIN stack' = DOMAIN stack /\ stack'[Len(stack)] = f
        /\ \A i \in DOMAIN stack : i # Len(stack) => stack'[i] = stack[i]
    BY <1>1, <1>2, <2>3
  <2>5. stack' \in Seq(Frames)
    BY <1>1, <1>2, <2>2, <2>3
  <2>. QED BY <2>2, <2>4, <2>5
<1>5. StackMatchesState'
  BY <1>4 DEF IInv, StackMatchesState
<1>6. WatchesInOrder'
  <2>1. ASSUME NEW i \in DOMAIN stack, stack'[i].phase = "deinit"
        PROVE  watches[stack[i].obj] = <<>>
    <3>1. CASE i = Len(stack)
      BY <1>1, <3>1 DEF EndWatches, Last
    <3>2. CASE i # Len(stack)
      BY <1>4, <2>1, <3>2 DEF IInv, WatchesInOrder
    <3>. QED BY <3>1, <3>2
  <2>. QED BY <1>4, <2>1 DEF IInv, WatchesInOrder
<1>. QED BY <1>4, <1>5, <1>6

LEMMA EndDestroyKeeps ==
    ASSUME IInv, NEW o \in Objs, EndDestroy(o)
    PROVE  /\ watches[o] = <<>> /\ UNCHANGED watches
           /\ state[o] = "dest"
           /\ state' \in [Objs -> {"live", "dest", "freed"}]
           /\ stack' \in Seq(Frames)
           /\ StackMatchesState' /\ WatchesInOrder'
<1>1. /\ stack \in Seq(Frames) /\ stack # <<>>
      /\ Last(stack) = [obj |-> o, phase |-> "deinit"]
      /\ stack' = Front(stack)
      /\ state' = [state EXCEPT ![o] = "freed"]
      /\ watches' = [watches EXCEPT ![o] = <<>>]
      /\ state \in [Objs -> {"live", "dest", "freed"}]
      /\ watches \in [Objs -> Seq(Cells)]
  BY DEF IInv, TypeOK, EndDestroy, Innermost
<1>2. Len(stack) \in DOMAIN stack /\ DOMAIN stack = 1 .. Len(stack)
      /\ Len(stack) \in Nat \ {0}
  BY <1>1
<1>3. stack[Len(stack)].obj = o /\ stack[Len(stack)].phase = "deinit"
  BY <1>1 DEF Last
<1>4. watches[o] = <<>> /\ UNCHANGED watches
  <2>1. watches[o] = <<>>
    BY <1>2, <1>3 DEF IInv, WatchesInOrder
  <2>. QED BY <1>1, <2>1
<1>5. state[o] = "dest"
  BY <1>2, <1>3 DEF IInv, StackMatchesState
<1>6. /\ stack' \in Seq(Frames)
      /\ DOMAIN stack' = 1 .. Len(stack) - 1
      /\ \A i \in DOMAIN stack' : i \in DOMAIN stack /\ stack'[i] = stack[i]
      /\ \A i \in DOMAIN stack : i \in DOMAIN stack' \/ i = Len(stack)
      /\ Len(stack) \notin DOMAIN stack'
  <2>1. stack' = SubSeq(stack, 1, Len(stack) - 1)
    BY <1>1 DEF Front
  <2>2. stack' \in Seq(Frames) /\ Len(stack') = Len(stack) - 1
    BY <1>1, <1>2, <2>1
  <2>3. DOMAIN stack' = 1 .. Len(stack) - 1
    BY <2>2
  <2>4. \A i \in 1 .. Len(stack) - 1 : stack'[i] = stack[i]
    BY <1>1, <1>2, <2>1
  <2>. QED BY <1>2, <2>2, <2>3, <2>4
<1>7. StackMatchesState'
  <2>1. ASSUME NEW p \in Objs
        PROVE  state'[p] = "dest" <=> \E i \in DOMAIN stack' : stack'[i].obj = p
    <3>1. CASE p = o
      <4>1. \A i \in DOMAIN stack' : stack'[i].obj # o
        BY <1>2, <1>3, <1>6 DEF IInv, StackMatchesState
      <4>. QED BY <1>1, <3>1, <4>1
    <3>2. CASE p # o
      <4>1. state'[p] = state[p]
        BY <1>1, <3>2
      <4>2. (\E i \in DOMAIN stack' : stack'[i].obj = p) <=>
            (\E i \in DOMAIN stack : stack[i].obj = p)
        BY <1>3, <1>6, <3>2
      <4>. QED BY <4>1, <4>2 DEF IInv, StackMatchesState
    <3>. QED BY <3>1, <3>2
  <2>2. ASSUME NEW i \in DOMAIN stack', NEW j \in DOMAIN stack',
               stack'[i].obj = stack'[j].obj
        PROVE  i = j
    BY <1>6, <2>2 DEF IInv, StackMatchesState
  <2>. QED BY <2>1, <2>2 DEF StackMatchesState
<1>8. WatchesInOrder'
  <2>1. ASSUME NEW p \in Objs
        PROVE  IsInjective(watches'[p]) /\ (state'[p] = "freed" => watches'[p] = <<>>)
    BY <1>1, <1>4 DEF IInv, WatchesInOrder
  <2>2. ASSUME NEW i \in DOMAIN stack', stack'[i].phase = "deinit"
        PROVE  watches'[stack'[i].obj] = <<>>
    BY <1>4, <1>6, <2>2 DEF IInv, WatchesInOrder
  <2>. QED BY <2>1, <2>2 DEF WatchesInOrder
<1>. QED BY <1>1, <1>4, <1>5, <1>6, <1>7, <1>8

-----------------------------------------------------------------------------
(* The invariant.                                                          *)

LEMMA InitHolds == Init => IInv
<1>. SUFFICES ASSUME Init PROVE IInv
  OBVIOUS
<1>1. /\ \A o \in Objs : watches[o] = <<>> /\ state[o] = "freed"
      /\ ToSet(<<>>) = {} /\ IsInjective(<<>>)
  BY DEF Init, ObjInit, ToSet, IsInjective
<1>. QED BY <1>1 DEF Init, ObjInit, IInv, TypeOK, CellsAccounted, NoDuplicates,
         TargetsWatched, NeverRunOnNobody, FlagMeansPending, StackMatchesState,
         WatchesInOrder, ListInOrder

\* What is left of IInv when the parts the lemmas above speak of are known.
LEMMA Assemble ==
    ASSUME ListInv', StackMatchesState', WatchesInOrder', FlagMeansPending',
           NeverRunOnNobody',
           state' \in [Objs -> {"live", "dest", "freed"}],
           stack' \in Seq(Frames), scheduled' \subseteq Objs,
           current' \in Entries, loop' \in {"handlers", "execute"},
           opmode' \in {"normal", "deinit"}
    PROVE  IInv'
<1>. HIDE DEF Entries, Actions, OnList
<1>. QED BY DEF IInv, TypeOK

\* The calls that defer.
LEMMA DeferralStep ==
    ASSUME IInv, NEW o \in Objs,
           DeferDestroy(o) \/ DeferAction(o) \/ UpdateOwnedGrabs(o)
    PROVE  IInv'
<1>1. PICK a \in ObjActions :
        /\ state[o] = "live" /\ DeferEffect(Entry(o, a))
        /\ UNCHANGED <<state, stack, current, loop, opmode>>
        /\ scheduled' = IF a = "update_owned_grabs" /\ DeferResult(Entry(o, a))
                        THEN scheduled \cup {o} ELSE scheduled
        /\ a = "update_owned_grabs" => o \notin scheduled
  BY DEF DeferDestroy, DeferAction, UpdateOwnedGrabs
<1>2. /\ ListInv' /\ StackMatchesState' /\ WatchesInOrder'
      /\ \A p \in Objs, b \in ObjActions :
            <<p, b>> # <<o, a>> => (Pending(p, b)' <=> Pending(p, b))
      /\ Pending(o, a)' <=> DeferResult(Entry(o, a))
  <2>1. a \in Actions /\ a # "extl" /\ o \in Objs \cup {Nobody}
    OBVIOUS
  <2>2. o # Nobody
    BY BufferAssumption
  <2>. HIDE DEF ListInv, Entry, OnList, Actions
  <2>. QED BY <1>1, <2>1, <2>2, DeferKeeps
<1>3. FlagMeansPending'
  <2>. SUFFICES ASSUME NEW p \in Objs, state[p] = "live"
                PROVE  p \in scheduled' <=> Pending(p, "update_owned_grabs")'
    BY <1>1 DEF FlagMeansPending
  <2>1. p \in scheduled <=> Pending(p, "update_owned_grabs")
    BY DEF IInv, FlagMeansPending
  <2>2. CASE p = o /\ a = "update_owned_grabs"
    BY <1>1, <1>2, <2>1, <2>2
  <2>3. CASE ~(p = o /\ a = "update_owned_grabs")
    <3>1. <<p, "update_owned_grabs">> # <<o, a>>
      BY <2>3
    <3>. QED BY <1>1, <1>2, <2>1, <2>3, <3>1
  <2>. QED BY <2>2, <2>3
<1>4. NeverRunOnNobody'
  BY <1>1 DEF IInv, NeverRunOnNobody
<1>5. /\ state' \in [Objs -> {"live", "dest", "freed"}]
      /\ stack' \in Seq(Frames) /\ scheduled' \subseteq Objs
      /\ current' \in Entries /\ loop' \in {"handlers", "execute"}
      /\ opmode' \in {"normal", "deinit"}
  BY <1>1 DEF IInv, TypeOK
<1>. HIDE DEF ListInv, Entries
<1>. QED BY <1>2, <1>3, <1>4, <1>5, Assemble

LEMMA NullDeferralStep ==
    ASSUME IInv, DeferNull \/ DeferExtl
    PROVE  IInv'
<1>1. PICK a \in NullActions :
        /\ DeferEffect(Entry(Nobody, a)) \/ (a = "extl" /\ Link(Entry(Nobody, a)))
        /\ UNCHANGED <<state, stack, scheduled, current, loop, opmode>>
  BY DEF DeferNull, DeferExtl
<1>2. /\ ListInv' /\ StackMatchesState' /\ WatchesInOrder'
      /\ \A p \in Objs, b \in ObjActions :
            <<p, b>> # <<Nobody, a>> => (Pending(p, b)' <=> Pending(p, b))
  <2>1. a \in Actions /\ Nobody \in Objs \cup {Nobody} /\ Nobody \notin Objs
    BY BufferAssumption
  <2>. HIDE DEF ListInv, Entry, OnList, Actions
  <2>. QED BY <1>1, <2>1, DeferKeeps
<1>3. FlagMeansPending'
  <2>. SUFFICES ASSUME NEW p \in Objs, state[p] = "live"
                PROVE  p \in scheduled' <=> Pending(p, "update_owned_grabs")'
    BY <1>1 DEF FlagMeansPending
  <2>1. p \in scheduled <=> Pending(p, "update_owned_grabs")
    BY DEF IInv, FlagMeansPending
  <2>2. <<p, "update_owned_grabs">> # <<Nobody, a>>
    BY BufferAssumption
  <2>. QED BY <1>1, <1>2, <2>1, <2>2
<1>4. NeverRunOnNobody'
  BY <1>1 DEF IInv, NeverRunOnNobody
<1>5. /\ state' \in [Objs -> {"live", "dest", "freed"}]
      /\ stack' \in Seq(Frames) /\ scheduled' \subseteq Objs
      /\ current' \in Entries /\ loop' \in {"handlers", "execute"}
      /\ opmode' \in {"normal", "deinit"}
  BY <1>1 DEF IInv, TypeOK
<1>. HIDE DEF ListInv, Entries
<1>. QED BY <1>2, <1>3, <1>4, <1>5, Assemble

\* The steps that take a deferral off the list: of its object, or the first.
LEMMA RemovalKeepsFlag ==
    ASSUME IInv, NEW d \in OnList, OnList' = OnList \ {d},
           \A c \in OnList' : entry'[c] = entry[c],
           NEW p \in Objs, p # entry[d].obj \/ entry[d].action # "update_owned_grabs"
    PROVE  Pending(p, "update_owned_grabs")' <=> Pending(p, "update_owned_grabs")
<1>1. entry[d] # Entry(p, "update_owned_grabs")
  OBVIOUS
<1>. QED BY <1>1 DEF Pending, AlreadyDeferred

LEMMA RemovalEndsPending ==
    ASSUME IInv, NEW d \in OnList, OnList' = OnList \ {d},
           \A c \in OnList' : entry'[c] = entry[c],
           NEW p \in Objs, entry[d] = Entry(p, "update_owned_grabs")
    PROVE  ~Pending(p, "update_owned_grabs")'
BY DEF IInv, NoDuplicates, Pending, AlreadyDeferred

LEMMA CancelStep ==
    ASSUME IInv, NEW o \in Objs, CancelDeferral(o)
    PROVE  IInv'
<1>. DEFINE d == Head(watches[o])
<1>1. ListInv /\ watches[o] \in Seq(Cells) /\ IsInjective(watches[o])
  BY DEF IInv, TypeOK, WatchesInOrder
<1>2. d \in OnList /\ entry[d].obj = o
  <2>1. d \in ToSet(watches[o])
    BY <1>1, TailElements DEF CancelDeferral
  <2>. QED BY <2>1 DEF IInv, TargetsWatched
<1>3. state[o] = "dest"
  <2>1. stack \in Seq(Frames) /\ stack # <<>> /\ Last(stack).obj = o
    BY DEF IInv, TypeOK, CancelDeferral, RunsWatches, Innermost
  <2>2. Len(stack) \in DOMAIN stack
    BY <2>1
  <2>. QED BY <2>1, <2>2 DEF IInv, StackMatchesState, Last
<1>4. /\ deferred' \in Seq(Cells) /\ OnList' = OnList \ {d}
      /\ IsInjective(deferred')
  BY <1>1, <1>2, UnlinkElements DEF CancelDeferral, CellsAccounted
<1>5. /\ watches' = IF entry[d].obj \in Objs
                    THEN WatchReset(entry[d].obj, d) ELSE watches
      /\ entry' = [entry EXCEPT ![d].obj = Nobody]
      /\ FreeDefer(d)
      /\ UNCHANGED <<state, stack, scheduled, current, loop, opmode>>
  BY <1>2 DEF CancelDeferral
<1>6. state' \in [Objs -> {"live", "dest", "freed"}]
  BY <1>5 DEF IInv, TypeOK
<1>7. /\ ListInv'
      /\ \A c \in OnList' : entry'[c] = entry[c]
      /\ \A p \in Objs : watches[p] = <<>> => watches'[p] = <<>>
  <2>. HIDE DEF ListInv, OnList, d
  <2>. QED BY <1>1, <1>2, <1>4, <1>5, <1>6, UnlinkKeeps
<1>8. StackMatchesState'
  BY <1>5 DEF IInv, StackMatchesState
<1>9. WatchesInOrder'
  <2>1. \A i \in DOMAIN stack : stack[i].obj \in Objs
    <3>1. stack \in Seq(Frames)
      BY DEF IInv, TypeOK
    <3>2. \A i \in DOMAIN stack : stack[i] \in Frames
      BY <3>1
    <3>. QED BY <3>2 DEF Frames
  <2>. QED BY <1>5, <1>7, <2>1 DEF IInv, WatchesInOrder
<1>10. FlagMeansPending'
  <2>. SUFFICES ASSUME NEW p \in Objs, state[p] = "live"
                PROVE  p \in scheduled <=> Pending(p, "update_owned_grabs")'
    BY <1>5 DEF FlagMeansPending
  <2>1. p # entry[d].obj
    BY <1>2, <1>3
  <2>2. Pending(p, "update_owned_grabs")' <=> Pending(p, "update_owned_grabs")
    BY <1>2, <1>4, <1>7, <2>1, RemovalKeepsFlag
  <2>. QED BY <2>2 DEF IInv, FlagMeansPending
<1>11. NeverRunOnNobody'
  BY <1>5 DEF IInv, NeverRunOnNobody
<1>12. /\ stack' \in Seq(Frames) /\ scheduled' \subseteq Objs
       /\ current' \in Entries /\ loop' \in {"handlers", "execute"}
       /\ opmode' \in {"normal", "deinit"}
  BY <1>5 DEF IInv, TypeOK
<1>. HIDE DEF ListInv, Entries
<1>. QED BY <1>6, <1>7, <1>8, <1>9, <1>10, <1>11, <1>12, Assemble

LEMMA ExecuteStep ==
    ASSUME IInv, ExecuteNext
    PROVE  IInv'
<1>. DEFINE d == Head(deferred)
            e == entry[d]
<1>1. ListInv
  BY DEF IInv, TypeOK, WatchesInOrder
<1>2. /\ d \in OnList
      /\ deferred' \in Seq(Cells) /\ OnList' = OnList \ {d}
      /\ IsInjective(deferred')
  BY <1>1, TailElements DEF ExecuteNext, CellsAccounted
<1>3. /\ watches' = IF e.obj \in Objs THEN WatchReset(e.obj, d) ELSE watches
      /\ entry' = [entry EXCEPT ![d].obj = Nobody]
      /\ FreeDefer(d)
      /\ current' = e
      /\ scheduled' = IF e.action = "update_owned_grabs"
                      THEN scheduled \ {e.obj} ELSE scheduled
      /\ IF e.action = "destroy" /\ e.obj \in Objs
         THEN StartDestroy(e.obj) ELSE UNCHANGED <<state, stack>>
      /\ UNCHANGED <<loop, opmode>>
  BY DEF ExecuteNext
<1>4. e \in Entries /\ (e.action \in ObjActions => e.obj \in Objs)
  BY <1>2, BufferAssumption DEF IInv, TypeOK, TargetsWatched, CellsAccounted
<1>5. /\ state' \in [Objs -> {"live", "dest", "freed"}]
      /\ stack' \in Seq(Frames)
      /\ StackMatchesState'
      /\ \A p \in Objs : state'[p] = "freed" <=> state[p] = "freed"
      /\ \A p \in Objs : state'[p] = "live" => state[p] = "live"
      /\ \A i \in DOMAIN stack' : stack'[i].phase = "deinit" =>
            i \in DOMAIN stack /\ stack'[i] = stack[i]
  <2>1. CASE e.action = "destroy" /\ e.obj \in Objs
    BY <1>3, <2>1, StartDestroyKeeps
  <2>2. CASE ~(e.action = "destroy" /\ e.obj \in Objs)
    <3>1. UNCHANGED <<state, stack>>
      BY <1>3, <2>2
    <3>. QED BY <3>1 DEF IInv, TypeOK, StackMatchesState
  <2>. QED BY <2>1, <2>2
<1>6. /\ ListInv'
      /\ \A c \in OnList' : entry'[c] = entry[c]
      /\ \A p \in Objs : watches[p] = <<>> => watches'[p] = <<>>
  <2>. HIDE DEF ListInv, OnList, d
  <2>. QED BY <1>1, <1>2, <1>3, <1>5, UnlinkKeeps
<1>7. WatchesInOrder'
  <2>1. \A i \in DOMAIN stack : stack[i].obj \in Objs
    <3>1. stack \in Seq(Frames)
      BY DEF IInv, TypeOK
    <3>2. \A i \in DOMAIN stack : stack[i] \in Frames
      BY <3>1
    <3>. QED BY <3>2 DEF Frames
  <2>2. ASSUME NEW p \in Objs, state'[p] = "freed" PROVE watches'[p] = <<>>
    BY <1>5, <1>6, <2>2 DEF IInv, WatchesInOrder
  <2>3. ASSUME NEW i \in DOMAIN stack', stack'[i].phase = "deinit"
        PROVE  watches'[stack'[i].obj] = <<>>
    BY <1>5, <1>6, <2>1, <2>3 DEF IInv, WatchesInOrder
  <2>. QED BY <1>6, <2>2, <2>3 DEF WatchesInOrder
<1>8. FlagMeansPending'
  <2>. SUFFICES ASSUME NEW p \in Objs, state'[p] = "live"
                PROVE  p \in scheduled' <=> Pending(p, "update_owned_grabs")'
    BY DEF FlagMeansPending
  <2>1. p \in scheduled <=> Pending(p, "update_owned_grabs")
    BY <1>5 DEF IInv, FlagMeansPending
  <2>2. CASE e = Entry(p, "update_owned_grabs")
    <3>1. ~Pending(p, "update_owned_grabs")'
      BY <1>2, <1>6, <2>2, RemovalEndsPending
    <3>2. p \notin scheduled'
      BY <1>3, <2>2
    <3>. QED BY <3>1, <3>2
  <2>3. CASE e # Entry(p, "update_owned_grabs")
    <3>1. p # e.obj \/ e.action # "update_owned_grabs"
      BY <1>4, <2>3
    <3>2. Pending(p, "update_owned_grabs")' <=> Pending(p, "update_owned_grabs")
      BY <1>2, <1>6, <3>1, RemovalKeepsFlag
    <3>. QED BY <1>3, <2>1, <3>1, <3>2
  <2>. QED BY <2>2, <2>3
<1>9. NeverRunOnNobody'
  BY <1>3, <1>4 DEF NeverRunOnNobody
<1>10. /\ scheduled' \subseteq Objs
       /\ current' \in Entries /\ loop' \in {"handlers", "execute"}
       /\ opmode' \in {"normal", "deinit"}
  BY <1>3, <1>4 DEF IInv, TypeOK
<1>. HIDE DEF ListInv, Entries
<1>. QED BY <1>5, <1>6, <1>7, <1>8, <1>9, <1>10, Assemble

\* Steps that leave the list alone.
LEMMA ListUntouched ==
    ASSUME IInv, UNCHANGED <<listvars, watches>>,
           state' \in [Objs -> {"live", "dest", "freed"}],
           \A p \in Objs : watches[p] # <<>> /\ state'[p] = "freed" =>
                                 state[p] = "freed"
    PROVE  /\ ListInv'
           /\ \A p, a : Pending(p, a)' <=> Pending(p, a)
<1>1. \A o \in Objs : \A c \in ToSet(watches[o]) : watches[o] # <<>>
  BY DEF ToSet
<1>2. TargetsWatched'
  BY <1>1 DEF IInv, TargetsWatched, listvars
<1>3. CellsAccounted' /\ NoDuplicates' /\ ListInOrder'
  BY DEF IInv, CellsAccounted, NoDuplicates, ListInOrder, listvars
<1>4. \A p, a : Pending(p, a)' <=> Pending(p, a)
  BY DEF Pending, AlreadyDeferred, listvars
<1>5. /\ watches' \in [Objs -> Seq(Cells)] /\ deferred' \in Seq(Cells)
      /\ entry' \in [Cells -> Entries]
      /\ \A c \in OnList' : entry'[c].action \in Actions
      /\ used' \subseteq Slots /\ heap' \subseteq HeapCells
      /\ \A o \in Objs : IsInjective(watches'[o])
  BY DEF IInv, TypeOK, WatchesInOrder, listvars
<1>. QED BY <1>2, <1>3, <1>4, <1>5

LEMMA CreateStep ==
    ASSUME IInv, NEW o \in Objs, Create(o)
    PROVE  IInv'
<1>1. /\ state[o] = "freed" /\ watches[o] = <<>> /\ UNCHANGED watches
      /\ state' = [state EXCEPT ![o] = "live"]
      /\ scheduled' = scheduled \ {o}
      /\ UNCHANGED <<listvars, stack, current, loop, opmode>>
  BY DEF Create, CreateObj, IInv, TypeOK, WatchesInOrder
<1>2. /\ state' \in [Objs -> {"live", "dest", "freed"}]
      /\ \A p \in Objs : p # o => state'[p] = state[p]
      /\ state'[o] = "live"
  BY <1>1 DEF IInv, TypeOK
<1>3. ListInv' /\ \A p, a : Pending(p, a)' <=> Pending(p, a)
  <2>1. \A p \in Objs : state'[p] = "freed" => state[p] = "freed"
    BY <1>2
  <2>. HIDE DEF ListInv
  <2>. QED BY <1>1, <1>2, <2>1, ListUntouched
<1>4. StackMatchesState'
  BY <1>1, <1>2 DEF IInv, StackMatchesState
<1>5. WatchesInOrder'
  BY <1>1, <1>2 DEF IInv, WatchesInOrder
<1>6. FlagMeansPending'
  <2>. SUFFICES ASSUME NEW p \in Objs, state'[p] = "live"
                PROVE  p \in scheduled' <=> Pending(p, "update_owned_grabs")
    BY <1>3 DEF FlagMeansPending
  <2>1. CASE p = o
    BY <1>1, <2>1 DEF IInv, TargetsWatched, Pending, AlreadyDeferred
  <2>2. CASE p # o
    BY <1>1, <1>2, <2>2 DEF IInv, FlagMeansPending
  <2>. QED BY <2>1, <2>2
<1>7. NeverRunOnNobody' /\ stack' \in Seq(Frames) /\ scheduled' \subseteq Objs
      /\ current' \in Entries /\ loop' \in {"handlers", "execute"}
      /\ opmode' \in {"normal", "deinit"}
  BY <1>1 DEF IInv, TypeOK, NeverRunOnNobody
<1>. HIDE DEF ListInv, Entries
<1>. QED BY <1>2, <1>3, <1>4, <1>5, <1>6, <1>7, Assemble

LEMMA DestroyBeginStep ==
    ASSUME IInv, NEW o \in Objs, DestroyBegin(o)
    PROVE  IInv'
<1>1. /\ StartDestroy(o)
      /\ UNCHANGED <<watches, listvars, scheduled, current, loop, opmode>>
  BY DEF DestroyBegin, BeginDestroy
<1>2. /\ state' \in [Objs -> {"live", "dest", "freed"}]
      /\ stack' \in Seq(Frames)
      /\ StackMatchesState'
      /\ \A p \in Objs : state'[p] = "freed" <=> state[p] = "freed"
      /\ \A p \in Objs : state'[p] = "live" => state[p] = "live"
      /\ \A i \in DOMAIN stack' : stack'[i].phase = "deinit" =>
            i \in DOMAIN stack /\ stack'[i] = stack[i]
  BY <1>1, StartDestroyKeeps
<1>3. ListInv' /\ \A p, a : Pending(p, a)' <=> Pending(p, a)
  <2>. HIDE DEF ListInv
  <2>. QED BY <1>1, <1>2, ListUntouched
<1>4. WatchesInOrder'
  BY <1>1, <1>2 DEF IInv, WatchesInOrder
<1>5. FlagMeansPending'
  BY <1>1, <1>2, <1>3 DEF IInv, FlagMeansPending
<1>6. NeverRunOnNobody' /\ scheduled' \subseteq Objs
      /\ current' \in Entries /\ loop' \in {"handlers", "execute"}
      /\ opmode' \in {"normal", "deinit"}
  BY <1>1 DEF IInv, TypeOK, NeverRunOnNobody
<1>. HIDE DEF ListInv, Entries
<1>. QED BY <1>2, <1>3, <1>4, <1>5, <1>6, Assemble

LEMMA WatchesDoneStep ==
    ASSUME IInv, NEW o \in Objs, WatchesDone(o)
    PROVE  IInv'
<1>1. /\ EndWatches(o)
      /\ UNCHANGED <<state, watches, listvars, scheduled, current, loop, opmode>>
  BY DEF WatchesDone
<1>2. stack' \in Seq(Frames) /\ StackMatchesState' /\ WatchesInOrder'
  BY <1>1, EndWatchesKeeps
<1>3. state' \in [Objs -> {"live", "dest", "freed"}]
  BY <1>1 DEF IInv, TypeOK
<1>4. ListInv' /\ \A p, a : Pending(p, a)' <=> Pending(p, a)
  <2>. HIDE DEF ListInv
  <2>. QED BY <1>1, <1>3, ListUntouched
<1>5. FlagMeansPending'
  BY <1>1, <1>4 DEF IInv, FlagMeansPending
<1>6. NeverRunOnNobody' /\ scheduled' \subseteq Objs
      /\ current' \in Entries /\ loop' \in {"handlers", "execute"}
      /\ opmode' \in {"normal", "deinit"}
  BY <1>1 DEF IInv, TypeOK, NeverRunOnNobody
<1>. HIDE DEF ListInv, Entries
<1>. QED BY <1>2, <1>3, <1>4, <1>5, <1>6, Assemble

LEMMA DestroyEndStep ==
    ASSUME IInv, NEW o \in Objs, DestroyEnd(o)
    PROVE  IInv'
<1>1. /\ watches[o] = <<>> /\ UNCHANGED watches
      /\ state[o] = "dest"
      /\ state' \in [Objs -> {"live", "dest", "freed"}]
      /\ stack' \in Seq(Frames)
      /\ StackMatchesState' /\ WatchesInOrder'
  BY EndDestroyKeeps DEF DestroyEnd
<1>2. /\ state' = [state EXCEPT ![o] = "freed"]
      /\ UNCHANGED <<deferred, used, heap, scheduled, current, loop, opmode>>
  BY DEF DestroyEnd, EndDestroy
<1>3. entry' = entry
  <2>1. ToSet(watches[o]) = {} /\ entry \in [Cells -> Entries]
    BY <1>1 DEF ToSet, IInv, TypeOK
  <2>2. entry' = [c \in Cells |-> entry[c]]
    BY <2>1 DEF DestroyEnd
  <2>. QED BY <2>1, <2>2
<1>4. \A p \in Objs : p # o => state'[p] = state[p]
  BY <1>2 DEF IInv, TypeOK
<1>5. ListInv' /\ \A p, a : Pending(p, a)' <=> Pending(p, a)
  <2>1. UNCHANGED <<listvars, watches>>
    BY <1>1, <1>2, <1>3 DEF listvars
  <2>2. \A p \in Objs : watches[p] # <<>> /\ state'[p] = "freed" => state[p] = "freed"
    BY <1>1, <1>4
  <2>. HIDE DEF ListInv
  <2>. QED BY <1>1, <2>1, <2>2, ListUntouched
<1>6. FlagMeansPending'
  <2>1. state'[o] = "freed"
    BY <1>2 DEF IInv, TypeOK
  <2>. QED BY <1>2, <1>4, <1>5, <2>1 DEF IInv, FlagMeansPending
<1>7. NeverRunOnNobody' /\ scheduled' \subseteq Objs
      /\ current' \in Entries /\ loop' \in {"handlers", "execute"}
      /\ opmode' \in {"normal", "deinit"}
  BY <1>2 DEF IInv, TypeOK, NeverRunOnNobody
<1>. HIDE DEF ListInv, Entries
<1>. QED BY <1>1, <1>5, <1>6, <1>7, Assemble

\* The steps of the loop itself, and stuttering.
LEMMA LoopStep ==
    ASSUME IInv, EnterExecute \/ ActionReturns \/ ExecuteDone \/ EnterDeinit
                   \/ UNCHANGED vars
    PROVE  IInv'
<1>1. /\ UNCHANGED <<state, stack, watches, listvars, scheduled>>
      /\ current' \in {current, NoEntry} /\ loop' \in {loop, "handlers", "execute"}
      /\ opmode' \in {opmode, "deinit"}
  BY DEF EnterExecute, ActionReturns, ExecuteDone, EnterDeinit, vars, listvars
<1>2. state' \in [Objs -> {"live", "dest", "freed"}] /\ stack' \in Seq(Frames)
      /\ scheduled' \subseteq Objs /\ current' \in Entries
      /\ loop' \in {"handlers", "execute"} /\ opmode' \in {"normal", "deinit"}
  BY <1>1 DEF IInv, TypeOK
<1>3. ListInv' /\ \A p, a : Pending(p, a)' <=> Pending(p, a)
  <2>. HIDE DEF ListInv
  <2>. QED BY <1>1, <1>2, ListUntouched
<1>4. StackMatchesState' /\ WatchesInOrder' /\ FlagMeansPending'
  BY <1>1, <1>3 DEF IInv, StackMatchesState, WatchesInOrder, FlagMeansPending
<1>5. NeverRunOnNobody'
  BY <1>1 DEF IInv, NeverRunOnNobody
<1>. HIDE DEF ListInv, Entries
<1>. QED BY <1>2, <1>3, <1>4, <1>5, Assemble

\* The invariant holds of every behaviour, however many objects, slots and
\* heap cells there are (obj.c and defer.c as Deferred models them).
THEOREM InvariantHolds == Spec => []IInv
<1>1. Init => IInv
  BY InitHolds
<1>2. IInv /\ [Next]_vars => IInv'
  BY DeferralStep, NullDeferralStep, CancelStep, ExecuteStep, CreateStep,
     DestroyBeginStep, WatchesDoneStep, DestroyEndStep, LoopStep DEF Next
<1>. QED BY <1>1, <1>2, PTL DEF Spec

\* Types, and the cells of the list: no leak, nothing freed while linked.
THEOREM CellsSafe == Spec => [](TypeOK /\ CellsAccounted /\ NoDuplicates)
<1>1. IInv => TypeOK /\ CellsAccounted /\ NoDuplicates
  BY DEF IInv
<1>. QED BY <1>1, InvariantHolds, PTL

\* Destruction and deferral: a listed action has an object that is not freed
\* and whose watch it holds; none runs on NULL in place of a destroyed object.
THEOREM TargetsSafe == Spec => [](TargetsWatched /\ NeverRunOnNobody)
<1>1. IInv => TargetsWatched /\ NeverRunOnNobody
  BY DEF IInv
<1>. QED BY <1>1, InvariantHolds, PTL

\* The deinit routine of an object runs when nothing is pending for it.
THEOREM DeinitSafe == Spec => []DeinitUnobserved
<1>1. IInv => DeinitUnobserved
  <2>. SUFFICES ASSUME IInv, NEW i \in 1 .. Len(stack),
                       stack[i].phase = "deinit", NEW c \in OnList,
                       entry[c].obj = stack[i].obj
                PROVE  FALSE
    BY DEF DeinitUnobserved
  <2>1. stack \in Seq(Frames)
    BY DEF IInv, TypeOK
  <2>2. i \in DOMAIN stack /\ stack[i] \in Frames
    BY <2>1
  <2>3. watches[stack[i].obj] = <<>> /\ stack[i].obj \in Objs
    BY <2>2 DEF IInv, WatchesInOrder, Frames
  <2>4. entry[c].action \in ObjActions
    BY <2>3, BufferAssumption DEF IInv, TypeOK, ListInOrder
  <2>5. c \in ToSet(watches[stack[i].obj])
    BY <2>4 DEF IInv, TargetsWatched
  <2>. QED BY <2>3, <2>5 DEF ToSet
<1>. QED BY <1>1, InvariantHolds, PTL

\* Both: what is pending for an object is watched by it, and pends for the
\* living only.
THEOREM LivingSafe == Spec => []PendingForLiving
<1>1. TargetsWatched /\ DeinitUnobserved => PendingForLiving
  BY DEF PendingForLiving
<1>. QED BY <1>1, TargetsSafe, DeinitSafe, PTL

\* The flag of regbind.c says whether an update is pending.
THEOREM FlagSafe == Spec => []FlagMeansPending
<1>1. IInv => FlagMeansPending
  BY DEF IInv
<1>. QED BY <1>1, InvariantHolds, PTL

(*********************************** tags ***********************************)

\* The first of a list without repetitions is on no other node.
LEMMA WithoutFirst ==
    ASSUME NEW S, NEW l \in Seq(S \cup {Dead}), l # <<>>, ListedOnce(l)
    PROVE  /\ Head(l) \in S \cup {Dead} /\ Tail(l) \in Seq(S \cup {Dead})
           /\ Listed(Tail(l)) \subseteq Listed(l) \ {Head(l)}
           /\ ListedOnce(Tail(l))
<1>1. /\ Len(l) \in Nat \ {0} /\ DOMAIN l = 1..Len(l) /\ Head(l) = l[1]
      /\ Tail(l) \in Seq(S \cup {Dead}) /\ Len(Tail(l)) = Len(l) - 1
      /\ \A i \in 1..Len(l) - 1 : Tail(l)[i] = l[i + 1]
  OBVIOUS
<1>2. DOMAIN Tail(l) = 1..Len(l) - 1
  BY <1>1
<1>. DEFINE t == Tail(l)
<1>. HIDE DEF t
<1>3. \A i \in DOMAIN t : t[i] = l[i + 1] /\ i + 1 \in DOMAIN l /\ i + 1 # 1
  BY <1>1, <1>2 DEF t
<1>4. ListedOnce(t)
  <2>. SUFFICES ASSUME NEW i \in DOMAIN t, NEW j \in DOMAIN t, t[i] = t[j],
                       t[i] # Dead
                PROVE  i = j
    BY DEF ListedOnce
  <2>1. i + 1 = j + 1
    BY <1>3 DEF ListedOnce
  <2>. QED BY <1>1, <1>2, <2>1 DEF t
<1>5. Listed(t) \subseteq Listed(l) \ {Head(l)}
  <2>. SUFFICES ASSUME NEW i \in DOMAIN t, t[i] # Dead
                PROVE  t[i] \in ToSet(l) /\ t[i] # Head(l)
    BY DEF Listed, ToSet
  <2>1. t[i] = l[i + 1] /\ i + 1 \in DOMAIN l /\ 1 \in DOMAIN l /\ i + 1 # 1
    BY <1>1, <1>3
  <2>2. l[i + 1] # l[1]
    BY <2>1 DEF ListedOnce
  <2>. QED BY <1>1, <2>1, <2>2 DEF ToSet
<1>. QED BY <1>1, <1>4, <1>5 DEF t

\* A list's nodes hold what is listed, or nothing.
LEMMA ListedHolds ==
    ASSUME NEW S, NEW R, NEW l \in Seq(S), Listed(l) \subseteq R
    PROVE  l \in Seq(R \cup {Dead})
<1>1. Len(l) \in Nat /\ DOMAIN l = 1..Len(l)
  OBVIOUS
<1>2. \A i \in DOMAIN l : l[i] \in R \cup {Dead}
  BY DEF Listed, ToSet
<1>3. l \in [1..Len(l) -> R \cup {Dead}]
  BY <1>1, <1>2
<1>. QED BY <1>1, <1>3

\* Taking the first one, whether an assertion fails or not.
LEMMA TakeFirstSound ==
    ASSUME ListedAreTagged, TakeFirst
    PROVE  /\ taglist' \in Seq(existing \cup {Dead})
           /\ tagged' \subseteq Regions /\ aborted' \in BOOLEAN
           /\ Listed(taglist') \subseteq existing \cap tagged'
           /\ ListedOnce(taglist')
<1>. DEFINE l == Optimise(taglist)
<1>1. /\ l \in Seq(existing \cup {Dead}) /\ ListedOnce(l)
      /\ Listed(l) \subseteq existing \cap tagged /\ tagged \subseteq Regions
      /\ aborted \in BOOLEAN
  <2>1. /\ taglist \in Seq(existing \cup {Dead}) /\ ListedOnce(taglist)
        /\ Listed(taglist) \subseteq existing \cap tagged /\ tagged \subseteq Regions
        /\ aborted \in BOOLEAN
    BY DEF ListedAreTagged, TagsTypeOK
  <2>. QED BY <2>1, OptimiseElements
<1>2. \/ taglist' = l /\ tagged' = tagged /\ aborted' \in BOOLEAN
      \/ /\ l # <<>> /\ taglist' = Tail(l) /\ tagged' = tagged \ {Head(l)}
         /\ aborted' = aborted
  <2>1. CASE l # <<>> /\ Head(l) = Dead
    BY <2>1 DEF TakeFirst
  <2>2. CASE l = <<>>
    BY <1>1, <2>2 DEF TakeFirst
  <2>3. CASE l # <<>> /\ Head(l) # Dead
    BY <2>3 DEF TakeFirst
  <2>. QED BY <2>1, <2>2, <2>3
<1>. HIDE DEF l
<1>3. CASE taglist' = l /\ tagged' = tagged /\ aborted' \in BOOLEAN
  BY <1>1, <1>3
<1>4. CASE /\ l # <<>> /\ taglist' = Tail(l) /\ tagged' = tagged \ {Head(l)}
           /\ aborted' = aborted
  <2>1. /\ Tail(l) \in Seq(existing \cup {Dead}) /\ ListedOnce(Tail(l))
        /\ Listed(Tail(l)) \subseteq Listed(l) \ {Head(l)}
    BY <1>1, <1>4, WithoutFirst
  <2>. QED BY <1>1, <1>4, <2>1
<1>. QED BY <1>2, <1>3, <1>4

\* ListedAreTagged, of the values the variables are given.
Agree(lv, flagged, list) ==
    /\ lv \subseteq Regions /\ flagged \subseteq Regions
    /\ list \in Seq(lv \cup {Dead})
    /\ Listed(list) \subseteq lv \cap flagged /\ ListedOnce(list)
Flags(b, c) == b \in BOOLEAN /\ c \in BOOLEAN

\* What is listed are regions that exist and have the flag, each once, over
\* creation, destruction behind the list's back, tagging, untagging, taking
\* the first and clearing (tags.c, objlist.c).
THEOREM FlagsAndListAgree == TagsSpec => []ListedAreTagged
<1>1. TagsInit => ListedAreTagged
  <2>. SUFFICES ASSUME TagsInit PROVE ListedAreTagged
    OBVIOUS
  <2>1. taglist = <<>> /\ DOMAIN taglist = {} /\ taglist \in Seq(existing \cup {Dead})
    BY DEF TagsInit
  <2>2. Listed(taglist) = {} /\ ListedOnce(taglist)
    BY <2>1 DEF Listed, ListedOnce, ToSet
  <2>. QED BY <2>1, <2>2 DEF TagsInit, ListedAreTagged, TagsTypeOK
<1>2. ListedAreTagged /\ [TagsNext]_tagsVars => ListedAreTagged'
  <2>. SUFFICES ASSUME ListedAreTagged, [TagsNext]_tagsVars PROVE ListedAreTagged'
    OBVIOUS
  <2>1. /\ existing \subseteq Regions /\ tagged \subseteq Regions
        /\ taglist \in Seq(existing \cup {Dead}) /\ clearing \in BOOLEAN
        /\ aborted \in BOOLEAN /\ Listed(taglist) \subseteq existing \cap tagged
        /\ ListedOnce(taglist)
    BY DEF ListedAreTagged, TagsTypeOK
  <2>2. CASE UNCHANGED tagsVars
    BY <2>1, <2>2 DEF tagsVars, ListedAreTagged, TagsTypeOK, Listed, ListedOnce
  <2>. SUFFICES ASSUME \/ \E r \in Regions : RegionInit(r) \/ Destroy(r)
                                             \/ SetTagged(r) \/ UnsetTagged(r)
                       \/ TaggedFirst \/ TaggedClear \/ ClearRound
                PROVE  Agree(existing', tagged', taglist') /\ Flags(clearing', aborted')
    BY <2>2 DEF TagsNext, ListedAreTagged, TagsTypeOK, Listed, ListedOnce, Agree, Flags
  <2>3. ASSUME NEW r \in Regions, RegionInit(r)
        PROVE  Agree(existing', tagged', taglist') /\ Flags(clearing', aborted')
    <3>1. /\ r \notin existing /\ existing' = existing \cup {r} /\ tagged' = tagged \ {r}
          /\ taglist' = taglist /\ clearing' = clearing /\ aborted' = aborted
      BY <2>3 DEF RegionInit
    <3>2. taglist \in Seq(existing' \cup {Dead})
      BY <2>1, <3>1, ListedHolds
    <3>. QED BY <2>1, <3>1, <3>2 DEF Agree, Flags
  <2>4. ASSUME NEW r \in Regions, Destroy(r)
        PROVE  Agree(existing', tagged', taglist') /\ Flags(clearing', aborted')
    <3>1. /\ r \in existing /\ existing' = existing \ {r}
          /\ taglist' = WatchHandler(taglist, r)
          /\ tagged' = tagged /\ clearing' = clearing /\ aborted' = aborted
      BY <2>4 DEF Destroy
    <3>2. /\ taglist' \in Seq(existing \cup {Dead}) /\ ListedOnce(taglist')
          /\ Listed(taglist') \subseteq Listed(taglist) \ {r}
      BY <2>1, <3>1, RegionsAssumption, WatchHandlerElements
    <3>3. Listed(taglist') \subseteq existing'
      BY <2>1, <3>1, <3>2
    <3>4. taglist' \in Seq(existing' \cup {Dead})
      BY <3>2, <3>3, ListedHolds
    <3>. QED BY <2>1, <3>1, <3>2, <3>4 DEF Agree, Flags
  <2>5. ASSUME NEW r \in Regions, SetTagged(r)
        PROVE  Agree(existing', tagged', taglist') /\ Flags(clearing', aborted')
    <3>1. /\ r \in existing \ tagged /\ tagged' = tagged \cup {r}
          /\ taglist' = ObjListInsertLast(taglist, r)
          /\ existing' = existing /\ clearing' = clearing /\ aborted' = aborted
      BY <2>5 DEF SetTagged
    <3>2. /\ taglist' \in Seq(existing \cup {Dead})
          /\ Listed(taglist') \subseteq Listed(taglist) \cup {r}
          /\ ListedOnce(taglist')
      <4>1. r \notin Listed(taglist) /\ r \in existing
        BY <2>1, <3>1
      <4>. QED BY <2>1, <3>1, <4>1, InsertLastElements
    <3>. QED BY <2>1, <3>1, <3>2 DEF Agree, Flags
  <2>6. ASSUME NEW r \in Regions, UnsetTagged(r)
        PROVE  Agree(existing', tagged', taglist') /\ Flags(clearing', aborted')
    <3>1. /\ r \in existing /\ tagged' = tagged \ {r}
          /\ taglist' = ObjListRemove(taglist, r)
          /\ existing' = existing /\ clearing' = clearing /\ aborted' = aborted
      BY <2>6 DEF UnsetTagged
    <3>2. /\ taglist' \in Seq(existing \cup {Dead}) /\ ListedOnce(taglist')
          /\ Listed(taglist') \subseteq Listed(taglist) \ {r}
      BY <2>1, <3>1, RemoveElements
    <3>. QED BY <2>1, <3>1, <3>2 DEF Agree, Flags
  <2>7. CASE TaggedFirst \/ ClearRound
    <3>1. TakeFirst /\ existing' = existing /\ clearing' \in BOOLEAN
      BY <2>1, <2>7 DEF TaggedFirst, ClearRound
    <3>. QED BY <2>1, <3>1, TakeFirstSound DEF Agree, Flags
  <2>8. CASE TaggedClear
    BY <2>1, <2>8 DEF TaggedClear, Agree, Flags
  <2>. QED BY <2>3, <2>4, <2>5, <2>6, <2>7, <2>8
<1>. QED BY <1>1, <1>2, PTL DEF TagsSpec
-----------------------------------------------------------------------------
(* The order of the tags.                                                  *)

\* From a list to the next, what stays comes before all it came before and all
\* that is new: what TagOrderKept asks of a step.
InLine(l, m) ==
    \A x, y \in Listed(m) :
        /\ x \in Listed(l) /\ y # x
        /\ y \in Listed(l) => Precedes(l, x, y)
        => Precedes(m, x, y)

\* Steps may follow each other, if the first drops nothing that the second has.
LEMMA InLineTransitive ==
    ASSUME NEW k, NEW l, NEW m, InLine(k, l), InLine(l, m),
           Listed(k) \cap Listed(m) \subseteq Listed(l)
    PROVE  InLine(k, m)
BY DEF InLine

\* A list each of whose nodes is one of another, in the order they have there,
\* or is dead.
Thinned(l, m, from) ==
    /\ \A i \in DOMAIN m : from[i] \in DOMAIN l /\ m[i] \in {l[from[i]], Dead}
    /\ \A i, j \in DOMAIN m : i < j => from[i] < from[j]

LEMMA ThinnedInLine ==
    ASSUME NEW S, NEW R, NEW l \in Seq(S), NEW m \in Seq(R), NEW from,
           ListedOnce(l), Thinned(l, m, from)
    PROVE  Listed(m) \subseteq Listed(l) /\ InLine(l, m)
<1>1. /\ DOMAIN l = 1..Len(l) /\ DOMAIN m = 1..Len(m)
      /\ Len(l) \in Nat /\ Len(m) \in Nat
  OBVIOUS
<1>2. Listed(m) \subseteq Listed(l)
  BY DEF Thinned, Listed, ToSet
<1>3. ASSUME NEW x \in Listed(m), NEW y \in Listed(m), y # x, Precedes(l, x, y)
      PROVE  Precedes(m, x, y)
  <2>1. PICK i \in DOMAIN l, j \in DOMAIN l : i < j /\ l[i] = x /\ l[j] = y
    BY <1>3 DEF Precedes
  <2>2. PICK p \in DOMAIN m, q \in DOMAIN m : m[p] = x /\ m[q] = y
    BY DEF Listed, ToSet
  <2>3. x # Dead /\ y # Dead
    BY DEF Listed
  <2>4. from[p] = i /\ from[q] = j
    BY <2>1, <2>2, <2>3 DEF Thinned, ListedOnce
  <2>5. p # q /\ ~(q < p)
    BY <1>1, <1>3, <2>1, <2>2, <2>4 DEF Thinned
  <2>6. p < q
    BY <1>1, <2>5
  <2>. QED BY <2>2, <2>6 DEF Precedes
<1>. QED BY <1>2, <1>3 DEF InLine

\* The operations of a list, one by one.
LEMMA TailInLine ==
    ASSUME NEW S, NEW l \in Seq(S \cup {Dead}), l # <<>>, ListedOnce(l)
    PROVE  Listed(Tail(l)) \subseteq Listed(l) /\ InLine(l, Tail(l))
<1>. DEFINE t == Tail(l)
            from == [i \in DOMAIN t |-> i + 1]
<1>1. /\ t \in Seq(S \cup {Dead}) /\ DOMAIN l = 1..Len(l) /\ Len(l) \in Nat
      /\ DOMAIN t = 1..Len(l) - 1
      /\ \A i \in 1..Len(l) - 1 : t[i] = l[i + 1] /\ i + 1 \in 1..Len(l)
  OBVIOUS
<1>. HIDE DEF t
<1>2. Thinned(l, t, from)
  BY <1>1 DEF Thinned
<1>3. Listed(t) \subseteq Listed(l) /\ InLine(l, t)
  BY <1>1, <1>2, ThinnedInLine
<1>. QED BY <1>3 DEF t

LEMMA OptimiseInLine ==
    ASSUME NEW S, NEW l \in Seq(S \cup {Dead}), ListedOnce(l)
    PROVE  Listed(Optimise(l)) \subseteq Listed(l) /\ InLine(l, Optimise(l))
<1>1. ASSUME NEW k \in Seq(S \cup {Dead}), ListedOnce(k)
      PROVE  Listed(DropDeadHead(k)) \subseteq Listed(k) /\ InLine(k, DropDeadHead(k))
  <2>1. CASE k # <<>> /\ Head(k) = Dead
    BY <1>1, <2>1, TailInLine DEF DropDeadHead
  <2>2. CASE ~(k # <<>> /\ Head(k) = Dead)
    BY <2>2 DEF DropDeadHead, InLine
  <2>. QED BY <2>1, <2>2
<1>. DEFINE k == DropDeadHead(l)
            m == DropDeadHead(k)
<1>2. k \in Seq(S \cup {Dead}) /\ ListedOnce(k)
  BY DropDeadHeadElements
<1>3. Listed(k) \subseteq Listed(l) /\ InLine(l, k)
  BY <1>1
<1>4. Listed(m) \subseteq Listed(k) /\ InLine(k, m)
  BY <1>1, <1>2
<1>. HIDE DEF m
<1>5. Listed(m) \subseteq Listed(l) /\ InLine(l, m)
  BY <1>3, <1>4, InLineTransitive
<1>. QED BY <1>5 DEF m, Optimise

LEMMA RemoveAtInLine ==
    ASSUME NEW S, NEW l \in Seq(S \cup {Dead}), NEW at \in 1..Len(l), ListedOnce(l)
    PROVE  InLine(l, RemoveAt(l, at))
<1>. DEFINE w == RemoveAt(l, at)
            from == [i \in DOMAIN w |-> IF i < at THEN i ELSE i + 1]
<1>1. /\ w \in Seq(S \cup {Dead}) /\ Len(w) = Len(l) - 1
      /\ \A i \in 1..Len(l) - 1 : w[i] = IF i < at THEN l[i] ELSE l[i + 1]
  BY RemoveAtElements
<1>. HIDE DEF w
<1>2. DOMAIN l = 1..Len(l) /\ DOMAIN w = 1..Len(l) - 1 /\ Len(l) \in Nat
  BY <1>1
<1>3. Thinned(l, w, from)
  BY <1>1, <1>2 DEF Thinned
<1>4. InLine(l, w)
  BY <1>1, <1>3, ThinnedInLine
<1>. QED BY <1>4 DEF w

LEMMA RemoveInLine ==
    ASSUME NEW S, NEW l \in Seq(S \cup {Dead}), NEW o \in S, ListedOnce(l)
    PROVE  InLine(l, ObjListRemove(l, o))
<1>1. CASE o \notin ToSet(l)
  BY <1>1, OptimiseInLine DEF ObjListRemove
<1>2. CASE o \in ToSet(l)
  <2>. DEFINE w == RemoveAt(l, NodeOf(l, o))
  <2>1. NodeOf(l, o) \in 1..Len(l)
    BY <1>2 DEF NodeOf, ToSet
  <2>2. w \in Seq(S \cup {Dead}) /\ ListedOnce(w) /\ InLine(l, w)
    BY <2>1, RemoveAtListed, RemoveAtInLine
  <2>3. ObjListRemove(l, o) = Optimise(w)
    BY <1>2 DEF ObjListRemove
  <2>. HIDE DEF w
  <2>4. Listed(Optimise(w)) \subseteq Listed(w) /\ InLine(w, Optimise(w))
    BY <2>2, OptimiseInLine
  <2>. QED BY <2>2, <2>3, <2>4, InLineTransitive
<1>. QED BY <1>1, <1>2

LEMMA WatchHandlerInLine ==
    ASSUME NEW S, NEW l \in Seq(S \cup {Dead}), NEW o \in S, ListedOnce(l)
    PROVE  InLine(l, WatchHandler(l, o))
<1>. DEFINE at == NodeOf(l, o)
            w == [l EXCEPT ![at] = Dead]
<1>1. CASE o \notin ToSet(l)
  BY <1>1 DEF WatchHandler, InLine
<1>2. CASE o \in ToSet(l) /\ at \in {1, Len(l)}
  <2>1. WatchHandler(l, o) = w
    BY <1>2 DEF WatchHandler
  <2>2. at \in 1..Len(l)
    BY <1>2 DEF NodeOf, ToSet
  <2>. HIDE DEF at
  <2>3. /\ w \in Seq(S \cup {Dead}) /\ DOMAIN w = 1..Len(l) /\ DOMAIN l = 1..Len(l)
        /\ \A i \in DOMAIN l : w[i] \in {l[i], Dead}
    BY <2>2
  <2>. HIDE DEF w
  <2>4. Thinned(l, w, [i \in DOMAIN w |-> i])
    BY <2>3 DEF Thinned
  <2>. QED BY <2>1, <2>3, <2>4, ThinnedInLine
<1>3. CASE o \in ToSet(l) /\ at \notin {1, Len(l)}
  <2>1. at \in 1..Len(l)
    BY <1>3 DEF NodeOf, ToSet
  <2>2. WatchHandler(l, o) = RemoveAt(l, at)
    BY <1>3 DEF WatchHandler
  <2>. QED BY <2>1, <2>2, RemoveAtInLine
<1>. QED BY <1>1, <1>2, <1>3

LEMMA AppendInLine ==
    ASSUME NEW S, NEW l \in Seq(S \cup {Dead}), NEW o \in S \cup {Dead},
           o \notin Listed(l)
    PROVE  InLine(l, Append(l, o))
<1>. DEFINE m == Append(l, o)
            n == Len(l) + 1
<1>1. /\ DOMAIN l = 1..Len(l) /\ DOMAIN m = 1..n /\ Len(l) \in Nat /\ m[n] = o
      /\ \A i \in 1..Len(l) : m[i] = l[i]
      /\ \A i \in 1..n : i \in 1..Len(l) \/ i = n
  OBVIOUS
<1>. HIDE DEF m
<1>2. ASSUME NEW x \in Listed(m), NEW y \in Listed(m), x \in Listed(l),
             y \in Listed(l) => Precedes(l, x, y)
      PROVE  Precedes(m, x, y)
  <2>1. CASE y \in Listed(l)
    BY <1>1, <1>2, <2>1 DEF Precedes
  <2>2. CASE y \notin Listed(l)
    <3>1. PICK i \in 1..Len(l) : l[i] = x
      BY <1>1, <1>2 DEF Listed, ToSet
    <3>2. PICK j \in 1..n : m[j] = y /\ y # Dead
      BY <1>1 DEF Listed, ToSet
    <3>3. j = n
      BY <1>1, <2>2, <3>2 DEF Listed, ToSet
    <3>. QED BY <1>1, <3>1, <3>2, <3>3 DEF Precedes
  <2>. QED BY <2>1, <2>2
<1>3. InLine(l, m)
  BY <1>2 DEF InLine
<1>. QED BY <1>3 DEF m

LEMMA InsertLastInLine ==
    ASSUME NEW S, NEW l \in Seq(S \cup {Dead}), NEW o \in S, ListedOnce(l),
           o \notin Listed(l)
    PROVE  InLine(l, ObjListInsertLast(l, o))
<1>1. CASE l # <<>> /\ Head(l) = Dead
  <2>. DEFINE k == Optimise(l)
  <2>1. k \in Seq(S \cup {Dead}) /\ Listed(k) \subseteq Listed(l) /\ InLine(l, k)
    BY OptimiseElements, OptimiseInLine
  <2>2. ObjListInsertLast(l, o) = Append(k, Dead)
    BY <1>1 DEF ObjListInsertLast
  <2>. HIDE DEF k
  <2>3. Dead \notin Listed(k)
    BY DEF Listed
  <2>4. InLine(k, Append(k, Dead)) /\ Listed(Append(k, Dead)) \subseteq Listed(k)
    BY <2>1, <2>3, AppendInLine, AppendListed
  <2>. QED BY <2>1, <2>2, <2>4, InLineTransitive
<1>2. CASE ~(l # <<>> /\ Head(l) = Dead)
  BY <1>2, AppendInLine DEF ObjListInsertLast
<1>. QED BY <1>1, <1>2

LEMMA TakeFirstInLine ==
    ASSUME ListedAreTagged, TakeFirst
    PROVE  InLine(taglist, taglist')
<1>. DEFINE l == Optimise(taglist)
<1>1. taglist \in Seq(existing \cup {Dead}) /\ ListedOnce(taglist)
  BY DEF ListedAreTagged, TagsTypeOK
<1>2. taglist' = l \/ (l # <<>> /\ taglist' = Tail(l))
  BY DEF TakeFirst
<1>3. /\ l \in Seq(existing \cup {Dead}) /\ ListedOnce(l)
      /\ Listed(l) \subseteq Listed(taglist) /\ InLine(taglist, l)
  BY <1>1, OptimiseElements, OptimiseInLine
<1>. HIDE DEF l
<1>4. CASE l # <<>> /\ taglist' = Tail(l)
  <2>1. Listed(Tail(l)) \subseteq Listed(l) /\ InLine(l, Tail(l))
    BY <1>3, <1>4, TailInLine
  <2>. QED BY <1>3, <1>4, <2>1, InLineTransitive
<1>. QED BY <1>2, <1>3, <1>4

\* TagOrderKept: the first region of the list is the one tagged first, since
\* no step takes a region past another or puts one ahead of those that wait
\* (objlist_insert_last, watch_handler, optimise).
THEOREM TagsKeepTheirOrder == TagsSpec => TagOrderKept
<1>1. ListedAreTagged /\ [TagsNext]_tagsVars => InLine(taglist, taglist')
  <2>. SUFFICES ASSUME ListedAreTagged, [TagsNext]_tagsVars
                PROVE  InLine(taglist, taglist')
    OBVIOUS
  <2>1. /\ taglist \in Seq(existing \cup {Dead}) /\ ListedOnce(taglist)
        /\ Listed(taglist) \subseteq existing \cap tagged
    BY DEF ListedAreTagged, TagsTypeOK
  <2>2. CASE taglist' = taglist
    BY <2>2 DEF InLine
  <2>3. ASSUME NEW r \in Regions, Destroy(r) PROVE InLine(taglist, taglist')
    BY <2>1, <2>3, WatchHandlerInLine DEF Destroy
  <2>4. ASSUME NEW r \in Regions, SetTagged(r) PROVE InLine(taglist, taglist')
    <3>1. r \in existing /\ r \notin Listed(taglist)
      BY <2>1, <2>4 DEF SetTagged
    <3>. QED BY <2>1, <2>4, <3>1, InsertLastInLine DEF SetTagged
  <2>5. ASSUME NEW r \in Regions, UnsetTagged(r) PROVE InLine(taglist, taglist')
    BY <2>1, <2>5, RemoveInLine DEF UnsetTagged
  <2>6. CASE TaggedFirst \/ ClearRound
    BY <2>6, TakeFirstInLine DEF TaggedFirst, ClearRound
  <2>7. CASE (\E r \in Regions : RegionInit(r)) \/ TaggedClear \/ UNCHANGED tagsVars
    BY <2>2, <2>7 DEF RegionInit, TaggedClear, tagsVars
  <2>. QED BY <2>3, <2>4, <2>5, <2>6, <2>7 DEF TagsNext
<1>. DEFINE Kept == \A x, y \in Listed(taglist') :
                /\ x \in Listed(taglist) /\ y # x
                /\ y \in Listed(taglist) => Precedes(taglist, x, y)
                => Precedes(taglist', x, y)
<1>2. InLine(taglist, taglist') => Kept
  BY DEF InLine, Precedes, Precedes
<1>3. ListedAreTagged /\ [TagsNext]_tagsVars => [Kept]_tagsVars
  BY <1>1, <1>2
<1>. HIDE DEF Kept
<1>4. TagsSpec => [][Kept]_tagsVars
  BY <1>3, FlagsAndListAgree, PTL DEF TagsSpec
<1>. QED BY <1>4 DEF TagOrderKept, Kept

(********************************* Session **********************************)

HIDE DEF Goes, queuevars, flagvars, worldvars, localvars, Slots, ObjActions,
         NullActions, Actions, Entries, Entry, NoEntry, OnList, ListInv

Waits == mgr.state \in {"asked", "willing", "phase2"}
Holds(s, i, m) == i \in 1..Len(s) /\ s[i] = m
HasKind(s, k, kind) == k \in 1..Len(s) /\ s[k].kind = kind
IonHas(i, m) == Holds(toIon, i, m)
MgrHas(k, kind) == HasKind(toMgr, k, kind)

\* A SaveYourself on its way is the only one; nothing is said about it yet.
\* A cancellation before it is of another save.
AskedOnce ==
    \A i \in Int : IonHas(i, "SaveYourself") =>
        /\ mgr.state = "asked"
        /\ \A j \in Int : IonHas(j, "SaveYourself") => j = i
        /\ \A j \in Int : IonHas(j, "ShutdownCancelled") =>
              /\ j < i => ion.answered
              /\ j > i => mgr.cancelled
        /\ \A k \in Int : ~MgrHas(k, "Done") /\ ~MgrHas(k, "RequestPhase2")
\* Nor is anything said yet while the second phase is on its way.
Phase2Once ==
    \A i \in Int : IonHas(i, "SaveYourselfPhase2") =>
        /\ mgr.state = "phase2" /\ ~ion.answered
        /\ \A j \in Int : IonHas(j, "SaveYourselfPhase2") => j = i
        /\ \A j \in Int : IonHas(j, "ShutdownCancelled") => j > i
DoneOnce ==
    \A k \in Int : MgrHas(k, "Done") =>
        /\ Waits /\ ion.answered
        /\ \A n \in Int : MgrHas(n, "Done") => n = k
        /\ \A n \in Int : MgrHas(n, "RequestPhase2") => n < k
PhaseAsked ==
    \A k \in Int : MgrHas(k, "RequestPhase2") =>
        /\ mgr.state = "asked"
        /\ \A n \in Int : MgrHas(n, "RequestPhase2") => n = k
        /\ ion.answered => mgr.cancelled
\* sent_save_done is what was sent.
AnswerIsSent ==
    Waits /\ ion.answered =>
        \/ \E i \in Int : IonHas(i, "SaveYourself")
        \/ \E k \in Int : MgrHas(k, "Done")
Answered ==
    /\ mgr.state \in {"done", "over"} => ion.answered
    /\ mgr.state = "willing" /\ ion.answered => mgr.cancelled
\* A cancellation that is on its way is known to have been sent.
CancelKnown ==
    \A j \in Int : IonHas(j, "ShutdownCancelled") =>
        /\ ~Waits => ion.answered
        /\ Waits /\ ~ion.answered =>
              mgr.cancelled \/ \E i \in Int : IonHas(i, "SaveYourself")
Conversation ==
    /\ AskedOnce /\ Phase2Once /\ DoneOnce /\ PhaseAsked
    /\ AnswerIsSent /\ Answered /\ CancelKnown

WishIs ==
    /\ ion.fn = "exit" => ion.wish = "restart"
    /\ ion.fn = "restart" => ion.wish = "other"
    /\ ion.wish # None => ion.hint = Hook(ion.wish).hint
\* A save is complete when nothing of it, and of none after it, is under way.
CompleteWhenDone ==
    \A j \in Int : IonHas(j, "SaveComplete") =>
        mgr.state = "idle" \/ \E i \in Int : i > j /\ IonHas(i, "SaveYourself")
PropertiesFirst ==
    \A k \in Int : MgrHas(k, "Properties") => MgrHas(k + 1, "Done")
HintKnown ==
    ion.conn /\ ion.since /\ ion.wish # None =>
        \/ \E k \in Int : MgrHas(k, "Properties") /\ toMgr[k].hint = ion.hint
        \/ mgr.hint = ion.hint /\ \A k \in Int : ~MgrHas(k, "Properties")
Told == WishIs /\ CompleteWhenDone /\ PropertiesFirst /\ HintKnown

SessionIInv == SessionTypeOK /\ Conversation /\ Told

-----------------------------------------------------------------------------
(* Messages are taken from the front and put at the end.                   *)

LEMMA TailHolds ==
    ASSUME NEW S, NEW s \in Seq(S), s # <<>>
    PROVE  /\ \A m : \A i \in Int : Holds(Tail(s), i, m)
                   <=> i >= 1 /\ Holds(s, i + 1, m)
           /\ \A m : Head(s) = m <=> Holds(s, 1, m)
           /\ \A m : \A i \in Int : Holds(s, i, m) => i >= 1
<1>1. /\ Len(s) \in Nat \ {0} /\ Len(Tail(s)) = Len(s) - 1 /\ Head(s) = s[1]
      /\ \A i \in 1..Len(s) - 1 : Tail(s)[i] = s[i + 1]
  OBVIOUS
<1>2. ASSUME NEW i \in Int, NEW m
      PROVE  Holds(Tail(s), i, m) <=> i >= 1 /\ Holds(s, i + 1, m)
  <2>1. i \in 1..Len(Tail(s)) <=> i >= 1 /\ i + 1 \in 1..Len(s)
    BY <1>1
  <2>2. i \in 1..Len(Tail(s)) => Tail(s)[i] = s[i + 1]
    BY <1>1
  <2>. QED BY <2>1, <2>2 DEF Holds
<1>3. 1 \in 1..Len(s)
  BY <1>1
<1>. QED BY <1>1, <1>2, <1>3 DEF Holds

LEMMA AppendHolds ==
    ASSUME NEW S, NEW s \in Seq(S), NEW e \in S
    PROVE  /\ \A m : \A i \in Int : Holds(Append(s, e), i, m)
                                  <=> Holds(s, i, m) \/ (i = Len(s) + 1 /\ m = e)
           /\ \A m : \A i \in Int : Holds(s, i, m) => i <= Len(s)
           /\ Len(s) \in Nat
<1>1. /\ Len(s) \in Nat /\ Len(Append(s, e)) = Len(s) + 1
      /\ \A i \in 1..Len(s) : Append(s, e)[i] = s[i]
      /\ Append(s, e)[Len(s) + 1] = e
  OBVIOUS
<1>2. ASSUME NEW i \in Int, NEW m
      PROVE  Holds(Append(s, e), i, m)
               <=> Holds(s, i, m) \/ (i = Len(s) + 1 /\ m = e)
  <2>1. i \in 1..Len(Append(s, e)) <=> i \in 1..Len(s) \/ i = Len(s) + 1
    BY <1>1
  <2>2. i \in 1..Len(s) => i # Len(s) + 1
    BY <1>1
  <2>. QED BY <1>1, <2>1, <2>2 DEF Holds
<1>. QED BY <1>1, <1>2 DEF Holds

LEMMA TailKinds ==
    ASSUME NEW S, NEW s \in Seq(S), s # <<>>
    PROVE  /\ \A m : \A k \in Int : HasKind(Tail(s), k, m)
                                  <=> k >= 1 /\ HasKind(s, k + 1, m)
           /\ \A m : \A k \in Int : HasKind(Tail(s), k, m) => Tail(s)[k] = s[k + 1]
           /\ \A m : Head(s).kind = m <=> HasKind(s, 1, m)
           /\ \A m : \A k \in Int : HasKind(s, k, m) => k >= 1
           /\ Head(s) = s[1]
<1>1. /\ Len(s) \in Nat \ {0} /\ Len(Tail(s)) = Len(s) - 1 /\ Head(s) = s[1]
      /\ \A i \in 1..Len(s) - 1 : Tail(s)[i] = s[i + 1]
  OBVIOUS
<1>2. ASSUME NEW i \in Int, NEW m
      PROVE  /\ HasKind(Tail(s), i, m) <=> i >= 1 /\ HasKind(s, i + 1, m)
             /\ HasKind(Tail(s), i, m) => Tail(s)[i] = s[i + 1]
  <2>1. i \in 1..Len(Tail(s)) <=> i >= 1 /\ i + 1 \in 1..Len(s)
    BY <1>1
  <2>2. i \in 1..Len(Tail(s)) => Tail(s)[i] = s[i + 1]
    BY <1>1
  <2>. QED BY <2>1, <2>2 DEF HasKind
<1>3. 1 \in 1..Len(s)
  BY <1>1
<1>. QED BY <1>1, <1>2, <1>3 DEF HasKind

LEMMA AppendKinds ==
    ASSUME NEW S, NEW s \in Seq(S), NEW e \in S
    PROVE  /\ \A m : \A k \in Int : HasKind(Append(s, e), k, m)
                  <=> HasKind(s, k, m) \/ (k = Len(s) + 1 /\ m = e.kind)
           /\ \A m : \A k \in Int : HasKind(s, k, m) =>
                  k <= Len(s) /\ Append(s, e)[k] = s[k]
           /\ Append(s, e)[Len(s) + 1] = e
           /\ Len(s) \in Nat
<1>1. /\ Len(s) \in Nat /\ Len(Append(s, e)) = Len(s) + 1
      /\ \A i \in 1..Len(s) : Append(s, e)[i] = s[i]
      /\ Append(s, e)[Len(s) + 1] = e
  OBVIOUS
<1>2. ASSUME NEW i \in Int, NEW m
      PROVE  HasKind(Append(s, e), i, m)
               <=> HasKind(s, i, m) \/ (i = Len(s) + 1 /\ m = e.kind)
  <2>1. i \in 1..Len(Append(s, e)) <=> i \in 1..Len(s) \/ i = Len(s) + 1
    BY <1>1
  <2>2. i \in 1..Len(s) => i # Len(s) + 1
    BY <1>1
  <2>. QED BY <1>1, <2>1, <2>2 DEF HasKind
<1>. QED BY <1>1, <1>2 DEF HasKind

LEMMA AppendKept ==
    ASSUME NEW S, NEW s \in Seq(S), NEW e \in S, NEW t, t = Append(s, e)
    PROVE  \A m : \A k \in Int : HasKind(s, k, m) => t[k] = s[k]
<1>1. \A i \in 1..Len(s) : t[i] = s[i]
  OBVIOUS
<1>. QED BY <1>1 DEF HasKind

LEMMA ConcatOne ==
    ASSUME NEW S, NEW s \in Seq(S), NEW e \in S
    PROVE  s \o <<e>> = Append(s, e) /\ Append(s, e) \in Seq(S) /\ s \o <<>> = s
OBVIOUS

LEMMA NothingHeld ==
    /\ \A m : \A i \in Int : ~Holds(<<>>, i, m)
    /\ \A m : \A k \in Int : ~HasKind(<<>>, k, m)
BY DEF Holds, HasKind

-----------------------------------------------------------------------------
(* Types.                                                                  *)

IonType == [up : BOOLEAN, smhook : BOOLEAN, conn : BOOLEAN,
            fn : {None, "exit", "restart"}, answered : BOOLEAN,
            hint : {"immediately", "ifRunning"},
            wish : {None} \cup Wishes, since : BOOLEAN]
MgrType == [state : {"idle", "asked", "willing", "phase2", "done", "over"},
            shutdown : BOOLEAN, cancelled : BOOLEAN, queue : SUBSET BOOLEAN,
            hint : {None, "immediately", "ifRunning"}]
IonMessages == {"SaveYourself", "SaveYourselfPhase2", "ShutdownCancelled",
                "SaveComplete", "Die"}

LEMMA TypesAre ==
    SessionTypeOK <=>
        /\ ion \in IonType /\ mgr \in MgrType
        /\ toMgr \in Seq(Messages) /\ toIon \in Seq(IonMessages)
        /\ ion.conn => ion.up /\ ion.smhook
        /\ ~ion.conn => toMgr = <<>> /\ toIon = <<>> /\ mgr.state = "idle"
BY DEF SessionTypeOK, IonType, MgrType, IonMessages

LEMMA HookIs ==
    ASSUME NEW what \in Wishes
    PROVE  /\ Hook(what).hint \in {"immediately", "ifRunning"}
           /\ Hook(what).fn \in {None, "exit", "restart"}
           /\ Hook(what).shutdown \in BOOLEAN
           /\ Hook(what).fn = "exit" => what = "restart"
           /\ Hook(what).fn = "restart" => what = "other"
<1>1. CASE what = "restart"
  BY <1>1 DEF Hook
<1>2. CASE what = "other"
  BY <1>2 DEF Hook
<1>3. CASE what = "shutdown"
  BY <1>3, SessionAssumption DEF Hook
<1>4. CASE what = "snapshot"
  BY <1>4, SessionAssumption DEF Hook
<1>. QED BY <1>1, <1>2, <1>3, <1>4 DEF Wishes

LEMMA IdleIs ==
    /\ Idle \in MgrType /\ Idle.state = "idle" /\ Idle.cancelled = FALSE
    /\ \A b \in BOOLEAN : NowRunning(b) \in IonType /\ NotRunning(b) \in IonType
    /\ \A b \in BOOLEAN : /\ NowRunning(b).up /\ NowRunning(b).conn = b
                          /\ NowRunning(b).smhook = b /\ NowRunning(b).fn = None
                          /\ NowRunning(b).wish = None
                          /\ NowRunning(b).answered = FALSE
    /\ \A b \in BOOLEAN : /\ ~NotRunning(b).up /\ ~NotRunning(b).conn
                          /\ NotRunning(b).fn = None
                          /\ NotRunning(b).wish = None
BY DEF Idle, MgrType, NowRunning, NotRunning, IonType

LEMMA MessagesAre ==
    /\ \A b \in BOOLEAN : [kind |-> "Request", shutdown |-> b] \in Messages
    /\ [kind |-> "RequestPhase2"] \in Messages
    /\ \A h \in {"immediately", "ifRunning"} :
          [kind |-> "Properties", hint |-> h] \in Messages
    /\ \A b \in BOOLEAN : Done(b) \in Messages /\ Done(b).kind = "Done"
    /\ \A m \in Messages :
          /\ m.kind \in {"Request", "RequestPhase2", "Properties", "Done"}
          /\ m.kind = "Request" => m.shutdown \in BOOLEAN
          /\ m.kind = "Properties" => m.hint \in {"immediately", "ifRunning"}
BY DEF Messages, Done

\* A process that ends, or loses its connection, leaves nothing under way.
LEMMA LeaveSound ==
    ASSUME SessionTypeOK, NEW l, Leave(l)
    PROVE  SessionTypeOK'
<1>1. ion.smhook \in BOOLEAN
  BY DEF SessionTypeOK
<1>2. /\ ion' = NotRunning(ion.smhook) /\ mgr' = Idle
      /\ toMgr' = <<>> /\ toIon' = <<>>
  BY DEF Leave
<1>3. ion' \in IonType /\ mgr' \in MgrType /\ ~ion'.conn /\ mgr'.state = "idle"
  BY <1>1, <1>2, IdleIs
<1>. QED BY <1>2, <1>3 DEF SessionTypeOK, IonType, MgrType, IonMessages

\* What the session manager reads next.
LEMMA MgrReadIs ==
    ASSUME SessionTypeOK, MgrRead
    PROVE  /\ ion.conn /\ toMgr # <<>> /\ toMgr' = Tail(toMgr)
           /\ UNCHANGED <<layout, ion, toIon, acts>>
           /\ Head(toMgr) \in Messages
           /\ \/ /\ Head(toMgr).kind = "Request"
                 /\ mgr' = [mgr EXCEPT !.queue = @ \cup {Head(toMgr).shutdown}]
              \/ /\ Head(toMgr).kind = "RequestPhase2"
                 /\ mgr' = IF mgr.cancelled THEN mgr
                           ELSE [mgr EXCEPT !.state = "willing"]
              \/ /\ Head(toMgr).kind = "Properties"
                 /\ mgr' = [mgr EXCEPT !.hint = Head(toMgr).hint]
              \/ /\ Head(toMgr).kind = "Done"
                 /\ mgr' = [mgr EXCEPT !.state = "done"]
<1>. DEFINE m == Head(toMgr)
<1>1. /\ ion.conn /\ toMgr # <<>> /\ toMgr' = Tail(toMgr)
      /\ UNCHANGED <<layout, ion, toIon, acts>>
      /\ mgr' = CASE m.kind = "Request" ->
                         [mgr EXCEPT !.queue = @ \cup {m.shutdown}]
                   [] m.kind = "RequestPhase2" ->
                         [mgr EXCEPT !.state = IF mgr.cancelled THEN @
                                               ELSE "willing"]
                   [] m.kind = "Properties" -> [mgr EXCEPT !.hint = m.hint]
                   [] m.kind = "Done" -> [mgr EXCEPT !.state = "done"]
  BY DEF MgrRead
<1>2. m \in Messages
  BY <1>1 DEF SessionTypeOK
<1>3. m.kind \in {"Request", "RequestPhase2", "Properties", "Done"}
  BY <1>2, MessagesAre
<1>4. mgr \in MgrType
  BY TypesAre
<1>5. [mgr EXCEPT !.state = mgr.state] = mgr
  BY <1>4 DEF MgrType
<1>. HIDE DEF m
<1>6. CASE m.kind = "RequestPhase2"
  BY <1>1, <1>2, <1>5, <1>6 DEF m
<1>7. CASE m.kind # "RequestPhase2"
  BY <1>1, <1>2, <1>3, <1>7 DEF m
<1>. QED BY <1>6, <1>7

\* The steps that change nothing of the conversation.
Elsewhere ==
    \/ UNCHANGED <<ion, mgr, toMgr, toIon>>
    \/ /\ ~ion.up /\ ion' = NowRunning(ion.smhook)
       /\ UNCHANGED <<mgr, toMgr, toIon>>
Leaving == \E q : Leave(q)
Losing ==
    /\ ion.up /\ ion.conn /\ ion' = [ion EXCEPT !.conn = FALSE]
    /\ mgr' = Idle /\ toMgr' = <<>> /\ toIon' = <<>>
Finishing == Hears("SaveComplete") /\ ion.fn = None /\ Heard
             /\ UNCHANGED <<layout, ion, mgr, toMgr>>
Beginning(b) == ion.conn /\ mgr.state = "idle" /\ MgrBegin(b)

LEMMA StepsAre ==
    ASSUME [SessionNext]_sessionVars
    PROVE  \/ Elsewhere \/ Leaving \/ Losing \/ Finishing
           \/ \E what \in Wishes : AskSM(what)
           \/ \E asked \in BOOLEAN : SaveYourself(asked)
           \/ \E how \in Hows : SaveYourselfPhase2(how)
           \/ ShutdownCancelled
           \/ MgrRead \/ MgrPhase2 \/ MgrEnd \/ MgrCancel
           \/ \E b \in BOOLEAN : Beginning(b)
<1>1. CASE UNCHANGED sessionVars
  BY <1>1 DEF sessionVars, Elsewhere
<1>2. CASE Hear
  <2>1. CASE SaveComplete
    BY <2>1 DEF SaveComplete, Finishing, Leaving
  <2>2. CASE Die
    BY <2>2 DEF Die, Leaving
  <2>. QED BY <1>2, <2>1, <2>2 DEF Hear
<1>3. CASE Manager
  BY <1>3 DEF Manager, MgrServe, Beginning
<1>4. CASE \E exits \in BOOLEAN : LoseConnection(exits)
  BY <1>4 DEF LoseConnection, Losing, Leaving
<1>5. CASE \/ AskNobody \/ Resign
           \/ \E what \in Wishes, how \in Hows : AskAlone(what, how)
  BY <1>5 DEF AskNobody, Resign, AskAlone, Leaving, Elsewhere
<1>6. CASE \/ StartIon \/ LogOut
           \/ \E x \in Windows : Appear(x) \/ Close(x)
                                 \/ \E p \in Places : Move(x, p)
           \/ \E S \in SUBSET Windows : Configure(S)
  BY <1>6 DEF StartIon, LogOut, Appear, Close, Move, Configure, Elsewhere
<1>7. CASE \E b \in BOOLEAN : MgrCheckpoint(b)
  BY <1>7 DEF MgrCheckpoint, Beginning
<1>. QED BY <1>1, <1>2, <1>3, <1>4, <1>5, <1>6, <1>7 DEF SessionNext

LEMMA TypeInvariant ==
    ASSUME SessionTypeOK, [SessionNext]_sessionVars
    PROVE  SessionTypeOK'
<1>1. /\ ion \in IonType /\ mgr \in MgrType
      /\ toMgr \in Seq(Messages) /\ toIon \in Seq(IonMessages)
      /\ ion.conn => ion.up /\ ion.smhook
      /\ ~ion.conn => toMgr = <<>> /\ toIon = <<>> /\ mgr.state = "idle"
  BY TypesAre
<1>a. {"SaveYourself", "SaveYourselfPhase2", "ShutdownCancelled", "Die",
       "SaveComplete"} \subseteq IonMessages
  BY DEF IonMessages
<1>. DEFINE Fine == /\ ion' \in IonType /\ mgr' \in MgrType
                    /\ toMgr' \in Seq(Messages) /\ toIon' \in Seq(IonMessages)
                    /\ ion'.conn => ion'.up /\ ion'.smhook
                    /\ ~ion'.conn => /\ toMgr' = <<>> /\ toIon' = <<>>
                                     /\ mgr'.state = "idle"
<1>. SUFFICES Fine
  BY DEF SessionTypeOK, IonType, MgrType, IonMessages
<1>2. CASE Elsewhere
  <2>1. CASE UNCHANGED <<ion, mgr, toMgr, toIon>>
    BY <1>1, <2>1
  <2>2. CASE /\ ~ion.up /\ ion' = NowRunning(ion.smhook)
             /\ UNCHANGED <<mgr, toMgr, toIon>>
    <3>1. ion.smhook \in BOOLEAN
      BY <1>1 DEF IonType
    <3>2. ion' \in IonType /\ ion'.up /\ ion'.conn = ion.smhook /\ ion'.smhook = ion.smhook
      BY <2>2, <3>1, IdleIs
    <3>. QED BY <1>1, <2>2, <3>2
  <2>. QED BY <1>2, <2>1, <2>2 DEF Elsewhere
<1>3. CASE Leaving
  <2>1. SessionTypeOK'
    BY <1>3, LeaveSound DEF Leaving
  <2>. QED BY <2>1 DEF SessionTypeOK, IonType, MgrType, IonMessages
<1>4. CASE Losing
  <2>1. ion' \in IonType /\ ~ion'.conn
    BY <1>1, <1>4 DEF Losing, IonType
  <2>2. <<>> \in Seq(Messages) /\ <<>> \in Seq(IonMessages)
    OBVIOUS
  <2>. QED BY <1>4, <2>1, <2>2, IdleIs DEF Losing
<1>5. CASE Finishing
  BY <1>1, <1>5 DEF Finishing, Hears, Heard
<1>6. ASSUME NEW what \in Wishes, AskSM(what) PROVE Fine
  <2>1. /\ ion.conn /\ ion' = Hooked(ion, what)
        /\ toMgr' = Append(toMgr, [kind |-> "Request",
                                   shutdown |-> Hook(what).shutdown])
        /\ UNCHANGED <<mgr, toIon>>
    BY <1>6 DEF AskSM
  <2>2. [kind |-> "Request", shutdown |-> Hook(what).shutdown] \in Messages
    BY HookIs, MessagesAre
  <2>3. ion' \in IonType /\ ion'.up = ion.up /\ ion'.conn = ion.conn
        /\ ion'.smhook = ion.smhook
    BY <1>1, <2>1, HookIs DEF Hooked, IonType
  <2>. QED BY <1>1, <2>1, <2>2, <2>3
<1>7. ASSUME NEW asked \in BOOLEAN, SaveYourself(asked) PROVE Fine
  <2>. DEFINE m == IF asked THEN [kind |-> "RequestPhase2"] ELSE Done(FALSE)
  <2>1. /\ toIon # <<>> /\ toIon' = Tail(toIon)
        /\ ion' = [ion EXCEPT !.answered = ~asked]
        /\ toMgr' = Append(toMgr, m) /\ mgr' = mgr
    BY <1>7 DEF SaveYourself, Hears, Heard
  <2>2. m \in Messages
    BY MessagesAre
  <2>. HIDE DEF m
  <2>3. ion' \in IonType /\ ion'.up = ion.up /\ ion'.conn = ion.conn
        /\ ion'.smhook = ion.smhook
    BY <1>1, <2>1 DEF IonType
  <2>. QED BY <1>1, <2>1, <2>2, <2>3
<1>8. ASSUME NEW how \in Hows, SaveYourselfPhase2(how) PROVE Fine
  <2>. DEFINE ok == Succeeds(how)
              m == [kind |-> "Properties", hint |-> ion.hint]
              d == Done(ok)
  <2>1. /\ toIon # <<>> /\ toIon' = Tail(toIon) /\ mgr' = mgr
        /\ ion' = [ion EXCEPT !.answered = TRUE, !.since = ok]
        /\ toMgr' = toMgr \o (IF ok THEN <<m>> ELSE <<>>) \o <<d>>
    BY <1>8 DEF SaveYourselfPhase2, Hears, Heard
  <2>2. m \in Messages /\ d \in Messages /\ ok \in BOOLEAN
    <3>1. ok \in BOOLEAN /\ ion.hint \in {"immediately", "ifRunning"}
      BY <1>1 DEF Succeeds, IonType
    <3>. HIDE DEF ok
    <3>. QED BY <3>1, MessagesAre
  <2>. HIDE DEF m, d, ok
  <2>3. ion' \in IonType /\ ion'.up = ion.up /\ ion'.conn = ion.conn
        /\ ion'.smhook = ion.smhook
    BY <1>1, <2>1, <2>2 DEF IonType
  <2>4. toMgr' \in Seq(Messages)
    BY <1>1, <2>1, <2>2
  <2>. QED BY <1>1, <2>1, <2>3, <2>4
<1>9. CASE ShutdownCancelled
  <2>1. /\ toIon # <<>> /\ toIon' = Tail(toIon) /\ mgr' = mgr
        /\ ion' = [ion EXCEPT !.fn = None, !.answered = TRUE, !.wish = None]
        /\ toMgr' = toMgr \o CancelledAnswer(ion)
    BY <1>9 DEF ShutdownCancelled, Hears, Heard
  <2>2. CancelledAnswer(ion) \in Seq(Messages)
    <3>. DEFINE d == Done(FALSE)
    <3>1. d \in Messages
      BY MessagesAre
    <3>. HIDE DEF d
    <3>2. <<d>> \in Seq(Messages) /\ <<>> \in Seq(Messages)
      BY <3>1
    <3>. QED BY <3>2 DEF CancelledAnswer, d
  <2>3. ion' \in IonType /\ ion'.up = ion.up /\ ion'.conn = ion.conn
        /\ ion'.smhook = ion.smhook
    BY <1>1, <2>1 DEF IonType
  <2>. QED BY <1>1, <2>1, <2>2, <2>3
<1>10. CASE MgrRead
  <2>. DEFINE m == Head(toMgr)
  <2>1. /\ ion.conn /\ toMgr # <<>> /\ toMgr' = Tail(toMgr)
        /\ UNCHANGED <<ion, toIon>> /\ m \in Messages
        /\ \/ /\ m.kind = "Request"
              /\ mgr' = [mgr EXCEPT !.queue = @ \cup {m.shutdown}]
           \/ mgr' = mgr
           \/ mgr' = [mgr EXCEPT !.state = "willing"]
           \/ m.kind = "Properties" /\ mgr' = [mgr EXCEPT !.hint = m.hint]
           \/ mgr' = [mgr EXCEPT !.state = "done"]
    BY <1>10, MgrReadIs
  <2>. HIDE DEF m
  <2>2. mgr' \in MgrType
    BY <1>1, <2>1, MessagesAre DEF MgrType
  <2>3. toMgr' \in Seq(Messages)
    BY <1>1, <2>1
  <2>. QED BY <1>1, <2>1, <2>2, <2>3
<1>11. CASE MgrPhase2
  <2>1. ion.conn /\ toIon' = Append(toIon, "SaveYourselfPhase2")
    BY <1>1, <1>11 DEF MgrPhase2, Says
  <2>2. mgr' \in MgrType /\ UNCHANGED <<ion, toMgr>>
    BY <1>1, <1>11 DEF MgrPhase2, MgrType
  <2>. QED BY <1>1, <1>a, <2>1, <2>2
<1>12. CASE MgrEnd
  <2>. DEFINE idle == [Idle EXCEPT !.queue = mgr.queue, !.hint = mgr.hint]
  <2>1. /\ mgr.state = "done" /\ UNCHANGED <<ion, toMgr>>
        /\ mgr' \in {[mgr EXCEPT !.state = "over"], idle}
        /\ toIon' \in {toIon, Append(toIon, "Die"), Append(toIon, "SaveComplete")}
    BY <1>12 DEF MgrEnd, Says
  <2>2. idle \in MgrType
    BY <1>1, IdleIs DEF MgrType
  <2>. HIDE DEF idle
  <2>3. mgr' \in MgrType
    BY <1>1, <2>1, <2>2 DEF MgrType
  <2>4. toIon' \in Seq(IonMessages)
    BY <1>1, <1>a, <2>1
  <2>. QED BY <1>1, <2>1, <2>3, <2>4
<1>13. CASE MgrCancel
  <2>1. ion.conn /\ toIon' = Append(toIon, "ShutdownCancelled")
    BY <1>1, <1>13 DEF MgrCancel, Says
  <2>2. mgr' \in MgrType /\ UNCHANGED <<ion, toMgr>>
    BY <1>1, <1>13 DEF MgrCancel, MgrType
  <2>. QED BY <1>1, <1>a, <2>1, <2>2
<1>14. ASSUME NEW b \in BOOLEAN, Beginning(b) PROVE Fine
  <2>1. toIon' = Append(toIon, "SaveYourself")
    BY <1>14 DEF Beginning, MgrBegin, Says
  <2>2. mgr' \in MgrType /\ ion.conn /\ UNCHANGED <<ion, toMgr>>
    BY <1>1, <1>14 DEF Beginning, MgrBegin, MgrType
  <2>. QED BY <1>1, <1>a, <2>1, <2>2
<1>. QED BY <1>2, <1>3, <1>4, <1>5, <1>6, <1>7, <1>8, <1>9, <1>10, <1>11,
            <1>12, <1>13, <1>14, StepsAre

-----------------------------------------------------------------------------
(* The conversation goes on as it should.                                  *)

LEMMA ConversationEnds ==
    ASSUME mgr' = Idle, toIon' = <<>>, toMgr' = <<>>
    PROVE  Conversation'
<1>1. mgr'.state = "idle"
  BY IdleIs
<1>. QED BY <1>1, NothingHeld
         DEF Conversation, AskedOnce, Phase2Once, DoneOnce, PhaseAsked,
             AnswerIsSent, Answered, CancelKnown, IonHas, MgrHas, Waits

\* A request that is added says nothing of a save under way, and a message
\* that is no answer is taken off without a word of it.
LEMMA ConversationAsked ==
    ASSUME SessionTypeOK, Conversation, NEW e \in Messages, e.kind = "Request",
           toMgr' = Append(toMgr, e), toIon' = toIon, mgr' = mgr,
           ion'.answered = ion.answered
    PROVE  Conversation'
<1>1. \A m : \A k \in Int : HasKind(toMgr', k, m)
                          <=> HasKind(toMgr, k, m)
                              \/ (k = Len(toMgr) + 1 /\ m = "Request")
  BY AppendKinds, TypesAre
<1>2. \A k \in Int : /\ HasKind(toMgr', k, "Done") <=> HasKind(toMgr, k, "Done")
                     /\ HasKind(toMgr', k, "RequestPhase2")
                          <=> HasKind(toMgr, k, "RequestPhase2")
  BY <1>1
<1>. QED BY <1>2
         DEF Conversation, AskedOnce, Phase2Once, DoneOnce, PhaseAsked,
             AnswerIsSent, Answered, CancelKnown, IonHas, MgrHas, Waits

\* sm_save_yourself: what was under way before is answered.
LEMMA ConversationSaves ==
    ASSUME SessionTypeOK, Conversation, NEW asked \in BOOLEAN, SaveYourself(asked)
    PROVE  Conversation'
<1>. DEFINE e == IF asked THEN [kind |-> "RequestPhase2"] ELSE Done(FALSE)
<1>1. /\ toIon # <<>> /\ Head(toIon) = "SaveYourself" /\ toIon' = Tail(toIon)
      /\ toMgr' = Append(toMgr, e) /\ mgr' = mgr
      /\ ion'.answered = ~asked
  BY DEF SaveYourself, Hears, Heard, SessionTypeOK
<1>2. /\ e \in Messages
      /\ e.kind = IF asked THEN "RequestPhase2" ELSE "Done"
  BY MessagesAre DEF Done
<1>3. toMgr \in Seq(Messages) /\ toIon \in Seq(IonMessages)
  BY TypesAre
<1>. HIDE DEF e
<1>4. /\ \A m : \A i \in Int : Holds(toIon', i, m)
              <=> i >= 1 /\ Holds(toIon, i + 1, m)
      /\ Holds(toIon, 1, "SaveYourself")
  BY <1>1, <1>3, TailHolds
<1>5. /\ \A m : \A k \in Int : HasKind(toMgr', k, m)
            <=> HasKind(toMgr, k, m)
                \/ (k = Len(toMgr) + 1
                      /\ m = IF asked THEN "RequestPhase2" ELSE "Done")
      /\ \A m : \A k \in Int : HasKind(toMgr, k, m) => k <= Len(toMgr)
      /\ Len(toMgr) \in Nat
  BY <1>1, <1>2, <1>3, AppendKinds
<1>6. /\ mgr.state = "asked"
      /\ \A j \in Int : Holds(toIon, j, "SaveYourself") => j = 1
      /\ \A j \in Int :
            Holds(toIon, j, "ShutdownCancelled") /\ j > 1 => mgr.cancelled
      /\ \A k \in Int : /\ ~HasKind(toMgr, k, "Done")
                        /\ ~HasKind(toMgr, k, "RequestPhase2")
  BY <1>4 DEF Conversation, AskedOnce, IonHas, MgrHas
<1>7. \A i \in Int : ~Holds(toIon', i, "SaveYourself")
  BY <1>4, <1>6
<1>8. \A i \in Int : ~Holds(toIon', i, "SaveYourselfPhase2")
  BY <1>4, <1>6 DEF Conversation, Phase2Once, IonHas
<1>9. \A j \in Int : Holds(toIon', j, "ShutdownCancelled") => mgr.cancelled
  BY <1>4, <1>6
<1>10. \A k \in Int : /\ HasKind(toMgr', k, "Done")
                           <=> ~asked /\ k = Len(toMgr) + 1
                      /\ HasKind(toMgr', k, "RequestPhase2")
                           <=> asked /\ k = Len(toMgr) + 1
  BY <1>5, <1>6
<1>11. AskedOnce' /\ Phase2Once'
  BY <1>7, <1>8 DEF AskedOnce, Phase2Once, IonHas
<1>12. DoneOnce' /\ PhaseAsked'
  BY <1>1, <1>6, <1>10 DEF DoneOnce, PhaseAsked, MgrHas, Waits
<1>13. AnswerIsSent'
  <2>1. Len(toMgr) + 1 \in Int
    BY <1>5
  <2>. QED BY <1>1, <1>10, <2>1 DEF AnswerIsSent, MgrHas
<1>14. Answered' /\ CancelKnown'
  BY <1>1, <1>6, <1>9 DEF Answered, CancelKnown, IonHas, Waits
<1>. QED BY <1>11, <1>12, <1>13, <1>14 DEF Conversation

\* sm_save_yourself_phase2: the answer is the first.
LEMMA ConversationSaved ==
    ASSUME SessionTypeOK, Conversation, NEW how \in Hows, SaveYourselfPhase2(how)
    PROVE  Conversation'
<1>. DEFINE ok == Succeeds(how)
            e == [kind |-> "Properties", hint |-> ion.hint]
            d == Done(ok)
            s == IF ok THEN Append(toMgr, e) ELSE toMgr
<1>1. /\ toIon # <<>> /\ Head(toIon) = "SaveYourselfPhase2"
      /\ toIon' = Tail(toIon) /\ mgr' = mgr /\ ion'.answered = TRUE
      /\ toMgr' = toMgr \o (IF ok THEN <<e>> ELSE <<>>) \o <<d>>
  BY DEF SaveYourselfPhase2, Hears, Heard, SessionTypeOK
<1>2. toMgr \in Seq(Messages) /\ toIon \in Seq(IonMessages)
  BY TypesAre
<1>3. /\ e \in Messages /\ e.kind = "Properties"
      /\ d \in Messages /\ d.kind = "Done"
  <2>1. ok \in BOOLEAN /\ ion.hint \in {"immediately", "ifRunning"}
    BY DEF Succeeds, SessionTypeOK
  <2>. HIDE DEF ok
  <2>. QED BY <2>1, MessagesAre
<1>. HIDE DEF e, d, ok
<1>4. s \in Seq(Messages) /\ toMgr' = Append(s, d)
  <2>1. CASE ok
    <3>1. toMgr' = toMgr \o <<e>> \o <<d>> /\ s = Append(toMgr, e)
      BY <1>1, <2>1
    <3>. HIDE DEF s
    <3>2. toMgr \o <<e>> = s /\ s \in Seq(Messages)
      BY <1>2, <1>3, <3>1, ConcatOne
    <3>3. s \o <<d>> = Append(s, d)
      BY <1>3, <3>2, ConcatOne
    <3>. QED BY <3>1, <3>2, <3>3
  <2>2. CASE ~ok
    <3>1. toMgr' = toMgr \o <<>> \o <<d>> /\ s = toMgr
      BY <1>1, <2>2
    <3>. HIDE DEF s
    <3>2. toMgr \o <<>> = s /\ s \in Seq(Messages)
      BY <1>2, <3>1
    <3>3. s \o <<d>> = Append(s, d)
      BY <1>3, <3>2, ConcatOne
    <3>. QED BY <3>1, <3>2, <3>3
  <2>. QED BY <2>1, <2>2
<1>5. /\ \A m : \A i \in Int : Holds(toIon', i, m)
              <=> i >= 1 /\ Holds(toIon, i + 1, m)
      /\ Holds(toIon, 1, "SaveYourselfPhase2")
  BY <1>1, <1>2, TailHolds
<1>6. /\ mgr.state = "phase2" /\ ~ion.answered
      /\ \A j \in Int : Holds(toIon, j, "SaveYourselfPhase2") => j = 1
  BY <1>5 DEF Conversation, Phase2Once, IonHas
<1>7. \A k \in Int : /\ ~HasKind(toMgr, k, "Done")
                     /\ ~HasKind(toMgr, k, "RequestPhase2")
  BY <1>6 DEF Conversation, DoneOnce, PhaseAsked, MgrHas
<1>8. \A k \in Int : /\ ~HasKind(s, k, "Done") /\ ~HasKind(s, k, "RequestPhase2")
  <2>1. CASE ok
    <3>1. s = Append(toMgr, e)
      BY <2>1
    <3>. HIDE DEF s
    <3>2. \A m : \A k \in Int : HasKind(s, k, m)
            <=> HasKind(toMgr, k, m) \/ (k = Len(toMgr) + 1 /\ m = "Properties")
      BY <1>2, <1>3, <3>1, AppendKinds
    <3>. QED BY <1>7, <3>2
  <2>. QED BY <1>7, <2>1
<1>. HIDE DEF s
<1>9. /\ \A m : \A k \in Int : HasKind(toMgr', k, m)
            <=> HasKind(s, k, m) \/ (k = Len(s) + 1 /\ m = "Done")
      /\ Len(s) \in Nat
  BY <1>3, <1>4, AppendKinds
<1>10. \A k \in Int : /\ HasKind(toMgr', k, "Done") <=> k = Len(s) + 1
                      /\ ~HasKind(toMgr', k, "RequestPhase2")
  BY <1>8, <1>9
<1>11. \A i \in Int : /\ ~Holds(toIon', i, "SaveYourself")
                      /\ ~Holds(toIon', i, "SaveYourselfPhase2")
  BY <1>5, <1>6 DEF Conversation, AskedOnce, IonHas
<1>12. AskedOnce' /\ Phase2Once'
  BY <1>11 DEF AskedOnce, Phase2Once, IonHas
<1>13. DoneOnce' /\ PhaseAsked'
  BY <1>1, <1>6, <1>10 DEF DoneOnce, PhaseAsked, MgrHas, Waits
<1>14. AnswerIsSent'
  <2>1. Len(s) + 1 \in Int
    BY <1>9
  <2>. QED BY <1>10, <2>1 DEF AnswerIsSent, MgrHas
<1>15. Answered' /\ CancelKnown'
  BY <1>1, <1>6 DEF Answered, CancelKnown, Waits
<1>. QED BY <1>12, <1>13, <1>14, <1>15 DEF Conversation

\* sm_shutdown_cancelled: it answers if the save was not answered yet, and
\* then no second phase comes.
LEMMA ConversationCancelled ==
    ASSUME SessionTypeOK, Conversation, ShutdownCancelled
    PROVE  Conversation'
<1>. DEFINE d == Done(FALSE)
<1>1. /\ toIon # <<>> /\ Head(toIon) = "ShutdownCancelled"
      /\ toIon' = Tail(toIon) /\ mgr' = mgr /\ ion'.answered = TRUE
      /\ toMgr' = toMgr \o (IF ion.answered THEN <<>> ELSE <<d>>)
  BY DEF ShutdownCancelled, Hears, Heard, CancelledAnswer, SessionTypeOK
<1>2. toMgr \in Seq(Messages) /\ toIon \in Seq(IonMessages)
      /\ d \in Messages /\ d.kind = "Done"
  BY TypesAre, MessagesAre
<1>. HIDE DEF d
<1>3. /\ \A m : \A i \in Int : Holds(toIon', i, m)
              <=> i >= 1 /\ Holds(toIon, i + 1, m)
      /\ \A m : \A i \in Int : Holds(toIon, i, m) => i >= 1
      /\ Holds(toIon, 1, "ShutdownCancelled")
  BY <1>1, <1>2, TailHolds
<1>4. \A i \in Int : ~Holds(toIon, i, "SaveYourselfPhase2")
  BY <1>3 DEF Conversation, Phase2Once, IonHas
<1>a. ASSUME NEW i \in Int, Holds(toIon, i, "SaveYourself")
      PROVE  i > 1 /\ Holds(toIon', i - 1, "SaveYourself") /\ ion.answered
  <2>1. i # 1
    BY <1>1, <1>2, <1>a, TailHolds
  <2>2. i > 1 /\ i - 1 >= 1 /\ i - 1 \in Int /\ (i - 1) + 1 = i
    BY <1>3, <1>a, <2>1
  <2>3. Holds(toIon', i - 1, "SaveYourself")
    BY <1>3, <1>a, <2>2
  <2>. QED BY <1>3, <1>a, <2>2, <2>3 DEF Conversation, AskedOnce, IonHas
<1>5. CASE ion.answered
  <2>1. toMgr' = toMgr
    BY <1>1, <1>2, <1>5
  <2>2. AskedOnce'
    BY <1>1, <1>3, <1>5, <2>1 DEF Conversation, AskedOnce, IonHas, MgrHas
  <2>3. Phase2Once'
    BY <1>3, <1>4 DEF Phase2Once, IonHas
  <2>4. DoneOnce' /\ PhaseAsked' /\ Answered' /\ CancelKnown'
    BY <1>1, <1>5, <2>1
       DEF Conversation, DoneOnce, PhaseAsked, Answered, CancelKnown, MgrHas, Waits
  <2>5. AnswerIsSent'
    <3>1. Waits =>
            \/ \E i \in Int : Holds(toIon, i, "SaveYourself")
            \/ \E k \in Int : HasKind(toMgr, k, "Done")
      BY <1>5 DEF Conversation, AnswerIsSent, IonHas, MgrHas
    <3>2. (\E i \in Int : Holds(toIon, i, "SaveYourself")) =>
             \E i \in Int : Holds(toIon', i, "SaveYourself")
      BY <1>a
    <3>. QED BY <1>1, <2>1, <3>1, <3>2 DEF AnswerIsSent, IonHas, MgrHas, Waits
  <2>. QED BY <2>2, <2>3, <2>4, <2>5 DEF Conversation
<1>6. CASE ~ion.answered
  <2>1. toMgr' = Append(toMgr, d)
    BY <1>1, <1>2, <1>6
  <2>2. /\ \A m : \A k \in Int : HasKind(toMgr', k, m)
              <=> HasKind(toMgr, k, m) \/ (k = Len(toMgr) + 1 /\ m = "Done")
        /\ \A m : \A k \in Int : HasKind(toMgr, k, m) => k <= Len(toMgr)
        /\ Len(toMgr) \in Nat
    BY <1>2, <2>1, AppendKinds
  <2>3. \A i \in Int : ~Holds(toIon, i, "SaveYourself")
    BY <1>6, <1>a
  <2>4. Waits /\ mgr.cancelled
    BY <1>3, <1>6, <2>3 DEF Conversation, CancelKnown, IonHas
  <2>5. \A k \in Int : ~HasKind(toMgr, k, "Done")
    BY <1>6 DEF Conversation, DoneOnce, MgrHas
  <2>6. \A i \in Int : /\ ~Holds(toIon', i, "SaveYourself")
                       /\ ~Holds(toIon', i, "SaveYourselfPhase2")
    BY <1>3, <1>4, <2>3
  <2>7. \A k \in Int :
          /\ HasKind(toMgr', k, "Done") <=> k = Len(toMgr) + 1
          /\ HasKind(toMgr', k, "RequestPhase2")
               <=> HasKind(toMgr, k, "RequestPhase2")
          /\ HasKind(toMgr, k, "RequestPhase2") => k < Len(toMgr) + 1
    BY <2>2, <2>5
  <2>8. /\ AskedOnce' /\ Phase2Once' /\ AnswerIsSent' /\ CancelKnown' /\ Answered'
    BY <1>1, <2>2, <2>4, <2>6, <2>7
       DEF AskedOnce, Phase2Once, AnswerIsSent, CancelKnown, Answered, IonHas,
           MgrHas, Waits
  <2>9. DoneOnce' /\ PhaseAsked'
    BY <1>1, <2>2, <2>4, <2>7
       DEF Conversation, DoneOnce, PhaseAsked, MgrHas, Waits
  <2>. QED BY <2>8, <2>9 DEF Conversation
<1>. QED BY <1>5, <1>6

\* A message that is no SaveYourself and has to do with no other.
LEMMA ConversationFinished ==
    ASSUME SessionTypeOK, Conversation, Finishing
    PROVE  Conversation'
<1>1. /\ toIon # <<>> /\ Head(toIon) = "SaveComplete" /\ toIon' = Tail(toIon)
      /\ UNCHANGED <<ion, mgr, toMgr>>
  BY DEF Finishing, Hears, Heard
<1>2. toIon \in Seq(IonMessages)
  BY TypesAre
<1>3. /\ \A m : \A i \in Int : Holds(toIon', i, m)
              <=> i >= 1 /\ Holds(toIon, i + 1, m)
      /\ \A m : \A i \in Int : Holds(toIon, i, m) => i >= 1
      /\ Head(toIon) = "SaveComplete"
  BY <1>1, <1>2, TailHolds
<1>4. ASSUME NEW i \in Int, Holds(toIon, i, "SaveYourself")
      PROVE  i - 1 \in Int /\ Holds(toIon', i - 1, "SaveYourself")
  <2>1. i # 1
    BY <1>1, <1>2, <1>4, TailHolds
  <2>2. i - 1 >= 1 /\ i - 1 \in Int /\ (i - 1) + 1 = i
    BY <1>3, <1>4, <2>1
  <2>. QED BY <1>3, <1>4, <2>2
<1>5. AskedOnce' /\ Phase2Once'
  BY <1>1, <1>3 DEF Conversation, AskedOnce, Phase2Once, IonHas, MgrHas
<1>6. DoneOnce' /\ PhaseAsked' /\ Answered'
  BY <1>1 DEF Conversation, DoneOnce, PhaseAsked, Answered, MgrHas, Waits
<1>7. AnswerIsSent'
  BY <1>1, <1>4 DEF Conversation, AnswerIsSent, IonHas, MgrHas, Waits
<1>8. CancelKnown'
  BY <1>1, <1>3, <1>4 DEF Conversation, CancelKnown, IonHas, Waits
<1>. QED BY <1>5, <1>6, <1>7, <1>8 DEF Conversation

LEMMA ConversationRead ==
    ASSUME SessionTypeOK, Conversation, MgrRead
    PROVE  Conversation'
<1>. DEFINE m == Head(toMgr)
<1>1. /\ toMgr # <<>> /\ toMgr' = Tail(toMgr) /\ UNCHANGED <<ion, toIon>>
      /\ m.kind \in {"Request", "RequestPhase2", "Properties", "Done"}
      /\ \/ /\ m.kind \in {"Request", "Properties"}
            /\ mgr'.state = mgr.state /\ mgr'.cancelled = mgr.cancelled
         \/ m.kind = "RequestPhase2" /\ mgr.cancelled /\ mgr' = mgr
         \/ /\ m.kind = "RequestPhase2" /\ ~mgr.cancelled
            /\ mgr'.state = "willing" /\ mgr'.cancelled = mgr.cancelled
         \/ /\ m.kind = "Done"
            /\ mgr'.state = "done" /\ mgr'.cancelled = mgr.cancelled
  BY MgrReadIs, MessagesAre DEF SessionTypeOK
<1>2. toMgr \in Seq(Messages)
  BY TypesAre
<1>3. /\ \A x : \A k \in Int : HasKind(toMgr', k, x)
              <=> k >= 1 /\ HasKind(toMgr, k + 1, x)
      /\ \A x : m.kind = x <=> HasKind(toMgr, 1, x)
      /\ \A x : \A k \in Int : HasKind(toMgr, k, x) => k >= 1
  BY <1>1, <1>2, TailKinds
<1>. HIDE DEF m
<1>a. ASSUME NEW k \in Int, HasKind(toMgr, k, "Done"), m.kind # "Done"
      PROVE  k - 1 \in Int /\ HasKind(toMgr', k - 1, "Done")
  <2>1. k # 1
    BY <1>3, <1>a
  <2>2. k - 1 >= 1 /\ k - 1 \in Int /\ (k - 1) + 1 = k
    BY <1>3, <1>a, <2>1
  <2>. QED BY <1>3, <1>a, <2>2
<1>4. CASE mgr'.state = mgr.state /\ mgr'.cancelled = mgr.cancelled /\ m.kind # "Done"
  <2>1. AskedOnce' /\ Phase2Once' /\ Answered' /\ CancelKnown'
    BY <1>1, <1>3, <1>4
       DEF Conversation, AskedOnce, Phase2Once, Answered, CancelKnown, IonHas,
           MgrHas, Waits
  <2>2. DoneOnce' /\ PhaseAsked'
    BY <1>1, <1>3, <1>4 DEF Conversation, DoneOnce, PhaseAsked, MgrHas, Waits
  <2>3. AnswerIsSent'
    BY <1>1, <1>4, <1>a DEF Conversation, AnswerIsSent, IonHas, MgrHas, Waits
  <2>. QED BY <2>1, <2>2, <2>3 DEF Conversation
<1>5. CASE /\ m.kind = "RequestPhase2" /\ ~mgr.cancelled
           /\ mgr'.state = "willing" /\ mgr'.cancelled = mgr.cancelled
  <2>1. HasKind(toMgr, 1, "RequestPhase2")
    BY <1>3, <1>5
  <2>2. /\ mgr.state = "asked" /\ ~ion.answered
        /\ \A k \in Int : HasKind(toMgr, k, "RequestPhase2") => k = 1
    <3>1. ion.answered \in BOOLEAN
      BY DEF SessionTypeOK
    <3>. QED BY <1>5, <2>1, <3>1 DEF Conversation, PhaseAsked, MgrHas
  <2>3. \A i \in Int : /\ ~Holds(toIon, i, "SaveYourself")
                       /\ ~Holds(toIon, i, "SaveYourselfPhase2")
    BY <2>1, <2>2 DEF Conversation, AskedOnce, Phase2Once, IonHas, MgrHas
  <2>4. \A k \in Int : ~HasKind(toMgr, k, "Done")
    BY <2>2 DEF Conversation, DoneOnce, MgrHas
  <2>5. \A j \in Int : ~Holds(toIon, j, "ShutdownCancelled")
    BY <1>5, <2>2, <2>3 DEF Conversation, CancelKnown, IonHas, Waits
  <2>6. \A k \in Int : /\ ~HasKind(toMgr', k, "Done")
                       /\ ~HasKind(toMgr', k, "RequestPhase2")
    BY <1>3, <2>2, <2>4
  <2>. QED BY <1>1, <1>5, <2>2, <2>3, <2>5, <2>6
           DEF Conversation, AskedOnce, Phase2Once, DoneOnce, PhaseAsked,
               AnswerIsSent, Answered, CancelKnown, IonHas, MgrHas, Waits
<1>6. CASE m.kind = "Done" /\ mgr'.state = "done" /\ mgr'.cancelled = mgr.cancelled
  <2>1. HasKind(toMgr, 1, "Done")
    BY <1>3, <1>6
  <2>2. /\ Waits /\ ion.answered
        /\ \A n \in Int : HasKind(toMgr, n, "Done") => n = 1
        /\ \A n \in Int : HasKind(toMgr, n, "RequestPhase2") => n < 1
    BY <2>1 DEF Conversation, DoneOnce, MgrHas
  <2>3. \A i \in Int : /\ ~Holds(toIon, i, "SaveYourself")
                       /\ ~Holds(toIon, i, "SaveYourselfPhase2")
    BY <2>1, <2>2 DEF Conversation, AskedOnce, Phase2Once, IonHas, MgrHas
  <2>4. \A k \in Int : /\ ~HasKind(toMgr', k, "Done")
                       /\ ~HasKind(toMgr', k, "RequestPhase2")
    BY <1>3, <2>2
  <2>. QED BY <1>1, <1>6, <2>2, <2>3, <2>4
           DEF Conversation, AskedOnce, Phase2Once, DoneOnce, PhaseAsked,
               AnswerIsSent, Answered, CancelKnown, IonHas, MgrHas, Waits
<1>. QED BY <1>1, <1>4, <1>5, <1>6

\* What the session manager says next.
LEMMA ConversationBegins ==
    ASSUME SessionTypeOK, Conversation, NEW b \in BOOLEAN, Beginning(b)
    PROVE  Conversation'
<1>. DEFINE n == Len(toIon) + 1
<1>1. /\ mgr.state = "idle" /\ mgr'.state = "asked"
      /\ mgr'.cancelled = mgr.cancelled
      /\ toIon' = Append(toIon, "SaveYourself") /\ UNCHANGED <<ion, toMgr>>
  BY DEF Beginning, MgrBegin, Says, SessionTypeOK
<1>2. toIon \in Seq(IonMessages) /\ "SaveYourself" \in IonMessages
  BY TypesAre DEF IonMessages
<1>3. /\ \A m : \A i \in Int : Holds(toIon', i, m)
            <=> Holds(toIon, i, m) \/ (i = n /\ m = "SaveYourself")
      /\ \A m : \A i \in Int : Holds(toIon, i, m) => i < n
      /\ n \in Int
  <2>1. /\ \A m : \A i \in Int : Holds(toIon, i, m) => i <= Len(toIon)
        /\ Len(toIon) \in Nat
        /\ \A m : \A i \in Int : Holds(toIon', i, m)
              <=> Holds(toIon, i, m) \/ (i = n /\ m = "SaveYourself")
    BY <1>1, <1>2, AppendHolds
  <2>. QED BY <2>1
<1>. HIDE DEF n
<1>4. \A i \in Int : /\ ~Holds(toIon, i, "SaveYourself")
                     /\ ~Holds(toIon, i, "SaveYourselfPhase2")
                     /\ ~HasKind(toMgr, i, "Done")
                     /\ ~HasKind(toMgr, i, "RequestPhase2")
  BY <1>1 DEF Conversation, AskedOnce, Phase2Once, DoneOnce, PhaseAsked, IonHas,
              MgrHas, Waits
<1>5. \A i \in Int : Holds(toIon, i, "ShutdownCancelled") => ion.answered
  BY <1>1 DEF Conversation, CancelKnown, IonHas, Waits
<1>6. \A i \in Int :
        /\ Holds(toIon', i, "SaveYourself") <=> i = n
        /\ ~Holds(toIon', i, "SaveYourselfPhase2")
        /\ Holds(toIon', i, "ShutdownCancelled") => i < n /\ ion.answered
  BY <1>3, <1>4, <1>5
<1>7. AskedOnce' /\ Phase2Once'
  BY <1>1, <1>3, <1>4, <1>6 DEF AskedOnce, Phase2Once, IonHas, MgrHas
<1>8. DoneOnce' /\ PhaseAsked'
  BY <1>1, <1>4 DEF DoneOnce, PhaseAsked, MgrHas
<1>9. AnswerIsSent' /\ Answered' /\ CancelKnown'
  BY <1>1, <1>3, <1>6 DEF AnswerIsSent, Answered, CancelKnown, IonHas, Waits
<1>. QED BY <1>7, <1>8, <1>9 DEF Conversation

LEMMA ConversationPhase2 ==
    ASSUME SessionTypeOK, Conversation, MgrPhase2
    PROVE  Conversation'
<1>. DEFINE n == Len(toIon) + 1
<1>1. /\ mgr.state = "willing" /\ ~mgr.cancelled /\ mgr'.state = "phase2"
      /\ mgr'.cancelled = mgr.cancelled
      /\ toIon' = Append(toIon, "SaveYourselfPhase2") /\ UNCHANGED <<ion, toMgr>>
  BY DEF MgrPhase2, Says, SessionTypeOK
<1>2. toIon \in Seq(IonMessages) /\ "SaveYourselfPhase2" \in IonMessages
  BY TypesAre DEF IonMessages
<1>3. /\ \A m : \A i \in Int : Holds(toIon', i, m)
            <=> Holds(toIon, i, m) \/ (i = n /\ m = "SaveYourselfPhase2")
      /\ n \in Int
  <2>1. /\ Len(toIon) \in Nat
        /\ \A m : \A i \in Int : Holds(toIon', i, m)
              <=> Holds(toIon, i, m) \/ (i = n /\ m = "SaveYourselfPhase2")
    BY <1>1, <1>2, AppendHolds
  <2>. QED BY <2>1
<1>. HIDE DEF n
<1>4. ~ion.answered
  BY <1>1 DEF Conversation, Answered
<1>5. \A i \in Int : /\ ~Holds(toIon, i, "SaveYourself")
                     /\ ~Holds(toIon, i, "SaveYourselfPhase2")
                     /\ ~HasKind(toMgr, i, "Done")
                     /\ ~HasKind(toMgr, i, "RequestPhase2")
  BY <1>1, <1>4 DEF Conversation, AskedOnce, Phase2Once, DoneOnce, PhaseAsked,
                    IonHas, MgrHas
<1>6. \A i \in Int : ~Holds(toIon, i, "ShutdownCancelled")
  BY <1>1, <1>4, <1>5 DEF Conversation, CancelKnown, IonHas, Waits
<1>7. \A i \in Int :
        /\ ~Holds(toIon', i, "SaveYourself")
        /\ Holds(toIon', i, "SaveYourselfPhase2") <=> i = n
        /\ ~Holds(toIon', i, "ShutdownCancelled")
  BY <1>3, <1>5, <1>6
<1>8. AskedOnce' /\ Phase2Once'
  BY <1>1, <1>4, <1>7 DEF AskedOnce, Phase2Once, IonHas
<1>9. DoneOnce' /\ PhaseAsked'
  BY <1>1, <1>5 DEF DoneOnce, PhaseAsked, MgrHas
<1>10. AnswerIsSent' /\ Answered' /\ CancelKnown'
  BY <1>1, <1>4, <1>7 DEF AnswerIsSent, Answered, CancelKnown, IonHas
<1>. QED BY <1>8, <1>9, <1>10 DEF Conversation

LEMMA ConversationCancels ==
    ASSUME SessionTypeOK, Conversation, MgrCancel
    PROVE  Conversation'
<1>. DEFINE n == Len(toIon) + 1
<1>1. /\ mgr.state # "idle" /\ mgr'.state = mgr.state /\ mgr'.cancelled = TRUE
      /\ toIon' = Append(toIon, "ShutdownCancelled") /\ UNCHANGED <<ion, toMgr>>
  BY DEF MgrCancel, Says, SessionTypeOK
<1>2. toIon \in Seq(IonMessages) /\ "ShutdownCancelled" \in IonMessages
      /\ mgr.state \in {"idle", "asked", "willing", "phase2", "done", "over"}
  BY TypesAre DEF IonMessages, MgrType
<1>3. /\ \A m : \A i \in Int : Holds(toIon', i, m)
            <=> Holds(toIon, i, m) \/ (i = n /\ m = "ShutdownCancelled")
      /\ \A m : \A i \in Int : Holds(toIon, i, m) => i < n
      /\ n \in Int
  <2>1. /\ \A m : \A i \in Int : Holds(toIon, i, m) => i <= Len(toIon)
        /\ Len(toIon) \in Nat
        /\ \A m : \A i \in Int : Holds(toIon', i, m)
              <=> Holds(toIon, i, m) \/ (i = n /\ m = "ShutdownCancelled")
    BY <1>1, <1>2, AppendHolds
  <2>. QED BY <2>1
<1>. HIDE DEF n
<1>4. \A i \in Int :
        /\ Holds(toIon', i, "SaveYourself") <=> Holds(toIon, i, "SaveYourself")
        /\ Holds(toIon', i, "SaveYourselfPhase2")
             <=> Holds(toIon, i, "SaveYourselfPhase2")
        /\ Holds(toIon', i, "ShutdownCancelled")
             <=> Holds(toIon, i, "ShutdownCancelled") \/ i = n
        /\ Holds(toIon, i, "SaveYourself")
             \/ Holds(toIon, i, "SaveYourselfPhase2") => i < n
  BY <1>3
<1>5. AskedOnce'
  BY <1>1, <1>3, <1>4 DEF Conversation, AskedOnce, IonHas, MgrHas
<1>6. Phase2Once'
  BY <1>1, <1>3, <1>4 DEF Conversation, Phase2Once, IonHas
<1>7. DoneOnce' /\ PhaseAsked' /\ Answered'
  BY <1>1 DEF Conversation, DoneOnce, PhaseAsked, Answered, MgrHas, Waits
<1>8. AnswerIsSent'
  BY <1>1, <1>4 DEF Conversation, AnswerIsSent, IonHas, MgrHas, Waits
<1>9. CancelKnown'
  BY <1>1, <1>2, <1>4 DEF Conversation, Answered, CancelKnown, IonHas, Waits
<1>. QED BY <1>5, <1>6, <1>7, <1>8, <1>9 DEF Conversation

LEMMA ConversationClosed ==
    ASSUME SessionTypeOK, Conversation, MgrEnd
    PROVE  Conversation'
<1>1. /\ mgr.state = "done" /\ mgr'.state \in {"idle", "over"}
      /\ UNCHANGED <<ion, toMgr>>
      /\ \/ toIon' = toIon
         \/ \E m \in {"Die", "SaveComplete"} : toIon' = Append(toIon, m)
  BY DEF MgrEnd, Says, Idle, SessionTypeOK
<1>2. toIon \in Seq(IonMessages) /\ {"Die", "SaveComplete"} \subseteq IonMessages
  BY TypesAre DEF IonMessages
<1>3. \A i \in Int :
        /\ Holds(toIon', i, "SaveYourself") <=> Holds(toIon, i, "SaveYourself")
        /\ Holds(toIon', i, "SaveYourselfPhase2")
             <=> Holds(toIon, i, "SaveYourselfPhase2")
        /\ Holds(toIon', i, "ShutdownCancelled")
             <=> Holds(toIon, i, "ShutdownCancelled")
  <2>1. ASSUME NEW m \in {"Die", "SaveComplete"}, toIon' = Append(toIon, m)
        PROVE  \A x : \A i \in Int : Holds(toIon', i, x)
                 <=> Holds(toIon, i, x) \/ (i = Len(toIon) + 1 /\ x = m)
    BY <1>2, <2>1, AppendHolds
  <2>. QED BY <1>1, <2>1
<1>4. \A i \in Int : /\ ~Holds(toIon, i, "SaveYourself")
                     /\ ~Holds(toIon, i, "SaveYourselfPhase2")
                     /\ ~HasKind(toMgr, i, "Done")
                     /\ ~HasKind(toMgr, i, "RequestPhase2")
  BY <1>1 DEF Conversation, AskedOnce, Phase2Once, DoneOnce, PhaseAsked, IonHas,
              MgrHas, Waits
<1>5. ion.answered
  BY <1>1 DEF Conversation, Answered
<1>. QED BY <1>1, <1>3, <1>4, <1>5
         DEF Conversation, AskedOnce, Phase2Once, DoneOnce, PhaseAsked,
             AnswerIsSent, Answered, CancelKnown, IonHas, MgrHas, Waits

LEMMA ConversationKept ==
    ASSUME SessionTypeOK, Conversation, [SessionNext]_sessionVars
    PROVE  Conversation'
<1>1. CASE Elsewhere
  <2>1. CASE UNCHANGED <<ion, mgr, toMgr, toIon>>
    BY <2>1 DEF Conversation, AskedOnce, Phase2Once, DoneOnce, PhaseAsked,
               AnswerIsSent, Answered, CancelKnown, IonHas, MgrHas, Waits
  <2>2. CASE ~ion.up /\ UNCHANGED <<mgr, toMgr, toIon>>
    <3>1. mgr'.state = "idle" /\ toIon' = <<>> /\ toMgr' = <<>>
      BY <2>2, TypesAre
    <3>. QED BY <3>1, NothingHeld
             DEF Conversation, AskedOnce, Phase2Once, DoneOnce, PhaseAsked,
                 AnswerIsSent, Answered, CancelKnown, IonHas, MgrHas, Waits
  <2>. QED BY <1>1, <2>1, <2>2 DEF Elsewhere
<1>2. CASE Leaving \/ Losing
  BY <1>2, ConversationEnds DEF Leaving, Leave, Losing
<1>3. ASSUME NEW what \in Wishes, AskSM(what) PROVE Conversation'
  <2>. DEFINE e == [kind |-> "Request", shutdown |-> Hook(what).shutdown]
  <2>1. e \in Messages /\ e.kind = "Request"
    BY HookIs, MessagesAre
  <2>2. /\ toMgr' = Append(toMgr, e) /\ toIon' = toIon /\ mgr' = mgr
        /\ ion'.answered = ion.answered
    BY <1>3 DEF AskSM, Hooked, SessionTypeOK
  <2>. HIDE DEF e
  <2>. QED BY <2>1, <2>2, ConversationAsked
<1>. QED BY <1>1, <1>2, <1>3, StepsAre, ConversationSaves, ConversationSaved,
            ConversationCancelled, ConversationFinished, ConversationRead,
            ConversationBegins, ConversationPhase2, ConversationCancels,
            ConversationClosed

-----------------------------------------------------------------------------
(* What is done in the end, and what the session manager was told.         *)

\* What a step does to what Ion remembers.
Remembers == /\ ion'.fn = ion.fn /\ ion'.wish = ion.wish
             /\ ion'.hint = ion.hint
LEMMA IonIs ==
    ASSUME SessionTypeOK, [SessionNext]_sessionVars
    PROVE  \/ ion'.fn = None /\ ion'.wish = None
           \/ Remembers /\ (ion'.conn => ion'.since = ion.since /\ ion.conn)
           \/ Remembers /\ \E how \in Hows : SaveYourselfPhase2(how)
           \/ \E what \in Wishes :
                 /\ ion'.fn = Hook(what).fn /\ ion'.wish = what
                 /\ ion'.hint = Hook(what).hint /\ ion'.since = FALSE
<1>1. ion \in IonType /\ ion.smhook \in BOOLEAN
  BY TypesAre DEF IonType
<1>2. CASE ion' = ion
  BY <1>2 DEF Remembers
<1>3. CASE Elsewhere /\ ion' # ion
  BY <1>1, <1>3, IdleIs DEF Elsewhere
<1>4. CASE Leaving
  BY <1>1, <1>4, IdleIs DEF Leaving, Leave
<1>5. CASE Losing
  <2>1. ion' = [ion EXCEPT !.conn = FALSE]
    BY <1>5 DEF Losing
  <2>2. Remembers /\ ~ion'.conn
    BY <1>1, <2>1 DEF IonType, Remembers
  <2>. QED BY <2>2
<1>6. CASE \E asked \in BOOLEAN : SaveYourself(asked)
  BY <1>1, <1>6 DEF SaveYourself, IonType, Remembers
<1>7. ASSUME NEW how \in Hows, SaveYourselfPhase2(how) PROVE Remembers
  BY <1>1, <1>7 DEF SaveYourselfPhase2, IonType, Remembers
<1>8. CASE ShutdownCancelled
  BY <1>1, <1>8 DEF ShutdownCancelled, IonType
<1>9. CASE Finishing \/ MgrRead \/ MgrPhase2 \/ MgrEnd \/ MgrCancel
  <2>1. ion' = ion
    BY <1>9 DEF Finishing, MgrRead, MgrPhase2, MgrEnd, MgrCancel
  <2>. QED BY <1>2, <2>1
<1>10. CASE \E b \in BOOLEAN : Beginning(b)
  BY <1>2, <1>10 DEF Beginning, MgrBegin
<1>11. ASSUME NEW what \in Wishes, AskSM(what)
       PROVE  /\ ion'.fn = Hook(what).fn /\ ion'.wish = what
              /\ ion'.hint = Hook(what).hint /\ ion'.since = FALSE
  BY <1>1, <1>11 DEF AskSM, Hooked, IonType
<1>. QED BY <1>2, <1>3, <1>4, <1>5, <1>6, <1>7, <1>8, <1>9, <1>10, <1>11, StepsAre

LEMMA WishKept ==
    ASSUME SessionTypeOK, WishIs, [SessionNext]_sessionVars
    PROVE  WishIs'
<1>1. None \notin {"exit", "restart"}
  BY SessionAssumption
<1>2. CASE ion'.fn = None /\ ion'.wish = None
  BY <1>1, <1>2 DEF WishIs
<1>3. CASE Remembers
  BY <1>3 DEF WishIs, Remembers
<1>4. ASSUME NEW what \in Wishes, ion'.fn = Hook(what).fn, ion'.wish = what,
             ion'.hint = Hook(what).hint
      PROVE  WishIs'
  BY <1>4, HookIs DEF WishIs
<1>. QED BY <1>2, <1>3, <1>4, IonIs

\* What the steps do to the messages to Ion and the session manager's state.
LEMMA ToIonIs ==
    ASSUME SessionTypeOK, Conversation, [SessionNext]_sessionVars
    PROVE  \/ toIon' = <<>>
           \/ toIon # <<>> /\ toIon' = Tail(toIon) /\ mgr' = mgr
           \/ toIon' = toIon /\ (mgr'.state \in {mgr.state, "idle"} \/ mgr.state # "idle")
           \/ toIon' = Append(toIon, "SaveYourself")
           \/ toIon' = Append(toIon, "SaveComplete") /\ mgr'.state = "idle"
           \/ /\ mgr.state # "idle"
              /\ \E m \in IonMessages \ {"SaveComplete"} : toIon' = Append(toIon, m)
<1>1. CASE Elsewhere \/ Leaving \/ Losing \/ Finishing
  BY <1>1 DEF Elsewhere, Leaving, Leave, Losing, Finishing, Hears, Heard
<1>2. CASE \/ \E asked \in BOOLEAN : SaveYourself(asked)
           \/ \E how \in Hows : SaveYourselfPhase2(how)
           \/ ShutdownCancelled
  BY <1>2 DEF SaveYourself, SaveYourselfPhase2, ShutdownCancelled, Hears, Heard
<1>3. CASE \E what \in Wishes : AskSM(what)
  BY <1>3 DEF AskSM
<1>4. CASE MgrRead
  <2>1. toIon' = toIon /\ toMgr # <<>> /\ toMgr \in Seq(Messages) /\ mgr \in MgrType
    BY <1>4, TypesAre DEF MgrRead
  <2>2. CASE Head(toMgr).kind \in {"RequestPhase2", "Done"}
    <3>1. HasKind(toMgr, 1, "RequestPhase2") \/ HasKind(toMgr, 1, "Done")
      BY <2>1, <2>2, TailKinds
    <3>. QED BY <2>1, <3>1 DEF Conversation, DoneOnce, PhaseAsked, MgrHas, Waits
  <2>3. CASE Head(toMgr).kind \notin {"RequestPhase2", "Done"}
    BY <1>4, <2>1, <2>3, MgrReadIs DEF MgrType
  <2>. QED BY <2>1, <2>2, <2>3
<1>5. CASE MgrPhase2 \/ MgrCancel
  BY <1>5 DEF MgrPhase2, MgrCancel, Says, IonMessages
<1>6. CASE MgrEnd
  BY <1>6 DEF MgrEnd, Says, Idle, IonMessages
<1>7. CASE \E b \in BOOLEAN : Beginning(b)
  BY <1>7 DEF Beginning, MgrBegin, Says
<1>. QED BY <1>1, <1>2, <1>3, <1>4, <1>5, <1>6, <1>7, StepsAre

LEMMA CompleteKept ==
    ASSUME SessionTypeOK, Conversation, CompleteWhenDone, [SessionNext]_sessionVars
    PROVE  CompleteWhenDone'
<1>1. toIon \in Seq(IonMessages)
  BY TypesAre
<1>2. CASE toIon' = <<>>
  BY <1>2, NothingHeld DEF CompleteWhenDone, IonHas
<1>3. CASE toIon # <<>> /\ toIon' = Tail(toIon) /\ mgr' = mgr
  <2>1. \A m : \A i \in Int : Holds(toIon', i, m)
             <=> i >= 1 /\ Holds(toIon, i + 1, m)
    BY <1>1, <1>3, TailHolds
  <2>2. ASSUME NEW j \in Int, Holds(toIon', j, "SaveComplete"), mgr.state # "idle"
        PROVE  \E i \in Int : i > j /\ Holds(toIon', i, "SaveYourself")
    <3>1. j >= 1 /\ j + 1 \in Int /\ Holds(toIon, j + 1, "SaveComplete")
      BY <2>1, <2>2
    <3>2. PICK i \in Int : i > j + 1 /\ Holds(toIon, i, "SaveYourself")
      BY <2>2, <3>1 DEF CompleteWhenDone, IonHas
    <3>3. i - 1 \in Int /\ i - 1 > j /\ i - 1 >= 1 /\ (i - 1) + 1 = i
      BY <3>1, <3>2
    <3>. QED BY <2>1, <3>2, <3>3
  <2>. QED BY <1>3, <2>2 DEF CompleteWhenDone, IonHas
<1>4. CASE /\ toIon' = toIon
           /\ mgr'.state \in {mgr.state, "idle"} \/ mgr.state # "idle"
  BY <1>4 DEF CompleteWhenDone, IonHas
<1>5. ASSUME NEW m \in IonMessages, toIon' = Append(toIon, m),
             m # "SaveYourself" => m # "SaveComplete" /\ mgr.state # "idle"
      PROVE  CompleteWhenDone'
  <2>. DEFINE n == Len(toIon) + 1
  <2>1. /\ \A x : \A i \in Int : Holds(toIon', i, x)
                <=> Holds(toIon, i, x) \/ (i = n /\ x = m)
        /\ \A x : \A i \in Int : Holds(toIon, i, x) => i <= Len(toIon)
        /\ Len(toIon) \in Nat
    BY <1>1, <1>5, AppendHolds
  <2>2. n \in Int /\ \A x : \A i \in Int : Holds(toIon, i, x) => n > i
    BY <2>1
  <2>. HIDE DEF n
  <2>3. \A j \in Int : Holds(toIon', j, "SaveComplete") => Holds(toIon, j, "SaveComplete")
    BY <1>5, <2>1
  <2>4. CASE m = "SaveYourself"
    BY <2>1, <2>2, <2>3, <2>4 DEF CompleteWhenDone, IonHas
  <2>5. CASE mgr.state # "idle"
    BY <2>1, <2>3, <2>5 DEF CompleteWhenDone, IonHas
  <2>. QED BY <1>5, <2>4, <2>5
<1>6. "SaveYourself" \in IonMessages
  BY DEF IonMessages
<1>7. CASE toIon' = Append(toIon, "SaveYourself")
  <2>1. PICK m \in IonMessages : m = "SaveYourself" /\ toIon' = Append(toIon, m)
    BY <1>6, <1>7
  <2>. QED BY <1>5, <2>1
<1>8. CASE mgr'.state = "idle"
  BY <1>8 DEF CompleteWhenDone
<1>9. CASE /\ mgr.state # "idle"
           /\ \E m \in IonMessages \ {"SaveComplete"} : toIon' = Append(toIon, m)
  BY <1>5, <1>9
<1>. QED BY <1>2, <1>3, <1>4, <1>7, <1>8, <1>9, ToIonIs

\* What the steps do to the messages to the session manager.
LEMMA ToMgrIs ==
    ASSUME SessionTypeOK, [SessionNext]_sessionVars
    PROVE  \/ toMgr' = <<>> /\ ~ion'.conn
           \/ UNCHANGED toMgr /\ mgr'.hint = mgr.hint
           \/ MgrRead
           \/ \E how \in Hows : SaveYourselfPhase2(how)
           \/ /\ UNCHANGED mgr
              /\ \E e \in Messages :
                    e.kind # "Properties" /\ toMgr' = Append(toMgr, e)
<1>1. toMgr \in Seq(Messages) /\ mgr \in MgrType
  BY TypesAre
<1>b. ion \in IonType /\ ion.smhook \in BOOLEAN
  BY TypesAre DEF IonType
<1>2. CASE Elsewhere \/ Finishing
  BY <1>2 DEF Elsewhere, Finishing
<1>a. CASE Leaving \/ Losing
  <2>1. toMgr' = <<>>
    BY <1>a DEF Leaving, Leave, Losing
  <2>2. ~ion'.conn
    <3>1. CASE Leaving
      BY <1>b, <3>1, IdleIs DEF Leaving, Leave
    <3>2. CASE Losing
      BY <1>b, <3>2 DEF Losing, IonType
    <3>. QED BY <1>a, <3>1, <3>2
  <2>. QED BY <2>1, <2>2
<1>3. ASSUME NEW asked \in BOOLEAN, SaveYourself(asked)
      PROVE  /\ UNCHANGED mgr
             /\ \E e \in Messages :
                   e.kind # "Properties" /\ toMgr' = Append(toMgr, e)
  <2>. DEFINE e == IF asked THEN [kind |-> "RequestPhase2"] ELSE Done(FALSE)
  <2>1. e \in Messages /\ e.kind # "Properties"
    BY MessagesAre
  <2>2. UNCHANGED mgr /\ toMgr' = Append(toMgr, e)
    BY <1>3 DEF SaveYourself
  <2>. HIDE DEF e
  <2>. QED BY <2>1, <2>2
<1>4. CASE ShutdownCancelled
  <2>. DEFINE d == Done(FALSE)
  <2>1. d \in Messages /\ d.kind # "Properties"
    BY MessagesAre
  <2>2. UNCHANGED mgr /\ toMgr' = toMgr \o (IF ion.answered THEN <<>> ELSE <<d>>)
    BY <1>4 DEF ShutdownCancelled, CancelledAnswer
  <2>. HIDE DEF d
  <2>3. toMgr' = toMgr \/ toMgr' = Append(toMgr, d)
    BY <1>1, <2>1, <2>2, ConcatOne
  <2>. QED BY <2>1, <2>2, <2>3
<1>5. ASSUME NEW what \in Wishes, AskSM(what)
      PROVE  /\ UNCHANGED mgr
             /\ \E e \in Messages :
                   e.kind # "Properties" /\ toMgr' = Append(toMgr, e)
  <2>. DEFINE e == [kind |-> "Request", shutdown |-> Hook(what).shutdown]
  <2>1. e \in Messages /\ e.kind # "Properties"
    BY HookIs, MessagesAre
  <2>2. UNCHANGED mgr /\ toMgr' = Append(toMgr, e)
    BY <1>5 DEF AskSM
  <2>. HIDE DEF e
  <2>. QED BY <2>1, <2>2
<1>6. CASE MgrPhase2 \/ MgrCancel \/ \E b \in BOOLEAN : Beginning(b)
  BY <1>1, <1>6 DEF MgrPhase2, MgrCancel, Beginning, MgrBegin, MgrType
<1>7. CASE MgrEnd
  BY <1>1, <1>7 DEF MgrEnd, Idle, MgrType
<1>. QED BY <1>2, <1>a, <1>3, <1>4, <1>5, <1>6, <1>7, StepsAre

\* The saved state is told before the answer (sm_save_yourself_phase2).
LEMMA SavedIs ==
    ASSUME SessionTypeOK, NEW how \in Hows, SaveYourselfPhase2(how)
    PROVE  /\ Len(toMgr) \in Nat /\ UNCHANGED mgr
           /\ \A k \in Int : HasKind(toMgr', k, "Properties") =>
                 \/ HasKind(toMgr, k, "Properties")
                 \/ k = Len(toMgr) + 1 /\ HasKind(toMgr', k + 1, "Done")
           /\ \A k \in Int : HasKind(toMgr, k, "Done") => HasKind(toMgr', k, "Done")
           /\ ion'.since => /\ HasKind(toMgr', Len(toMgr) + 1, "Properties")
                            /\ toMgr'[Len(toMgr) + 1].hint = ion'.hint
<1>. DEFINE ok == Succeeds(how)
            e == [kind |-> "Properties", hint |-> ion.hint]
            d == Done(ok)
            n == Len(toMgr) + 1
<1>1. /\ toMgr' = toMgr \o (IF ok THEN <<e>> ELSE <<>>) \o <<d>>
      /\ mgr' = mgr /\ ion'.since = ok /\ ion'.hint = ion.hint
  BY DEF SaveYourselfPhase2, SessionTypeOK
<1>2. toMgr \in Seq(Messages)
  BY TypesAre
<1>3. /\ e \in Messages /\ e.kind = "Properties" /\ e.hint = ion.hint
      /\ d \in Messages /\ d.kind = "Done"
  <2>1. ok \in BOOLEAN /\ ion.hint \in {"immediately", "ifRunning"}
    BY DEF Succeeds, SessionTypeOK
  <2>. HIDE DEF ok
  <2>. QED BY <2>1, MessagesAre
<1>. HIDE DEF e, d, ok
<1>4. CASE ok
  <2>. DEFINE s == Append(toMgr, e)
  <2>1. s \in Seq(Messages) /\ toMgr \o <<e>> = s /\ toMgr' = toMgr \o <<e>> \o <<d>>
    BY <1>1, <1>2, <1>3, <1>4, ConcatOne
  <2>2. Len(s) = n /\ n \in Int /\ Len(toMgr) \in Nat
    BY <1>2, <1>3
  <2>3. /\ \A m : \A k \in Int : HasKind(s, k, m)
              <=> HasKind(toMgr, k, m) \/ (k = n /\ m = "Properties")
        /\ s[n] = e
    BY <1>2, <1>3, AppendKinds
  <2>. HIDE DEF s
  <2>4. toMgr' = Append(s, d)
    BY <1>3, <2>1, ConcatOne
  <2>5. /\ \A m : \A k \in Int : HasKind(toMgr', k, m)
              <=> HasKind(s, k, m) \/ (k = Len(s) + 1 /\ m = "Done")
        /\ \A m : \A k \in Int : HasKind(s, k, m) => toMgr'[k] = s[k]
    <3>1. \A m : \A k \in Int : HasKind(toMgr', k, m)
            <=> HasKind(s, k, m) \/ (k = Len(s) + 1 /\ m = "Done")
      BY <1>3, <2>1, <2>4, AppendKinds
    <3>2. \A m : \A k \in Int : HasKind(s, k, m) => toMgr'[k] = s[k]
      BY <1>3, <2>1, <2>4, AppendKept
    <3>. QED BY <3>1, <3>2
  <2>. HIDE DEF n
  <2>6. /\ HasKind(toMgr', n, "Properties") /\ HasKind(toMgr', n + 1, "Done")
        /\ toMgr'[n] = e
    BY <2>2, <2>3, <2>5
  <2>7. \A k \in Int : HasKind(toMgr', k, "Properties") =>
          HasKind(toMgr, k, "Properties") \/ k = n
    BY <2>3, <2>5
  <2>8. \A k \in Int : HasKind(toMgr, k, "Done") => HasKind(toMgr', k, "Done")
    BY <2>3, <2>5
  <2>. QED BY <1>1, <1>3, <2>2, <2>6, <2>7, <2>8 DEF n
<1>5. CASE ~ok
  <2>1. toMgr' = Append(toMgr, d)
    <3>1. toMgr' = toMgr \o <<>> \o <<d>> /\ toMgr \o <<>> = toMgr
      BY <1>1, <1>2, <1>5
    <3>. QED BY <1>2, <1>3, <3>1, ConcatOne
  <2>2. /\ \A m : \A k \in Int : HasKind(toMgr', k, m)
              <=> HasKind(toMgr, k, m) \/ (k = Len(toMgr) + 1 /\ m = "Done")
        /\ Len(toMgr) \in Nat
    BY <1>2, <1>3, <2>1, AppendKinds
  <2>. QED BY <1>1, <1>5, <2>2
<1>. QED BY <1>4, <1>5

LEMMA PropertiesKept ==
    ASSUME SessionTypeOK, PropertiesFirst, [SessionNext]_sessionVars
    PROVE  PropertiesFirst'
<1>1. toMgr \in Seq(Messages)
  BY TypesAre
<1>2. CASE toMgr' = <<>> \/ UNCHANGED toMgr
  BY <1>2, NothingHeld DEF PropertiesFirst, MgrHas
<1>3. CASE MgrRead
  <2>1. \A x : \A k \in Int : HasKind(toMgr', k, x)
             <=> k >= 1 /\ HasKind(toMgr, k + 1, x)
    BY <1>1, <1>3, TailKinds DEF MgrRead
  <2>2. ASSUME NEW k \in Int, HasKind(toMgr', k, "Properties")
        PROVE  HasKind(toMgr', k + 1, "Done")
    <3>1. k >= 1 /\ k + 1 \in Int /\ HasKind(toMgr, k + 1, "Properties")
      BY <2>1, <2>2
    <3>2. HasKind(toMgr, (k + 1) + 1, "Done") /\ k + 1 >= 1
      BY <3>1 DEF PropertiesFirst, MgrHas
    <3>. QED BY <2>1, <3>1, <3>2
  <2>. QED BY <2>2 DEF PropertiesFirst, MgrHas
<1>4. ASSUME NEW how \in Hows, SaveYourselfPhase2(how) PROVE PropertiesFirst'
  BY <1>4, SavedIs DEF PropertiesFirst, MgrHas
<1>5. ASSUME NEW e \in Messages, e.kind # "Properties", toMgr' = Append(toMgr, e)
      PROVE  PropertiesFirst'
  <2>1. \A m : \A k \in Int : HasKind(toMgr', k, m)
          <=> HasKind(toMgr, k, m) \/ (k = Len(toMgr) + 1 /\ m = e.kind)
    BY <1>1, <1>5, AppendKinds
  <2>. QED BY <1>5, <2>1 DEF PropertiesFirst, MgrHas
<1>. QED BY <1>2, <1>3, <1>4, <1>5, ToMgrIs

LEMMA MgrTail ==
    ASSUME toMgr \in Seq(Messages), toMgr # <<>>, toMgr' = Tail(toMgr)
    PROVE  /\ \A x : \A k \in Int : HasKind(toMgr', k, x)
                 <=> k >= 1 /\ HasKind(toMgr, k + 1, x)
           /\ \A x : \A k \in Int :
                 HasKind(toMgr', k, x) => toMgr'[k] = toMgr[k + 1]
           /\ \A x : Head(toMgr).kind = x <=> HasKind(toMgr, 1, x)
           /\ \A x : \A k \in Int : HasKind(toMgr, k, x) => k >= 1
           /\ Head(toMgr) = toMgr[1]
<1>1. \A x : \A k \in Int : HasKind(toMgr', k, x)
        <=> k >= 1 /\ HasKind(toMgr, k + 1, x)
  BY TailKinds
<1>2. \A x : \A k \in Int : HasKind(toMgr', k, x) => toMgr'[k] = toMgr[k + 1]
  <2>1. \A i \in 1..Len(toMgr') : toMgr'[i] = toMgr[i + 1]
    OBVIOUS
  <2>. QED BY <2>1 DEF HasKind
<1>3. /\ \A x : Head(toMgr).kind = x <=> HasKind(toMgr, 1, x)
      /\ \A x : \A k \in Int : HasKind(toMgr, k, x) => k >= 1
      /\ Head(toMgr) = toMgr[1]
  BY TailKinds
<1>. QED BY <1>1, <1>2, <1>3

LEMMA MgrAppended ==
    ASSUME NEW e \in Messages, toMgr \in Seq(Messages), toMgr' = Append(toMgr, e)
    PROVE  /\ \A x : \A k \in Int : HasKind(toMgr', k, x)
                 <=> HasKind(toMgr, k, x) \/ (k = Len(toMgr) + 1 /\ x = e.kind)
           /\ \A x : \A k \in Int : HasKind(toMgr, k, x) => toMgr'[k] = toMgr[k]
<1>1. \A x : \A k \in Int : HasKind(toMgr', k, x)
        <=> HasKind(toMgr, k, x) \/ (k = Len(toMgr) + 1 /\ x = e.kind)
  BY AppendKinds
<1>2. \A x : \A k \in Int : HasKind(toMgr, k, x) => toMgr'[k] = toMgr[k]
  BY AppendKept
<1>. QED BY <1>1, <1>2

LEMMA HintKept ==
    ASSUME SessionTypeOK, Conversation, PropertiesFirst, HintKnown, [SessionNext]_sessionVars
    PROVE  HintKnown'
<1>. SUFFICES ASSUME ion'.conn, ion'.since, ion'.wish # None
              PROVE  \/ \E k \in Int : /\ HasKind(toMgr', k, "Properties")
                                       /\ toMgr'[k].hint = ion'.hint
                     \/ /\ mgr'.hint = ion'.hint
                        /\ \A k \in Int : ~HasKind(toMgr', k, "Properties")
  BY DEF HintKnown, MgrHas
<1>1. toMgr \in Seq(Messages) /\ mgr \in MgrType /\ ion \in IonType
  BY TypesAre
<1>2. CASE \E how \in Hows : SaveYourselfPhase2(how)
  <2>1. PICK how \in Hows : SaveYourselfPhase2(how)
    BY <1>2
  <2>2. Len(toMgr) + 1 \in Int
    BY <2>1, SavedIs
  <2>. QED BY <2>1, <2>2, SavedIs
<1>3. CASE ~\E how \in Hows : SaveYourselfPhase2(how)
  <2>1. ion.conn /\ ion.since /\ ion.wish # None /\ ion'.hint = ion.hint
    BY <1>3, IonIs DEF Remembers
  <2>2. \/ \E k \in Int : /\ HasKind(toMgr, k, "Properties")
                          /\ toMgr[k].hint = ion.hint
        \/ /\ mgr.hint = ion.hint
           /\ \A k \in Int : ~HasKind(toMgr, k, "Properties")
    BY <2>1 DEF HintKnown, MgrHas
  <2>4. CASE UNCHANGED toMgr /\ mgr'.hint = mgr.hint
    BY <2>1, <2>2, <2>4
  <2>5. ASSUME NEW e \in Messages, e.kind # "Properties",
               toMgr' = Append(toMgr, e), UNCHANGED mgr
        PROVE  \/ \E k \in Int : /\ HasKind(toMgr', k, "Properties")
                                 /\ toMgr'[k].hint = ion'.hint
               \/ /\ mgr'.hint = ion'.hint
                  /\ \A k \in Int : ~HasKind(toMgr', k, "Properties")
    <3>1. /\ \A x : \A k \in Int : HasKind(toMgr', k, x)
                <=> HasKind(toMgr, k, x) \/ (k = Len(toMgr) + 1 /\ x = e.kind)
          /\ \A x : \A k \in Int : HasKind(toMgr, k, x) => toMgr'[k] = toMgr[k]
      BY <1>1, <2>5, MgrAppended
    <3>. QED BY <2>1, <2>2, <2>5, <3>1
  <2>6. CASE MgrRead
    <3>1. /\ \A x : \A k \in Int : HasKind(toMgr', k, x)
                  <=> k >= 1 /\ HasKind(toMgr, k + 1, x)
          /\ \A x : \A k \in Int : HasKind(toMgr', k, x) => toMgr'[k] = toMgr[k + 1]
          /\ \A x : Head(toMgr).kind = x <=> HasKind(toMgr, 1, x)
          /\ \A x : \A k \in Int : HasKind(toMgr, k, x) => k >= 1
          /\ Head(toMgr) = toMgr[1]
      <4>1. toMgr # <<>> /\ toMgr' = Tail(toMgr)
        BY <2>6 DEF MgrRead
      <4>. QED BY <1>1, <4>1, MgrTail
    <3>2. CASE Head(toMgr).kind = "Properties"
      <4>1. HasKind(toMgr, 1, "Properties")
        BY <3>1, <3>2
      <4>2. ASSUME NEW n \in Int, HasKind(toMgr, n, "Properties") PROVE n = 1
        <5>1. HasKind(toMgr, n + 1, "Done") /\ HasKind(toMgr, 1 + 1, "Done")
          BY <4>1, <4>2 DEF PropertiesFirst, MgrHas
        <5>2. n + 1 \in Int /\ 1 + 1 \in Int
          OBVIOUS
        <5>3. n + 1 = 1 + 1
          BY <5>1, <5>2 DEF Conversation, DoneOnce, MgrHas
        <5>. QED BY <5>3
      <4>3. mgr' = [mgr EXCEPT !.hint = Head(toMgr).hint]
        BY <2>6, <3>2, MgrReadIs
      <4>4. mgr'.hint = toMgr[1].hint
        BY <1>1, <3>1, <4>3 DEF MgrType
      <4>. QED BY <2>1, <2>2, <3>1, <4>1, <4>2, <4>4
    <3>3. CASE Head(toMgr).kind # "Properties"
      <4>1. mgr'.hint = mgr.hint
        BY <1>1, <2>6, <3>3, MgrReadIs DEF MgrType
      <4>2. ASSUME NEW k \in Int, HasKind(toMgr, k, "Properties")
            PROVE  /\ k - 1 \in Int /\ HasKind(toMgr', k - 1, "Properties")
                   /\ toMgr'[k - 1] = toMgr[k]
        <5>1. k # 1
          BY <3>1, <3>3, <4>2
        <5>2. k - 1 \in Int /\ k - 1 >= 1 /\ (k - 1) + 1 = k
          BY <3>1, <4>2, <5>1
        <5>3. HasKind(toMgr', k - 1, "Properties")
          BY <3>1, <4>2, <5>2
        <5>. QED BY <3>1, <5>2, <5>3
      <4>3. \A k \in Int : HasKind(toMgr', k, "Properties") => HasKind(toMgr, k + 1, "Properties")
        BY <3>1
      <4>. QED BY <2>1, <2>2, <4>1, <4>2, <4>3
    <3>. QED BY <3>2, <3>3
  <2>. QED BY <1>3, <2>4, <2>5, <2>6, ToMgrIs
<1>. QED BY <1>2, <1>3

-----------------------------------------------------------------------------
(* The theorems.                                                           *)

LEMMA InvInit ==
    ASSUME SessionInit
    PROVE  SessionIInv
<1>1. PICK b \in BOOLEAN : ion = NotRunning(b)
  BY DEF SessionInit
<1>2. mgr = Idle /\ toMgr = <<>> /\ toIon = <<>>
  BY DEF SessionInit
<1>3. SessionTypeOK /\ ~ion.conn /\ ion.fn = None /\ ion.wish = None
  <2>1. /\ ion \in IonType /\ ~ion.conn /\ ion.fn = None /\ ion.wish = None
        /\ mgr \in MgrType /\ mgr.state = "idle"
    BY <1>1, <1>2, IdleIs
  <2>2. toMgr \in Seq(Messages) /\ toIon \in Seq(IonMessages)
    BY <1>2
  <2>. QED BY <1>2, <2>1, <2>2, TypesAre
<1>4. Conversation
  BY <1>2, IdleIs, NothingHeld
     DEF Conversation, AskedOnce, Phase2Once, DoneOnce, PhaseAsked,
         AnswerIsSent, Answered, CancelKnown, IonHas, MgrHas, Waits
<1>5. Told
  BY <1>2, <1>3, NothingHeld, SessionAssumption
     DEF Told, WishIs, CompleteWhenDone, PropertiesFirst, HintKnown, IonHas, MgrHas
<1>. QED BY <1>3, <1>4, <1>5 DEF SessionIInv

LEMMA InvNext ==
    ASSUME SessionIInv, [SessionNext]_sessionVars
    PROVE  SessionIInv'
<1>1. SessionTypeOK /\ Conversation /\ WishIs /\ CompleteWhenDone
      /\ PropertiesFirst /\ HintKnown
  BY DEF SessionIInv, Told
<1>. QED BY <1>1, TypeInvariant, ConversationKept, WishKept, CompleteKept,
            PropertiesKept, HintKept DEF SessionIInv, Told

\* One message at most of a kind.
LEMMA OneAtMost ==
    ASSUME NEW S, \A x \in S, y \in S : x = y
    PROVE  /\ IsFiniteSet(S) /\ Cardinality(S) \in {0, 1}
           /\ Cardinality(S) = 0 <=> S = {}
<1>1. CASE S = {}
  BY <1>1, FS_EmptySet
<1>2. CASE S # {}
  <2>1. PICK x \in S : S = {x}
    BY <1>2
  <2>2. IsFiniteSet({x}) /\ Cardinality({x}) = 1
    BY FS_Singleton
  <2>. QED BY <1>2, <2>1, <2>2
<1>. QED BY <1>1, <1>2

LEMMA InvAnswered ==
    ASSUME SessionIInv
    PROVE  AnsweredOnce
<1>. DEFINE A == {i \in DOMAIN toIon : toIon[i] = "SaveYourself"}
            G == {i \in DOMAIN toMgr : toMgr[i].kind = "Done"}
<1>1. SessionTypeOK /\ Conversation /\ DOMAIN toIon = 1..Len(toIon)
      /\ DOMAIN toMgr = 1..Len(toMgr) /\ Len(toIon) \in Nat /\ Len(toMgr) \in Nat
  BY DEF SessionIInv, SessionTypeOK
<1>2. A \subseteq Int /\ \A i \in Int : i \in A <=> Holds(toIon, i, "SaveYourself")
  BY <1>1 DEF Holds
<1>3. G \subseteq Int /\ \A i \in Int : i \in G <=> HasKind(toMgr, i, "Done")
  BY <1>1 DEF HasKind
<1>. HIDE DEF A, G
<1>4. \A x \in A, y \in A : x = y
  BY <1>1, <1>2 DEF Conversation, AskedOnce, IonHas
<1>5. \A x \in G, y \in G : x = y
  BY <1>1, <1>3 DEF Conversation, DoneOnce, MgrHas
<1>6. A = {} \/ G = {}
  BY <1>1, <1>2, <1>3 DEF Conversation, AskedOnce, IonHas, MgrHas
<1>7. ~Waits => A = {} /\ G = {}
  BY <1>1, <1>2, <1>3 DEF Conversation, AskedOnce, DoneOnce, IonHas, MgrHas, Waits
<1>8. Waits /\ A = {} /\ G = {} => ~ion.answered
  BY <1>1, <1>2, <1>3 DEF Conversation, AnswerIsSent, IonHas, MgrHas
<1>9. /\ Cardinality(A) \in {0, 1} /\ (Cardinality(A) = 0 <=> A = {})
      /\ Cardinality(G) \in {0, 1} /\ (Cardinality(G) = 0 <=> G = {})
  BY <1>4, <1>5, OneAtMost
<1>10. Cardinality(A) + Cardinality(G) <= IF Waits THEN 1 ELSE 0
  BY <1>6, <1>7, <1>9
<1>11. Waits /\ Cardinality(A) + Cardinality(G) = 0 => ~ion.answered
  BY <1>8, <1>9
<1>. QED BY <1>1, <1>10, <1>11 DEF AnsweredOnce, Waits, A, G

\* When the session manager says that the save is complete it has been told
\* what to do with a window manager that exits.
LEMMA InvLeaves ==
    ASSUME SessionIInv, SaveComplete, ion.fn # None
    PROVE  /\ ion.wish = IF ion.fn = "exit" THEN "restart" ELSE "other"
           /\ ion.since => mgr.hint = Hook(ion.wish).hint
<1>1. SessionTypeOK /\ Conversation /\ WishIs /\ CompleteWhenDone
      /\ PropertiesFirst /\ HintKnown
  BY DEF SessionIInv, Told
<1>2. /\ ion.fn \in {"exit", "restart"} /\ toIon # <<>>
      /\ Head(toIon) = "SaveComplete" /\ toIon \in Seq(IonMessages)
  BY <1>1, TypesAre DEF SaveComplete, Hears, IonType
<1>3. ion.conn /\ ion.wish # None
      /\ ion.wish = IF ion.fn = "exit" THEN "restart" ELSE "other"
  BY <1>1, <1>2, TypesAre, SessionAssumption DEF WishIs
<1>4. Holds(toIon, 1, "SaveComplete")
  BY <1>2, TailHolds
<1>5. mgr.state = "idle" \/ \E i \in Int : Holds(toIon, i, "SaveYourself")
  BY <1>1, <1>4 DEF CompleteWhenDone, IonHas
<1>6. \A k \in Int : ~HasKind(toMgr, k, "Done")
  BY <1>1, <1>5 DEF Conversation, AskedOnce, DoneOnce, IonHas, MgrHas, Waits
<1>7. \A k \in Int : ~HasKind(toMgr, k, "Properties")
  <2>1. \A k \in Int : k + 1 \in Int
    OBVIOUS
  <2>. QED BY <1>1, <1>6, <2>1 DEF PropertiesFirst, MgrHas
<1>8. ion.since => mgr.hint = ion.hint
  BY <1>1, <1>3, <1>7 DEF HintKnown, MgrHas
<1>. QED BY <1>1, <1>3, <1>8 DEF WishIs

-----------------------------------------------------------------------------
(* The layout.                                                             *)

\* The file says where x is to be.
Known(l, x) == l.file[x].place # None /\ x \notin l.moved
\* While a process runs: x is not managed, so it cannot have been there when
\* the file was loaded or written, or its code was not the file's.
Stray(l, x) == l.at[x] = None /\ Known(l, x)
StraysRecoded(l) == \A x \in Windows : Stray(l, x) => x \in l.recoded
\* Its match waits for it; no other takes it, and it takes no other's.
MatchesKept(l) ==
    \A x \in Windows : Stray(l, x) /\ Alone(x) =>
        /\ \E i \in DOMAIN l.matches : l.matches[i].win = x
        /\ \A i \in DOMAIN l.matches :
              l.matches[i].win = x => l.matches[i].place = l.file[x].place
CodesKept(l) ==
    \A x \in Windows : Known(l, x) /\ x \notin l.recoded =>
        x \in l.there /\ l.code[x] = l.file[x].code
PlacesKept(l, withSM) ==
    \A x \in Windows :
        /\ l.at[x] # None /\ Known(l, x)
        /\ x \notin l.recoded \/ (withSM /\ Alone(x))
        => l.at[x] = l.file[x].place
AllThere(l) == \A x \in Windows : l.at[x] # None => x \in l.there
Bound(l, up, withSM) ==
    /\ AllThere(l) /\ CodesKept(l) /\ PlacesKept(l, withSM)
    /\ up => StraysRecoded(l)
    /\ up /\ withSM => MatchesKept(l)
    /\ ~up => l.matches = <<>> /\ \A x \in Windows : l.at[x] = None

SavedEntry == [place : Places \cup {None}, code : Nat]
LayoutState ==
    [there : SUBSET Windows, at : [Windows -> Places \cup {None}],
     code : [Windows -> Nat], next : Nat \ {0}, file : [Windows -> SavedEntry],
     matches : Seq([win : Windows, place : Places]),
     moved : SUBSET Windows, recoded : SUBSET Windows]
InOrder(l, up, withSM) == l \in LayoutState /\ Bound(l, up, withSM)

LEMMA AloneIs ==
    ASSUME NEW x, Alone(x), NEW y \in Windows \ {x}
    PROVE  /\ Attr[x]["id"] = None \/ Attr[x]["id"] # Attr[y]["id"]
           /\ \/ Attr[x]["class"] = None \/ Attr[x]["class"] # Attr[y]["class"]
              \/ Attr[x]["cmd"] = None \/ Attr[x]["cmd"] # Attr[y]["cmd"]
              \/ Attr[x]["name"] = None \/ Attr[x]["name"] # Attr[y]["name"]
           /\ \/ Attr[x]["id"] # None /\ Attr[x]["role"] # None
              \/ Attr[x]["id"] # None /\ Attr[x]["class"] # None
              \/ /\ Attr[x]["class"] # None /\ Attr[x]["cmd"] # None
                 /\ Attr[x]["name"] # None
BY DEF Alone

LEMMA AloneHas ==
    ASSUME NEW x, Alone(x)
    PROVE  \/ Attr[x]["id"] # None /\ Attr[x]["role"] # None
           \/ Attr[x]["id"] # None /\ Attr[x]["class"] # None
           \/ /\ Attr[x]["class"] # None /\ Attr[x]["cmd"] # None
              /\ Attr[x]["name"] # None
BY DEF Alone

\* mod_sm_match_cwin_to_saved takes one like no other for itself,
LEMMA MatchesSelf ==
    ASSUME NEW x, Alone(x)
    PROVE  Matches(Attr[x], Attr[x])
BY AloneHas DEF Matches

\* and for nothing else.
LEMMA MatchesNoOther ==
    ASSUME NEW x \in Windows, NEW y \in Windows, x # y, Alone(x)
    PROVE  ~Matches(Attr[x], Attr[y]) /\ ~Matches(Attr[y], Attr[x])
BY AloneIs DEF Matches

LEMMA ConfiguredIs ==
    ASSUME NEW l \in LayoutState, NEW S \in SUBSET Windows
    PROVE  /\ Configured(l, S) \in LayoutState
           /\ Configured(l, S).there = l.there /\ Configured(l, S).at = l.at
           /\ Configured(l, S).file = l.file /\ Configured(l, S).matches = l.matches
           /\ Configured(l, S).moved = l.moved
           /\ l.recoded \subseteq Configured(l, S).recoded
           /\ \A x \in Windows : Configured(l, S).code[x] # l.code[x]
                                    => x \in Configured(l, S).recoded
<1>. DEFINE s == SetToSeq(S)
            N == Len(s)
            coded(q, x) == [q EXCEPT !.code[x] = q.next, !.next = @ + 1,
                                     !.recoded = @ \cup {x}]
            step == [k \in 1..N |-> [q \in LayoutState |-> coded(q, s[k])]]
            Body(f) == [k \in 0..N |-> IF k = 0 THEN l ELSE coded(f[k - 1], s[k])]
            after == CHOOSE f : f = Body(f)
<1>1. N \in Nat /\ \A k \in 1..N : s[k] \in Windows
  <2>1. IsFiniteSet(S)
    BY LayoutAssumption, FS_Subset
  <2>2. Cardinality(S) \in Nat /\ ExistsBijection(1..Cardinality(S), S)
    BY <2>1, FS_CardinalityType
  <2>3. PICK f : f \in Bijection(1..Cardinality(S), S)
    BY <2>2 DEF ExistsBijection
  <2>4. f \in [1..Cardinality(S) -> S] /\ IsInjective(f)
    BY <2>3 DEF Bijection, Injection, IsInjective
  <2>5. s \in [1..Cardinality(S) -> S]
    BY <2>4 DEF SetToSeq
  <2>. QED BY <2>2, <2>5
<1>2. Configured(l, S) = after[N]
  BY DEF Configured
<1>. HIDE DEF s
<1>3. ASSUME NEW q \in LayoutState, NEW x \in Windows
      PROVE  /\ coded(q, x) \in LayoutState
             /\ coded(q, x).there = q.there /\ coded(q, x).at = q.at
             /\ coded(q, x).file = q.file /\ coded(q, x).matches = q.matches
             /\ coded(q, x).moved = q.moved
             /\ coded(q, x).recoded = q.recoded \cup {x}
             /\ \A y \in Windows \ {x} : coded(q, x).code[y] = q.code[y]
  <2>1. /\ q.code \in [Windows -> Nat] /\ q.next \in Nat /\ q.recoded \in SUBSET Windows
        /\ q.next + 1 \in Nat \ {0}
    BY <1>3 DEF LayoutState
  <2>2. /\ [q.code EXCEPT ![x] = q.next] \in [Windows -> Nat]
        /\ \A y \in Windows \ {x} : [q.code EXCEPT ![x] = q.next][y] = q.code[y]
    BY <2>1
  <2>3. coded(q, x) = [q EXCEPT !.code = [q.code EXCEPT ![x] = q.next], !.next = q.next + 1,
                                !.recoded = q.recoded \cup {x}]
    BY <1>3 DEF LayoutState
  <2>. DEFINE c == [q.code EXCEPT ![x] = q.next]
              n == q.next + 1
              R == q.recoded \cup {x}
  <2>4. c \in [Windows -> Nat] /\ n \in Nat \ {0} /\ R \in SUBSET Windows
        /\ \A y \in Windows \ {x} : c[y] = q.code[y]
    BY <2>1, <2>2
  <2>5. coded(q, x) = [q EXCEPT !.code = c, !.next = n, !.recoded = R]
    BY <2>3
  <2>. HIDE DEF coded, c, n
  <2>6. /\ coded(q, x) \in LayoutState
        /\ coded(q, x).code = c /\ coded(q, x).recoded = R
        /\ coded(q, x).there = q.there /\ coded(q, x).at = q.at
        /\ coded(q, x).file = q.file /\ coded(q, x).matches = q.matches
        /\ coded(q, x).moved = q.moved
    <3>. HIDE DEF R
    <3>. QED BY <1>3, <2>4, <2>5 DEF LayoutState
  <2>. QED BY <2>4, <2>6
<1>4. step \in [1..N -> [LayoutState -> LayoutState]]
  BY <1>1, <1>3
<1>5. PICK f \in [0..N -> LayoutState] : Recurs(f, N, l, step)
  <2>. HIDE DEF step
  <2>. QED BY <1>1, <1>4, RecursionExists
<1>6. f = Body(f)
  <2>1. f[0] = l /\ \A k \in 1..N : f[k] = coded(f[k - 1], s[k])
    <3>1. ASSUME NEW k \in 1..N PROVE f[k] = coded(f[k - 1], s[k])
      <4>1. f[k - 1] \in LayoutState /\ f[k] = step[k][f[k - 1]]
        <5>. HIDE DEF step
        <5>. QED BY <1>1, <1>5 DEF Recurs
      <4>. QED BY <4>1
    <3>. QED BY <1>5, <3>1 DEF Recurs
  <2>. HIDE DEF coded
  <2>2. \A k \in 0..N : f[k] = Body(f)[k]
    BY <1>1, <2>1
  <2>. QED BY <2>2
<1>7. after = Body(after)
  <2>. HIDE DEF Body
  <2>. QED BY <1>6
<1>. DEFINE Good(q) == /\ q \in LayoutState
                       /\ q.there = l.there /\ q.at = l.at /\ q.file = l.file
                       /\ q.matches = l.matches /\ q.moved = l.moved
                       /\ l.recoded \subseteq q.recoded
                       /\ \A x \in Windows : q.code[x] # l.code[x] => x \in q.recoded
            T == {n \in 0..N : Good(after[n])}
<1>8. after[0] = l /\ \A k \in 1..N : after[k] = coded(after[k - 1], s[k])
  <2>. HIDE DEF after, coded
  <2>. QED BY <1>1, <1>7
<1>. HIDE DEF after
<1>9. 0 \in T
  <2>1. Good(l)
    OBVIOUS
  <2>2. Good(after[0])
    <3>. HIDE DEF Good
    <3>. QED BY <1>8, <2>1
  <2>. HIDE DEF Good
  <2>. QED BY <1>1, <2>2
<1>10. ASSUME NEW n \in 1..N, n - 1 \in T PROVE n \in T
  <2>1. Good(after[n - 1]) /\ s[n] \in Windows
    BY <1>1, <1>10
  <2>2. Good(coded(after[n - 1], s[n]))
    <3>. DEFINE q == after[n - 1]
    <3>. HIDE DEF q, coded
    <3>1. Good(q)
      BY <2>1 DEF q
    <3>2. Good(coded(q, s[n]))
      BY <2>1, <3>1, <1>3
    <3>. QED BY <3>2 DEF q
  <2>3. after[n] = coded(after[n - 1], s[n])
    <3>. HIDE DEF coded
    <3>. QED BY <1>8, <1>10
  <2>. HIDE DEF coded, Good
  <2>. QED BY <2>2, <2>3
<1>11. N \in T
  <2>. HIDE DEF T
  <2>1. \A n \in 1..N : n - 1 \in T => n \in T
    BY <1>10
  <2>2. \A n \in 0..N : n \in T
    BY <1>1, <1>9, <2>1, Induction
  <2>. QED BY <1>1, <2>2
<1>. QED BY <1>2, <1>11

LEMMA SavedKeeps ==
    ASSUME NEW withSM \in BOOLEAN, NEW how \in Hows, NEW l, InOrder(l, TRUE, withSM)
    PROVE  InOrder(Saved(l, how), TRUE, withSM)
<1>. DEFINE q == Configured(l, Managed(l))
            r == Saved(l, how)
            saved(x) == IF l.at[x] = None THEN NotSaved
                        ELSE [place |-> q.at[x], code |-> q.code[x]]
            file == [x \in Windows |-> IF how = "good" THEN saved(x) ELSE NotSaved]
<1>1. /\ q \in LayoutState /\ q.there = l.there /\ q.at = l.at /\ q.file = l.file
      /\ q.matches = l.matches /\ q.moved = l.moved
      /\ l.recoded \subseteq q.recoded
      /\ \A x \in Windows : q.code[x] # l.code[x] => x \in q.recoded
  <2>1. Managed(l) \in SUBSET Windows
    BY DEF Managed
  <2>. QED BY <2>1, ConfiguredIs DEF InOrder
<1>2. r = IF how = "kept" THEN q ELSE [q EXCEPT !.file = file, !.moved = {}, !.recoded = {}]
  BY DEF Saved
<1>. HIDE DEF q, r
<1>3. CASE how = "kept"
  <2>1. r = q
    BY <1>2, <1>3
  <2>. QED BY <1>1, <2>1 DEF r, InOrder, Bound, AllThere, CodesKept, PlacesKept,
              StraysRecoded, MatchesKept, Stray, Known
<1>4. CASE how # "kept"
  <2>1. file \in [Windows -> SavedEntry]
    BY <1>1 DEF LayoutState, NotSaved, SavedEntry
  <2>2. \A x \in Windows : file[x].place # None =>
           l.at[x] # None /\ file[x].place = q.at[x] /\ file[x].code = q.code[x]
    BY DEF NotSaved
  <2>. HIDE DEF file
  <2>3. /\ r \in LayoutState /\ r.there = q.there /\ r.at = q.at /\ r.code = q.code
        /\ r.matches = q.matches /\ r.file = file /\ r.moved = {} /\ r.recoded = {}
    BY <1>1, <1>2, <1>4, <2>1 DEF LayoutState
  <2>. QED BY <1>1, <2>2, <2>3 DEF r, InOrder, Bound, AllThere, CodesKept, PlacesKept,
              StraysRecoded, MatchesKept, Stray, Known
<1>. QED BY <1>3, <1>4

LEMMA ConfiguredKeeps ==
    ASSUME NEW withSM \in BOOLEAN, NEW S \in SUBSET Windows, NEW l, InOrder(l, TRUE, withSM)
    PROVE  InOrder(Configured(l, S), TRUE, withSM)
<1>. DEFINE q == Configured(l, S)
<1>1. /\ q \in LayoutState /\ q.there = l.there /\ q.at = l.at /\ q.file = l.file
      /\ q.matches = l.matches /\ q.moved = l.moved
      /\ l.recoded \subseteq q.recoded
      /\ \A x \in Windows : q.code[x] # l.code[x] => x \in q.recoded
  BY ConfiguredIs DEF InOrder
<1>. HIDE DEF q
<1>. QED BY <1>1 DEF q, InOrder, Bound, AllThere, CodesKept, PlacesKept,
              StraysRecoded, MatchesKept, Stray, Known

LEMMA EndedKeeps ==
    ASSUME NEW up \in BOOLEAN, NEW withSM \in BOOLEAN, NEW l, InOrder(l, up, withSM)
    PROVE  InOrder(Ended(l), FALSE, withSM)
<1>. DEFINE q == Ended(l)
            at == [x \in Windows |-> None]
<1>1. at \in [Windows -> Places \cup {None}] /\ \A x \in Windows : at[x] = None
  OBVIOUS
<1>2. q = [l EXCEPT !.at = at, !.matches = <<>>]
  BY DEF Ended
<1>. HIDE DEF q, at
<1>3. /\ q \in LayoutState /\ q.there = l.there /\ q.at = at /\ q.file = l.file
      /\ q.matches = <<>> /\ q.moved = l.moved /\ q.recoded = l.recoded
      /\ q.code = l.code
  <2>1. <<>> \in Seq([win : Windows, place : Places])
    OBVIOUS
  <2>. QED BY <1>1, <1>2, <2>1 DEF InOrder, LayoutState
<1>. QED BY <1>1, <1>3 DEF q, InOrder, Bound, AllThere, CodesKept, PlacesKept,
              Stray, Known

LEMMA ClosedKeeps ==
    ASSUME NEW up \in BOOLEAN, NEW withSM \in BOOLEAN, NEW x \in Windows,
           NEW l, InOrder(l, up, withSM)
    PROVE  InOrder(Closed(l, x), up, withSM)
<1>. DEFINE q == Closed(l, x)
<1>1. /\ q \in LayoutState /\ q.there = l.there \ {x} /\ q.file = l.file
      /\ q.matches = l.matches /\ q.moved = l.moved \cup {x} /\ q.recoded = l.recoded
      /\ \A y \in Windows : y # x => q.code[y] = l.code[y] /\ q.at[y] = l.at[y]
      /\ q.at[x] = None
  BY DEF InOrder, LayoutState, Closed
<1>. HIDE DEF q
<1>. QED BY <1>1 DEF q, InOrder, Bound, AllThere, CodesKept, PlacesKept,
              StraysRecoded, MatchesKept, Stray, Known

LEMMA MovedKeeps ==
    ASSUME NEW up \in BOOLEAN, NEW withSM \in BOOLEAN, NEW x \in Windows,
           NEW p \in Places, NEW l, InOrder(l, up, withSM), l.at[x] # None
    PROVE  InOrder(MovedTo(l, x, p), up, withSM)
<1>. DEFINE q == MovedTo(l, x, p)
<1>1. /\ q \in LayoutState /\ q.there = l.there /\ q.file = l.file
      /\ q.matches = l.matches /\ q.moved = l.moved \cup {x} /\ q.recoded = l.recoded
      /\ q.code = l.code
      /\ \A y \in Windows : y # x => q.at[y] = l.at[y]
      /\ q.at[x] = p
  BY DEF InOrder, LayoutState, MovedTo
<1>. HIDE DEF q
<1>. QED BY <1>1, LayoutAssumption DEF q, InOrder, Bound, AllThere, CodesKept, PlacesKept,
              StraysRecoded, MatchesKept, Stray, Known

LEMMA LoggedOutKeeps ==
    ASSUME NEW withSM \in BOOLEAN, NEW l, InOrder(l, FALSE, withSM)
    PROVE  InOrder(LoggedOut(l), FALSE, withSM)
<1>. DEFINE q == LoggedOut(l)
            code == [x \in Windows |-> 0]
<1>1. code \in [Windows -> Nat]
  OBVIOUS
<1>2. q = [l EXCEPT !.there = {}, !.code = code, !.recoded = Windows]
  BY DEF LoggedOut
<1>. HIDE DEF q, code
<1>3. /\ q \in LayoutState /\ q.there = {} /\ q.at = l.at /\ q.file = l.file
      /\ q.matches = l.matches /\ q.moved = l.moved /\ q.recoded = Windows
  BY <1>1, <1>2 DEF InOrder, LayoutState
<1>. QED BY <1>3 DEF q, InOrder, Bound, AllThere, CodesKept, PlacesKept, Stray, Known

\* What is left of a list without its element at a place
LEMMA RemoveAtLeaves ==
    ASSUME NEW S, NEW s \in Seq(S), NEW at \in 1 .. Len(s)
    PROVE  /\ \A i \in DOMAIN RemoveAt(s, at) : \E j \in DOMAIN s : RemoveAt(s, at)[i] = s[j]
           /\ \A j \in DOMAIN s : j # at =>
                  \E i \in DOMAIN RemoveAt(s, at) : RemoveAt(s, at)[i] = s[j]
<1>1. /\ RemoveAt(s, at) \in Seq(S) /\ Len(RemoveAt(s, at)) = Len(s) - 1
      /\ \A i \in 1 .. Len(s) - 1 :
            RemoveAt(s, at)[i] = IF i < at THEN s[i] ELSE s[i + 1]
  BY RemoveAtElements
<1>2. DOMAIN RemoveAt(s, at) = 1 .. Len(s) - 1 /\ DOMAIN s = 1 .. Len(s) /\ Len(s) \in Nat
  BY <1>1
<1>3. ASSUME NEW i \in 1 .. Len(s) - 1
      PROVE  \E j \in DOMAIN s : RemoveAt(s, at)[i] = s[j]
  <2>1. i \in DOMAIN s /\ i + 1 \in DOMAIN s
    BY <1>2
  <2>. QED BY <1>1, <2>1
<1>4. ASSUME NEW j \in DOMAIN s, j # at
      PROVE  \E i \in 1 .. Len(s) - 1 : RemoveAt(s, at)[i] = s[j]
  <2>1. CASE j < at
    <3>1. j \in 1 .. Len(s) - 1
      BY <1>2, <2>1
    <3>. QED BY <1>1, <2>1, <3>1
  <2>2. CASE j > at
    <3>1. j - 1 \in 1 .. Len(s) - 1 /\ ~(j - 1 < at) /\ j - 1 + 1 = j
      BY <1>2, <2>2
    <3>. QED BY <1>1, <3>1
  <2>. QED BY <1>2, <1>4, <2>1, <2>2
<1>. QED BY <1>2, <1>3, <1>4

LEMMA MinIs ==
    ASSUME NEW n \in Nat, NEW S \in SUBSET (1 .. n), S # {}
    PROVE  Min(S) \in S
<1>1. IsFiniteSet(S) /\ S \in SUBSET Int
  <2>1. IsFiniteSet(1 .. n)
    BY FS_Interval
  <2>2. S \in SUBSET (1 .. n) /\ 1 .. n \subseteq Int
    OBVIOUS
  <2>3. IsFiniteSet(S)
    BY <2>1, <2>2, FS_Subset
  <2>. QED BY <2>2, <2>3
<1>. QED BY <1>1, LeastInt DEF Min

CameIn(q, l, x, withSM) ==
    /\ InOrder(q, TRUE, withSM) /\ q.there = l.there
    /\ q.at[x] # None /\ \A y \in Windows : y # x => q.at[y] = l.at[y]

\* A window that comes is managed, at its own place if that is known, and the
\* other windows' matches are left for them.
LEMMA ManagedNowKeeps ==
    ASSUME NEW withSM \in BOOLEAN, NEW x \in Windows, NEW l, InOrder(l, TRUE, withSM),
           x \in l.there, l.at[x] = None, NEW q \in ManagedNow(l, x)
    PROVE  CameIn(q, l, x, withSM)
<1>. DEFINE fit == {i \in DOMAIN l.matches : Matches(Attr[l.matches[i].win], Attr[x])}
            p == q.at[x]
            M == [win : Windows, place : Places]
<1>1. /\ l \in LayoutState /\ l.matches \in Seq(M) /\ DOMAIN l.matches = 1 .. Len(l.matches)
      /\ Len(l.matches) \in Nat
      /\ \A i \in DOMAIN l.matches : l.matches[i].win \in Windows /\ l.matches[i].place \in Places
      /\ StraysRecoded(l) /\ (withSM => MatchesKept(l))
      /\ AllThere(l) /\ CodesKept(l) /\ PlacesKept(l, withSM)
  <2>1. l \in LayoutState /\ Bound(l, TRUE, withSM)
    BY DEF InOrder
  <2>2. l.matches \in Seq(M)
    BY <2>1 DEF LayoutState
  <2>3. \A i \in DOMAIN l.matches : l.matches[i] \in M
    <3>. DEFINE s == l.matches
    <3>1. s \in Seq(M)
      BY <2>2
    <3>. HIDE DEF s, M
    <3>2. \A i \in DOMAIN s : s[i] \in M
      BY <3>1
    <3>. QED BY <3>2 DEF s
  <2>. QED BY <2>1, <2>2, <2>3 DEF Bound
<1>2. /\ q \in LayoutState /\ q.there = l.there /\ q.code = l.code /\ q.file = l.file
      /\ q.moved = l.moved /\ q.recoded = l.recoded /\ p \in Places
      /\ \A y \in Windows : y # x => q.at[y] = l.at[y]
      /\ \/ q.matches = l.matches /\ fit = {}
         \/ \E i \in fit : /\ p = l.matches[i].place
                           /\ q.matches = RemoveAt(l.matches, i)
  <2>1. CASE fit = {}
    <3>1. PICK d \in Defaults : q = [l EXCEPT !.at[x] = d]
      BY <2>1 DEF ManagedNow
    <3>2. d \in Places
      BY LayoutAssumption
    <3>. HIDE DEF fit
    <3>. QED BY <1>1, <2>1, <3>1, <3>2 DEF LayoutState
  <2>2. CASE fit # {}
    <3>1. q = Matched(l, x, Min(fit))
      BY <2>2 DEF ManagedNow
    <3>2. Min(fit) \in fit
      <4>1. fit \in SUBSET (1 .. Len(l.matches))
        BY <1>1
      <4>. HIDE DEF fit
      <4>. QED BY <1>1, <2>2, <4>1, MinIs
    <3>3. PICK i : i \in fit /\ q = Matched(l, x, i) /\ i \in 1 .. Len(l.matches)
      BY <1>1, <3>1, <3>2
    <3>. DEFINE r == RemoveAt(l.matches, i)
                d == l.matches[i].place
    <3>4. r \in Seq(M) /\ d \in Places
      BY <1>1, <3>3, RemoveAtElements
    <3>5. q = [l EXCEPT !.at[x] = d, !.matches = r]
      BY <3>3 DEF Matched
    <3>. HIDE DEF fit, r, d
    <3>6. /\ q \in LayoutState /\ q.there = l.there /\ q.code = l.code /\ q.file = l.file
          /\ q.moved = l.moved /\ q.recoded = l.recoded /\ q.at[x] = d
          /\ \A y \in Windows : y # x => q.at[y] = l.at[y]
          /\ q.matches = r
      BY <1>1, <3>4, <3>5 DEF LayoutState
    <3>. QED BY <3>3, <3>4, <3>6 DEF r, d
  <2>. QED BY <2>1, <2>2
<1>. DEFINE c == p
<1>3. Known(l, x) /\ (x \notin l.recoded \/ (withSM /\ Alone(x))) => p = l.file[x].place
  <2>. SUFFICES ASSUME Known(l, x), x \notin l.recoded \/ (withSM /\ Alone(x))
                PROVE  p = l.file[x].place
    OBVIOUS
  <2>1. Stray(l, x) /\ x \in l.recoded
    BY <1>1 DEF Stray, StraysRecoded
  <2>2. withSM /\ Alone(x)
    BY <2>1
  <2>3. /\ \E i \in DOMAIN l.matches : l.matches[i].win = x
        /\ \A i \in DOMAIN l.matches :
              l.matches[i].win = x => l.matches[i].place = l.file[x].place
    BY <1>1, <2>1, <2>2 DEF MatchesKept
  <2>4. fit # {}
    BY <2>2, <2>3, MatchesSelf
  <2>5. \A i \in fit : l.matches[i].win = x
    BY <1>1, <2>2, MatchesNoOther
  <2>. HIDE DEF p
  <2>. QED BY <1>2, <2>3, <2>4, <2>5
<1>4. withSM => MatchesKept(q)
  <2>. SUFFICES ASSUME withSM, NEW z \in Windows, Stray(q, z), Alone(z)
                PROVE  /\ \E i \in DOMAIN q.matches : q.matches[i].win = z
                       /\ \A i \in DOMAIN q.matches :
                             q.matches[i].win = z => q.matches[i].place = q.file[z].place
    BY DEF MatchesKept
  <2>1. z # x /\ Stray(l, z) /\ q.file[z] = l.file[z]
    BY <1>2, LayoutAssumption DEF Stray, Known
  <2>2. /\ \E i \in DOMAIN l.matches : l.matches[i].win = z
        /\ \A i \in DOMAIN l.matches :
              l.matches[i].win = z => l.matches[i].place = l.file[z].place
    BY <1>1, <2>1 DEF MatchesKept
  <2>3. CASE q.matches = l.matches
    BY <2>1, <2>2, <2>3
  <2>4. ASSUME NEW i \in fit, q.matches = RemoveAt(l.matches, i)
        PROVE  /\ \E j \in DOMAIN q.matches : q.matches[j].win = z
               /\ \A j \in DOMAIN q.matches :
                     q.matches[j].win = z => q.matches[j].place = q.file[z].place
    <3>1. /\ \A k \in DOMAIN q.matches : \E j \in DOMAIN l.matches : q.matches[k] = l.matches[j]
          /\ \A j \in DOMAIN l.matches : j # i =>
                \E k \in DOMAIN q.matches : q.matches[k] = l.matches[j]
      BY <1>1, <2>4, RemoveAtLeaves, SMTT(60)
    <3>2. l.matches[i].win # z
      BY <1>1, <2>1, <2>4, MatchesNoOther
    <3>. HIDE DEF fit
    <3>. QED BY <2>1, <2>2, <3>1, <3>2
  <2>. HIDE DEF fit
  <2>. QED BY <1>2, <2>3, <2>4
<1>. HIDE DEF fit
<1>5. AllThere(q) /\ CodesKept(q) /\ StraysRecoded(q)
  BY <1>1, <1>2 DEF AllThere, CodesKept, StraysRecoded, Stray, Known
<1>6. PlacesKept(q, withSM)
  BY <1>1, <1>2, <1>3 DEF PlacesKept, Known
<1>. QED BY <1>2, <1>4, <1>5, <1>6, LayoutAssumption DEF CameIn, InOrder, Bound

\* All of a finite set are in each of its sequences, each once.
LEMMA SequencesOf ==
    ASSUME NEW S, IsFiniteSet(S), NEW s \in SetToSeqs(S)
    PROVE  /\ s \in [1 .. Len(s) -> S] /\ Len(s) \in Nat
           /\ \A x \in S : \E i \in 1 .. Len(s) : s[i] = x
           /\ \A i \in 1 .. Len(s), j \in 1 .. Len(s) : i # j => s[i] # s[j]
<1>. DEFINE n == Cardinality(S)
<1>1. /\ n \in Nat /\ s \in [1 .. n -> S]
      /\ \A i \in 1 .. n, j \in 1 .. n : i # j => s[i] # s[j]
  BY FS_CardinalityType DEF SetToSeqs
<1>2. Len(s) = n
  BY <1>1
<1>3. s \in Injection(1 .. n, S)
  BY <1>1 DEF Injection, IsInjective
<1>4. Cardinality(1 .. n) = n
  BY <1>1, FS_Interval
<1>. HIDE DEF n
<1>5. s \in Surjection(1 .. n, S)
  BY <1>3, <1>4, FS_Injection DEF n
<1>. QED BY <1>1, <1>2, <1>5 DEF Surjection

\* The windows that are found by their codes are where the file has them, and
\* there are matches for the others.
LEMMA LoadedKeeps ==
    ASSUME NEW withSM \in BOOLEAN, NEW l, InOrder(l, FALSE, withSM),
           NEW q \in Loaded(l, withSM)
    PROVE  InOrder(q, TRUE, withSM) /\ q.there = l.there
<1>. DEFINE found == {x \in l.there : l.file[x].place # None
                                      /\ l.code[x] = l.file[x].code}
            others == {x \in Windows \ found : l.file[x].place # None}
            match(x) == [win |-> x, place |-> l.file[x].place]
            at == [x \in Windows |-> IF x \in found THEN l.file[x].place ELSE None]
            M == [win : Windows, place : Places]
<1>1. /\ l \in LayoutState /\ l.there \subseteq Windows
      /\ \A x \in Windows : l.file[x].place \in Places \cup {None}
      /\ AllThere(l) /\ CodesKept(l) /\ PlacesKept(l, withSM)
  BY DEF InOrder, LayoutState, Bound, SavedEntry
<1>2. PICK s \in SetToSeqs(others) :
          q = [l EXCEPT !.at = at,
                 !.matches = IF withSM THEN [i \in DOMAIN s |-> match(s[i])] ELSE <<>>]
  BY DEF Loaded
<1>3. /\ s \in [1 .. Len(s) -> others] /\ Len(s) \in Nat
      /\ \A x \in others : \E i \in 1 .. Len(s) : s[i] = x
  <2>1. IsFiniteSet(others)
    BY LayoutAssumption, FS_Subset
  <2>. HIDE DEF others
  <2>. QED BY <2>1, SequencesOf
<1>. DEFINE m == [i \in 1 .. Len(s) |-> match(s[i])]
            matches == IF withSM THEN m ELSE <<>>
<1>4. m \in Seq(M)
  <2>1. \A x \in others : match(x) \in M
    BY <1>1
  <2>. HIDE DEF others, match
  <2>2. m \in [1 .. Len(s) -> M]
    BY <1>3, <2>1
  <2>. HIDE DEF m, M
  <2>3. Len(s) \in Nat
    BY <1>3
  <2>. QED BY <2>2, <2>3
<1>5. /\ \A i \in DOMAIN m : m[i].place = l.file[m[i].win].place
      /\ \A x \in others : \E i \in DOMAIN m : m[i].win = x
  <2>. HIDE DEF others
  <2>1. DOMAIN m = 1 .. Len(s)
    OBVIOUS
  <2>. QED BY <1>3, <2>1
<1>6. at \in [Windows -> Places \cup {None}]
  BY <1>1
<1>7. q = [l EXCEPT !.at = at, !.matches = matches]
  BY <1>2, <1>3
<1>8. matches \in Seq(M)
  <2>1. <<>> \in Seq(M)
    OBVIOUS
  <2>. HIDE DEF m, M
  <2>. QED BY <1>4, <2>1
<1>9. /\ \A x \in Windows : at[x] # None =>
             x \in l.there /\ at[x] = l.file[x].place
      /\ \A x \in Windows : at[x] = None /\ l.file[x].place # None =>
             x \in others /\ (x \in l.there => l.code[x] # l.file[x].code)
  BY <1>1
<1>. HIDE DEF at, matches, m, found, others
<1>10. /\ q \in LayoutState /\ q.there = l.there /\ q.code = l.code
       /\ q.file = l.file /\ q.moved = l.moved /\ q.recoded = l.recoded
       /\ q.at = at /\ q.matches = matches
  BY <1>1, <1>6, <1>7, <1>8 DEF LayoutState
<1>11. AllThere(q) /\ CodesKept(q) /\ PlacesKept(q, withSM) /\ StraysRecoded(q)
  BY <1>1, <1>9, <1>10
     DEF AllThere, CodesKept, PlacesKept, StraysRecoded, Stray, Known
<1>12. withSM => MatchesKept(q)
  BY <1>5, <1>9, <1>10 DEF MatchesKept, Stray, Known, matches
<1>. QED BY <1>10, <1>11, <1>12 DEF InOrder, Bound

LEMMA ManagedAllKeeps ==
    ASSUME NEW withSM \in BOOLEAN, NEW l, InOrder(l, TRUE, withSM),
           NEW s \in SetToSeqs(l.there \ Managed(l)), NEW q \in ManagedAll(l, s)
    PROVE  InOrder(q, TRUE, withSM)
<1>. DEFINE N == Len(s)
            managed(Q, k) == UNION {ManagedNow(r, s[k]) : r \in Q}
            step == [k \in 1 .. N |-> [Q \in SUBSET LayoutState |->
                         managed(Q, k) \cap LayoutState]]
            Body(f) == [k \in 0 .. N |-> IF k = 0 THEN {l} ELSE managed(f[k - 1], k)]
            after == CHOOSE f : f = Body(f)
            Good(r, k) == /\ InOrder(r, TRUE, withSM) /\ r.there = l.there
                          /\ \A j \in 1 .. N : j > k => r.at[s[j]] = None
<1>1. /\ N \in Nat /\ \A k \in 1 .. N : s[k] \in Windows /\ s[k] \in l.there
                                        /\ l.at[s[k]] = None
      /\ \A i \in 1 .. N, j \in 1 .. N : i # j => s[i] # s[j]
  <2>1. l.there \subseteq Windows
    BY DEF InOrder, LayoutState
  <2>2. IsFiniteSet(l.there \ Managed(l))
    BY <2>1, LayoutAssumption, FS_Subset
  <2>3. s \in [1 .. N -> l.there \ Managed(l)]
    BY <2>2, SequencesOf
  <2>. QED BY <2>1, <2>2, <2>3, SequencesOf DEF Managed
<1>2. ManagedAll(l, s) = after[N]
  BY DEF ManagedAll
<1>3. ASSUME NEW k \in 1 .. N, NEW r, Good(r, k - 1), NEW t \in ManagedNow(r, s[k])
      PROVE  Good(t, k)
  <2>1. /\ s[k] \in Windows /\ s[k] \in r.there /\ r.at[s[k]] = None
        /\ InOrder(r, TRUE, withSM)
    <3>1. k \in Int /\ k > k - 1
      BY <1>1
    <3>2. InOrder(r, TRUE, withSM) /\ r.there = l.there /\ r.at[s[k]] = None
      BY <1>3, <3>1
    <3>. QED BY <1>1, <3>2
  <2>2. /\ InOrder(t, TRUE, withSM) /\ t.there = r.there
        /\ \A y \in Windows : y # s[k] => t.at[y] = r.at[y]
    <3>. HIDE DEF Good
    <3>. DEFINE x == s[k]
    <3>1. x \in Windows /\ x \in r.there /\ r.at[x] = None /\ t \in ManagedNow(r, x)
      BY <1>3, <2>1
    <3>. HIDE DEF x, N, managed, step, Body, after
    <3>2. CameIn(t, r, x, withSM)
      BY <2>1, <3>1, ManagedNowKeeps
    <3>. QED BY <3>2 DEF CameIn, x
  <2>3. ASSUME NEW j \in 1 .. N, j > k PROVE t.at[s[j]] = None
    BY <1>1, <1>3, <2>2, <2>3
  <2>. QED BY <1>3, <2>2, <2>3
<1>. HIDE DEF managed
<1>4. Good(l, 0)
  BY <1>1
<1>. HIDE DEF Good
<1>5. step \in [1 .. N -> [SUBSET LayoutState -> SUBSET LayoutState]]
  OBVIOUS
<1>6. {l} \in SUBSET LayoutState
  BY DEF InOrder
<1>7. PICK f \in [0 .. N -> SUBSET LayoutState] : Recurs(f, N, {l}, step)
  <2>. HIDE DEF step
  <2>. QED BY <1>1, <1>5, <1>6, RecursionExists
<1>8. f[0] = {l} /\ \A k \in 1 .. N : f[k] = managed(f[k - 1], k) \cap LayoutState
  <2>1. ASSUME NEW k \in 1 .. N PROVE f[k] = managed(f[k - 1], k) \cap LayoutState
    <3>1. f[k - 1] \in SUBSET LayoutState /\ f[k] = step[k][f[k - 1]]
      <4>. HIDE DEF step, Body, after, managed
      <4>1. k - 1 \in 0 .. N
        BY <1>1
      <4>2. f[k - 1] \in SUBSET LayoutState
        BY <1>7, <4>1
      <4>3. f[k] = step[k][f[k - 1]]
        BY <1>7 DEF Recurs
      <4>. QED BY <4>2, <4>3
    <3>. QED BY <3>1
  <2>. QED BY <1>7, <2>1 DEF Recurs
\* One after the other, in any of the worlds that there may be
<1>9. ASSUME NEW k \in 1 .. N, NEW Q, \A r \in Q : Good(r, k - 1)
      PROVE  \A t \in managed(Q, k) : Good(t, k) /\ t \in LayoutState
  BY <1>3, <1>9 DEF managed, Good, InOrder
<1>10. \A k \in 0 .. N : \A r \in f[k] : Good(r, k)
  <2>. DEFINE T == {n \in 0 .. N : \A r \in f[n] : Good(r, n)}
  <2>1. 0 \in T
    BY <1>1, <1>4, <1>8
  <2>2. ASSUME NEW n \in 1 .. N, n - 1 \in T PROVE n \in T
    BY <1>8, <1>9, <2>2
  <2>. HIDE DEF T
  <2>3. \A n \in 1 .. N : n - 1 \in T => n \in T
    BY <2>2
  <2>4. \A n \in 0 .. N : n \in T
    BY <1>1, <2>1, <2>3, Induction
  <2>. QED BY <2>4 DEF T
<1>11. \A k \in 1 .. N : f[k] = managed(f[k - 1], k)
  <2>1. ASSUME NEW k \in 1 .. N PROVE managed(f[k - 1], k) \subseteq LayoutState
    <3>1. \A r \in f[k - 1] : Good(r, k - 1)
      BY <1>1, <1>10
    <3>. QED BY <1>9, <3>1
  <2>. QED BY <1>8, <2>1
<1>12. f = Body(f)
  <2>1. \A k \in 0 .. N : f[k] = Body(f)[k]
    BY <1>1, <1>8, <1>11
  <2>. QED BY <1>7, <2>1
<1>13. after = Body(after)
  <2>. HIDE DEF Body
  <2>. QED BY <1>12
<1>14. after[0] = {l} /\ \A k \in 1 .. N : after[k] = managed(after[k - 1], k)
  <2>. HIDE DEF after, N
  <2>1. N \in Nat /\ 0 \in 0 .. N /\ \A k \in 1 .. N : k \in 0 .. N /\ k # 0
    BY <1>1 DEF N
  <2>. QED BY <1>13, <2>1
<1>. HIDE DEF after
<1>15. \A r \in after[N] : Good(r, N)
  <2>. DEFINE T == {n \in 0 .. N : \A r \in after[n] : Good(r, n)}
  <2>1. 0 \in T
    BY <1>1, <1>4, <1>14
  <2>2. ASSUME NEW n \in 1 .. N, n - 1 \in T PROVE n \in T
    BY <1>9, <1>14, <2>2
  <2>. HIDE DEF T
  <2>3. \A n \in 1 .. N : n - 1 \in T => n \in T
    BY <2>2
  <2>4. \A n \in 0 .. N : n \in T
    BY <1>1, <2>1, <2>3, Induction
  <2>. QED BY <1>1, <2>4 DEF T
<1>. QED BY <1>2, <1>15 DEF Good

LEMMA StartedKeeps ==
    ASSUME NEW withSM \in BOOLEAN, NEW l, InOrder(l, FALSE, withSM),
           NEW q \in Started(l, withSM)
    PROVE  InOrder(q, TRUE, withSM)
<1>. DEFINE fresh == [l EXCEPT !.next = 1]
<1>1. PICK r \in Loaded(fresh, withSM) :
          \E s \in SetToSeqs(l.there \ Managed(r)) : q \in ManagedAll(r, s)
  BY DEF Started
<1>2. InOrder(fresh, FALSE, withSM) /\ fresh.there = l.there
  <2>1. /\ fresh \in LayoutState /\ fresh.there = l.there /\ fresh.at = l.at
        /\ fresh.code = l.code /\ fresh.file = l.file /\ fresh.matches = l.matches
        /\ fresh.moved = l.moved /\ fresh.recoded = l.recoded
    <3>1. 1 \in Nat \ {0}
      OBVIOUS
    <3>. QED BY <3>1 DEF InOrder, LayoutState
  <2>. HIDE DEF fresh
  <2>. QED BY <2>1 DEF InOrder, Bound, AllThere, CodesKept, PlacesKept, Stray, Known
<1>. HIDE DEF fresh
<1>3. InOrder(r, TRUE, withSM) /\ r.there = l.there
  BY <1>1, <1>2, LoadedKeeps
<1>. QED BY <1>1, <1>3, ManagedAllKeeps

LEMMA AppearedKeeps ==
    ASSUME NEW up \in BOOLEAN, NEW withSM \in BOOLEAN, NEW x \in Windows, NEW l,
           InOrder(l, up, withSM), x \notin l.there, NEW q \in Appeared(l, x, up)
    PROVE  InOrder(q, up, withSM)
<1>. DEFINE r == [l EXCEPT !.there = @ \cup {x}]
<1>1. /\ r \in LayoutState /\ r.there = l.there \cup {x} /\ r.at = l.at
      /\ r.code = l.code /\ r.file = l.file /\ r.matches = l.matches
      /\ r.moved = l.moved /\ r.recoded = l.recoded
  BY DEF InOrder, LayoutState
<1>2. q \in IF up THEN ManagedNow(r, x) ELSE {r}
  BY DEF Appeared
<1>. HIDE DEF r
<1>3. InOrder(r, up, withSM)
  BY <1>1 DEF InOrder, Bound, AllThere, CodesKept, PlacesKept, StraysRecoded,
              MatchesKept, Stray, Known
<1>4. l.at[x] = None
  BY DEF InOrder, Bound, AllThere
<1>5. CASE up
  <2>1. /\ InOrder(r, TRUE, withSM) /\ x \in r.there /\ r.at[x] = None
        /\ q \in ManagedNow(r, x) /\ up = TRUE
    BY <1>1, <1>2, <1>3, <1>4, <1>5
  <2>. QED BY <2>1, ManagedNowKeeps DEF CameIn
<1>6. CASE ~up
  BY <1>2, <1>3, <1>6
<1>. QED BY <1>5, <1>6

LayoutHolds == InOrder(layout, ion.up, ion.smhook)

LEMMA LayoutInit == SessionInit => LayoutHolds
<1>. SUFFICES ASSUME SessionInit PROVE LayoutHolds
  OBVIOUS
<1>1. PICK withSM \in BOOLEAN : ion = NotRunning(withSM)
  BY DEF SessionInit
<1>2. PICK S \in SUBSET Windows : layout = InitLayout(S)
  BY DEF SessionInit
<1>3. ~ion.up
  BY <1>1, IdleIs
<1>. DEFINE at == [x \in Windows |-> None]
            code == [x \in Windows |-> 0]
            file == [x \in Windows |-> NotSaved]
<1>4. /\ at \in [Windows -> Places \cup {None}] /\ code \in [Windows -> Nat]
      /\ file \in [Windows -> SavedEntry] /\ 1 \in Nat \ {0}
      /\ <<>> \in Seq([win : Windows, place : Places])
      /\ \A x \in Windows : at[x] = None /\ file[x].place = None
  BY DEF NotSaved, SavedEntry
<1>5. layout = [there |-> S, at |-> at, code |-> code, next |-> 1, file |-> file,
                matches |-> <<>>, moved |-> {}, recoded |-> {}]
  BY <1>2 DEF InitLayout
<1>. HIDE DEF at, code, file
<1>6. layout \in LayoutState /\ layout.at = at /\ layout.file = file
      /\ layout.matches = <<>>
  BY <1>4, <1>5 DEF LayoutState
<1>. QED BY <1>3, <1>4, <1>6 DEF LayoutHolds, InOrder, Bound, AllThere, CodesKept,
            PlacesKept, Known

\* A process that ends leaves q.
LEMMA LeaveKeeps ==
    ASSUME SessionTypeOK, NEW q, InOrder(q, TRUE, ion.smhook), Leave(q)
    PROVE  LayoutHolds'
<1>1. ion.smhook \in BOOLEAN
  BY TypesAre DEF IonType
<1>2. layout' = Ended(q) /\ ion' = NotRunning(ion.smhook)
  BY DEF Leave
<1>3. ion'.up = FALSE /\ ion'.smhook = ion.smhook
  BY <1>1, <1>2 DEF NotRunning, NowRunning
<1>4. InOrder(Ended(q), FALSE, ion.smhook)
  BY <1>1, EndedKeeps
<1>. QED BY <1>2, <1>3, <1>4 DEF LayoutHolds

LEMMA LayoutKeeps ==
    ASSUME SessionTypeOK, LayoutHolds, [SessionNext]_sessionVars
    PROVE  LayoutHolds'
<1>. DEFINE Same == ion'.up = ion.up /\ ion'.smhook = ion.smhook
<1>1. /\ ion.up \in BOOLEAN /\ ion.smhook \in BOOLEAN /\ ion \in IonType
      /\ InOrder(layout, ion.up, ion.smhook)
  BY TypesAre DEF LayoutHolds, IonType
<1>2. ion.up => InOrder(layout, TRUE, ion.smhook)
  BY <1>1
<1>3. ASSUME NEW q, layout' = q, Same, InOrder(q, ion.up, ion.smhook)
      PROVE  LayoutHolds'
  BY <1>3 DEF LayoutHolds
<1>4. layout' = layout /\ Same => LayoutHolds'
  BY <1>1 DEF LayoutHolds
<1>5. ion.up /\ Leave(layout) => LayoutHolds'
  BY <1>1, <1>2, LeaveKeeps
<1>6. CASE UNCHANGED sessionVars
  BY <1>4, <1>6 DEF sessionVars
<1>7. CASE \/ \E what \in Wishes : AskSM(what)
           \/ \E asked \in BOOLEAN : SaveYourself(asked)
           \/ ShutdownCancelled
  <2>1. layout' = layout /\ Same
    BY <1>1, <1>7 DEF AskSM, Hooked, SaveYourself, ShutdownCancelled, IonType
  <2>. QED BY <1>4, <2>1
<1>8. CASE \/ AskNobody \/ Resign \/ SaveComplete \/ Die
           \/ \E exits \in BOOLEAN : LoseConnection(exits)
  <2>1. \/ ion.up /\ Leave(layout)
        \/ layout' = layout /\ ion' = ion
        \/ layout' = layout /\ ion' = [ion EXCEPT !.conn = FALSE]
    BY <1>8 DEF AskNobody, Resign, SaveComplete, Die, LoseConnection, Hears
  <2>2. ion' = [ion EXCEPT !.conn = FALSE] => Same
    BY <1>1 DEF IonType
  <2>. QED BY <1>4, <1>5, <2>1, <2>2
<1>9. ASSUME NEW what \in Wishes, NEW how \in Hows, AskAlone(what, how)
      PROVE  LayoutHolds'
  <2>. DEFINE q == Saved(layout, how)
  <2>1. ion.up /\ ((layout' = q /\ UNCHANGED ion) \/ Leave(q))
    BY <1>9 DEF AskAlone
  <2>2. InOrder(q, TRUE, ion.smhook) /\ ion.up = TRUE
    BY <1>1, <1>2, <2>1, SavedKeeps
  <2>. HIDE DEF q
  <2>3. CASE layout' = q /\ UNCHANGED ion
    BY <2>2, <2>3 DEF LayoutHolds
  <2>. QED BY <2>1, <2>2, <2>3, LeaveKeeps
<1>10. CASE StartIon
  <2>1. ~ion.up /\ ion' = NowRunning(ion.smhook) /\ layout' \in Started(layout, ion.smhook)
    BY <1>10 DEF StartIon
  <2>2. ion'.up = TRUE /\ ion'.smhook = ion.smhook
    BY <2>1 DEF NowRunning
  <2>3. InOrder(layout, FALSE, ion.smhook)
    BY <1>1, <2>1
  <2>4. InOrder(layout', TRUE, ion.smhook)
    BY <1>1, <2>1, <2>3, StartedKeeps
  <2>. QED BY <2>2, <2>4 DEF LayoutHolds
<1>11. CASE LogOut
  <2>1. ~ion.up /\ ion' = ion /\ layout' = LoggedOut(layout)
    BY <1>11 DEF LogOut
  <2>2. InOrder(layout, FALSE, ion.smhook) /\ ion.up = FALSE
    BY <1>1, <2>1
  <2>3. InOrder(layout', FALSE, ion.smhook)
    BY <1>1, <2>1, <2>2, LoggedOutKeeps
  <2>. QED BY <2>1, <2>2, <2>3 DEF LayoutHolds
<1>12. ASSUME NEW x \in Windows, Appear(x) PROVE LayoutHolds'
  <2>1. x \notin layout.there /\ layout' \in Appeared(layout, x, ion.up) /\ ion' = ion
    BY <1>12 DEF Appear
  <2>. QED BY <1>1, <2>1, AppearedKeeps DEF LayoutHolds
<1>13. ASSUME NEW x \in Windows, Close(x) PROVE LayoutHolds'
  <2>1. layout' = Closed(layout, x) /\ ion' = ion
    BY <1>13 DEF Close
  <2>. QED BY <1>1, <2>1, ClosedKeeps DEF LayoutHolds
<1>14. ASSUME NEW x \in Windows, NEW p \in Places, Move(x, p) PROVE LayoutHolds'
  <2>1. layout.at[x] # None /\ layout' = MovedTo(layout, x, p) /\ ion' = ion
    BY <1>14 DEF Move
  <2>. QED BY <1>1, <2>1, MovedKeeps DEF LayoutHolds
<1>15. ASSUME NEW S \in SUBSET Windows, Configure(S) PROVE LayoutHolds'
  <2>1. S # {} /\ S \subseteq Managed(layout) /\ layout' = Configured(layout, S)
        /\ ion' = ion
    BY <1>15 DEF Configure
  <2>2. ion.up = TRUE
    BY <1>1, <2>1 DEF InOrder, Bound, Managed
  <2>3. InOrder(Configured(layout, S), TRUE, ion.smhook)
    BY <1>1, <1>2, <2>2, ConfiguredKeeps
  <2>. QED BY <2>1, <2>2, <2>3 DEF LayoutHolds
<1>16. ASSUME NEW how \in Hows, SaveYourselfPhase2(how) PROVE LayoutHolds'
  <2>1. /\ ion.up /\ layout' = Saved(layout, how)
        /\ ion' = [ion EXCEPT !.answered = TRUE, !.since = Succeeds(how)]
    BY <1>16 DEF SaveYourselfPhase2, Hears
  <2>2. Same
    BY <1>1, <2>1 DEF IonType
  <2>3. InOrder(Saved(layout, how), TRUE, ion.smhook) /\ ion.up = TRUE
    BY <1>1, <1>2, <2>1, SavedKeeps
  <2>. QED BY <2>1, <2>2, <2>3 DEF LayoutHolds
<1>17. CASE Manager \/ MgrCancel \/ \E b \in BOOLEAN : MgrCheckpoint(b)
  <2>1. layout' = layout /\ ion' = ion
    BY <1>17 DEF Manager, MgrCancel, MgrCheckpoint, MgrBegin, MgrServe, MgrRead,
                 MgrPhase2, MgrEnd
  <2>. QED BY <1>4, <2>1
<1>. QED BY <1>6, <1>7, <1>8, <1>9, <1>10, <1>11, <1>12, <1>13, <1>14, <1>15, <1>16,
            <1>17 DEF SessionNext, Hear

-----------------------------------------------------------------------------
(* The theorems.                                                           *)

\* What is said between Ion and the session manager, and what each remembers
\* of it, holds together in every state, for any windows and places and any
\* number of acts and starts.
THEOREM Invariance == SessionSpec => []SessionIInv
<1>1. SessionInit => SessionIInv
  BY InvInit
<1>2. SessionIInv /\ [SessionNext]_sessionVars => SessionIInv'
  BY InvNext
<1>. QED BY <1>1, <1>2, PTL DEF SessionSpec

\* Each SaveYourself is answered by one SaveYourselfDone, also when the
\* shutdown is cancelled while the answer, the request for the second phase
\* or the second phase is on its way (sent_save_done).
THEOREM SavesAnswered == SessionSpec => []AnsweredOnce
BY Invariance, InvAnswered, PTL

\* What is done when a save is complete is what was asked for last, and the
\* session manager knows the hint that belongs to it (save_complete_fn,
\* sm_set_other_properties).
THEOREM LeavingIsAsked == SessionSpec => LeavesAsAsked
<1>1. SessionIInv => (SaveComplete /\ ion.fn # None =>
                 /\ ion.wish = IF ion.fn = "exit" THEN "restart" ELSE "other"
                 /\ ion.since => mgr.hint = Hook(ion.wish).hint)
  BY InvLeaves
<1>. QED BY <1>1, Invariance, PTL DEF LeavesAsAsked

\* Windows that are managed are where the file that was written last has them,
\* unless they were moved or cannot be told, over any number of saves, exits,
\* crashes, starts and X sessions, with and without a session manager.
THEOREM WindowsAreInPlace == SessionSpec => []InPlace
<1>1. SessionInit => LayoutHolds
  BY LayoutInit
<1>2. SessionTypeOK /\ LayoutHolds /\ [SessionNext]_sessionVars => LayoutHolds'
  BY LayoutKeeps
<1>3. SessionIInv => SessionTypeOK
  BY DEF SessionIInv
<1>4. SessionTypeOK /\ LayoutHolds => InPlace
  <2>. SUFFICES ASSUME SessionTypeOK, LayoutHolds PROVE InPlace
    OBVIOUS
  <2>1. layout \in LayoutState /\ Bound(layout, ion.up, ion.smhook)
    BY DEF LayoutHolds, InOrder
  <2>2. /\ layout.at \in [Windows -> Places \cup {None}]
        /\ layout.code \in [Windows -> Nat] /\ layout.next \in Nat \ {0}
        /\ layout.file \in [Windows -> SavedEntry]
        /\ layout.matches \in Seq([win : Windows, place : Places])
    BY <2>1 DEF LayoutState
  <2>3. \A i \in DOMAIN layout.matches : layout.matches[i].place \in Places
    <3>. DEFINE M == [win : Windows, place : Places]
                s == layout.matches
    <3>1. s \in Seq(M)
      BY <2>2
    <3>. HIDE DEF s, M
    <3>2. \A i \in DOMAIN s : s[i] \in M
      BY <3>1
    <3>. QED BY <3>2 DEF s, M
  <2>4. LayoutKept
    <3>1. Managed(layout) \subseteq layout.there
      BY <2>1 DEF Bound, AllThere, Managed
    <3>2. ~ion.up => Managed(layout) = {} /\ layout.matches = <<>>
      BY <2>1 DEF Bound, Managed
    <3>. QED BY <2>2, <2>3, <3>1, <3>2 DEF LayoutKept, SavedEntry
  <2>. QED BY <2>1, <2>4 DEF InPlace, Bound, PlacesKept, Managed, Known
<1>. QED BY <1>1, <1>2, <1>3, <1>4, Invariance, PTL DEF SessionSpec
=============================================================================
