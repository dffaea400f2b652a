---------------------------- MODULE ClientsProofs ----------------------------
(***************************************************************************)
(* KnowsClients, ServerAgrees and NoneTakenAlong hold of any number of     *)
(* windows, however many requests and events are under way.                *)
(*                                                                         *)
(* The invariant says what the server will know of a window once it has    *)
(* got every request (Finally), that no request on the way may unmap the   *)
(* window noticed or put it in a frame unsaved (Sound), that a window that *)
(* is wanted is mapped or saved whenever the connection may be closed, or  *)
(* waits to be managed (Kept, Promise), and that what the window manager   *)
(* does not know yet is said by events to come (UnmapThenMap, MapThenUnmap,*)
(* Leaves, Awaited).  It is a conjunction over windows: a step concerns    *)
(* one, and leaves what is said of the others as it was (Elsewhere).       *)
(***************************************************************************)
EXTENDS Clients, ListLemmas

-----------------------------------------------------------------------------
(* What the server will know once it has got some of the requests.         *)

Fields == {"parent", "mapped", "selected", "saved", "wm_state", "net_fs"}
States == {"Withdrawn", "Iconic", "Normal"}
XWin == [parent : Frames \cup {None}, mapped : BOOLEAN, selected : BOOLEAN,
         saved : BOOLEAN, wm_state : States, net_fs : BOOLEAN]
Requests ==
    [field : {"parent"}, win : Windows, arg : Frames \cup {None}]
    \cup [field : {"mapped", "selected", "saved", "net_fs"}, win : Windows,
          arg : BOOLEAN]
    \cup [field : {"wm_state"}, win : Windows, arg : States]
    \cup [field : {"configured"}, win : Windows, arg : {None}]

\* What the server will know of field f of window w once it has got k requests
\* of q, when it now knows X.
Sets(r, w, f) == r.win = w /\ r.field = f
Latest(q, k, w, f) ==
    {i \in 1 .. k : Sets(q[i], w, f) /\ \A j \in i + 1 .. k : ~Sets(q[j], w, f)}
After(X, q, k, w, f) ==
    IF Latest(q, k, w, f) = {} THEN X[w][f]
    ELSE q[CHOOSE i \in Latest(q, k, w, f) : TRUE].arg
Final(X, q, w, f) == After(X, q, Len(q), w, f)

Unmaps(r) == r.field = "parent" \/ (r.field = "mapped" /\ ~r.arg)
\* Request k of q changes nothing of w that is noticed, and leaves it in the
\* save set while it is in a frame.
Allowed(X, q, k, w) ==
    /\ Unmaps(q[k]) => ~After(X, q, k - 1, w, "selected")
    /\ q[k].field = "parent" /\ q[k].arg # None =>
          After(X, q, k - 1, w, "saved")
    /\ q[k].field = "saved" /\ ~q[k].arg =>
          After(X, q, k - 1, w, "parent") = None
Sound(X, q, w) == \A k \in 1 .. Len(q) : q[k].win = w => Allowed(X, q, k, w)

Saves(r, w) == r.win = w /\ r.field = "saved" /\ r.arg
Safe(X, q, k, w) ==
    After(X, q, k, w, "mapped") \/ After(X, q, k, w, "saved")
Kept(X, q, w) ==
    \A k \in 0 .. Len(q) :
        Safe(X, q, k, w) \/ \E i \in k + 1 .. Len(q) : Saves(q[i], w)

\* Of no requests
LEMMA AfterZero ==
    ASSUME NEW X, NEW q, NEW w, NEW f
    PROVE  After(X, q, 0, w, f) = X[w][f]
<1>1. Latest(q, 0, w, f) = {}
  BY DEF Latest
<1>. QED BY <1>1 DEF After

\* Request k sets its field and leaves the others.
LEMMA AfterStep ==
    ASSUME NEW k \in Nat \ {0}, NEW X, NEW q, NEW w, NEW f
    PROVE  After(X, q, k, w, f) = IF Sets(q[k], w, f) THEN q[k].arg
                                  ELSE After(X, q, k - 1, w, f)
<1>1. CASE Sets(q[k], w, f)
  <2>1. k \in Latest(q, k, w, f)
    BY <1>1 DEF Latest
  <2>2. \A i \in Latest(q, k, w, f) : i = k
    <3>1. SUFFICES ASSUME NEW i \in 1 .. k, i # k PROVE k \in i + 1 .. k
      BY <1>1 DEF Latest
    <3>. QED BY <3>1
  <2>3. (CHOOSE i \in Latest(q, k, w, f) : TRUE) \in Latest(q, k, w, f)
    BY <2>1
  <2>4. Latest(q, k, w, f) # {} /\ (CHOOSE i \in Latest(q, k, w, f) : TRUE) = k
    BY <2>1, <2>2, <2>3
  <2>. QED BY <1>1, <2>4 DEF After
<1>2. CASE ~Sets(q[k], w, f)
  <2>1. Latest(q, k, w, f) = Latest(q, k - 1, w, f)
    <3>1. ASSUME NEW i \in Latest(q, k, w, f) PROVE i \in Latest(q, k - 1, w, f)
      <4>1. i \in 1 .. k /\ i # k /\ Sets(q[i], w, f)
        BY <1>2 DEF Latest
      <4>2. \A j \in i + 1 .. k - 1 : j \in i + 1 .. k
        BY <4>1
      <4>. QED BY <3>1, <4>1, <4>2 DEF Latest
    <3>2. ASSUME NEW i \in Latest(q, k - 1, w, f) PROVE i \in Latest(q, k, w, f)
      <4>1. i \in 1 .. k /\ Sets(q[i], w, f)
        BY DEF Latest
      <4>2. \A j \in i + 1 .. k : j = k \/ j \in i + 1 .. k - 1
        BY <4>1
      <4>. QED BY <1>2, <3>2, <4>1, <4>2 DEF Latest
    <3>. QED BY <3>1, <3>2
  <2>. QED BY <1>2, <2>1 DEF After
<1>. QED BY <1>1, <1>2

\* Only what q holds up to k matters.
LEMMA AfterPrefix ==
    ASSUME NEW k \in Nat, NEW X, NEW q, NEW p, NEW w, NEW f,
           \A i \in 1 .. k : p[i] = q[i]
    PROVE  After(X, p, k, w, f) = After(X, q, k, w, f)
<1>1. Latest(p, k, w, f) = Latest(q, k, w, f)
  <2>1. \A i \in 1 .. k : \A j \in i + 1 .. k : j \in 1 .. k
    OBVIOUS
  <2>. QED BY <2>1 DEF Latest
<1>2. CASE Latest(q, k, w, f) = {}
  BY <1>1, <1>2 DEF After
<1>3. CASE Latest(q, k, w, f) # {}
  <2>1. (CHOOSE i \in Latest(q, k, w, f) : TRUE) \in Latest(q, k, w, f)
    BY <1>3
  <2>2. (CHOOSE i \in Latest(q, k, w, f) : TRUE) \in 1 .. k
    BY <2>1 DEF Latest
  <2>. QED BY <1>1, <1>3, <2>2 DEF After
<1>. QED BY <1>2, <1>3

\* The requests which q has more than it had concern another window.
LEMMA AfterOthers ==
    ASSUME NEW m \in Nat, NEW n \in Nat, NEW X, NEW q, NEW w, NEW f,
           m <= n, \A i \in m + 1 .. n : q[i].win # w
    PROVE  After(X, q, n, w, f) = After(X, q, m, w, f)
<1>1. Latest(q, n, w, f) = Latest(q, m, w, f)
  <2>1. ASSUME NEW i \in Latest(q, n, w, f) PROVE i \in Latest(q, m, w, f)
    <3>1. i \in 1 .. n /\ Sets(q[i], w, f) /\ i \notin m + 1 .. n
      BY <2>1 DEF Latest, Sets
    <3>2. i \in 1 .. m /\ \A j \in i + 1 .. m : j \in i + 1 .. n
      BY <3>1
    <3>. QED BY <2>1, <3>1, <3>2 DEF Latest
  <2>2. ASSUME NEW i \in Latest(q, m, w, f) PROVE i \in Latest(q, n, w, f)
    <3>1. i \in 1 .. m /\ Sets(q[i], w, f)
      BY DEF Latest
    <3>2. i \in 1 .. n /\ \A j \in i + 1 .. n : j \in i + 1 .. m \/ j \in m + 1 .. n
      BY <3>1
    <3>. QED BY <2>2, <3>1, <3>2 DEF Latest, Sets
  <2>. QED BY <2>1, <2>2
<1>. QED BY <1>1 DEF After

-----------------------------------------------------------------------------
(* One request more.                                                       *)

Extends(q, p, w) ==
    /\ Len(q) <= Len(p)
    /\ \A i \in 1 .. Len(q) : p[i] = q[i]
    /\ \A i \in Len(q) + 1 .. Len(p) : p[i].win = w
\* What is allowed of a request r that comes after q
May(X, q, r, w) ==
    /\ Unmaps(r) => ~Final(X, q, w, "selected")
    /\ r.field = "parent" /\ r.arg # None => Final(X, q, w, "saved")
    /\ r.field = "saved" /\ ~r.arg => Final(X, q, w, "parent") = None
FinallySafe(X, q, w) ==
    Final(X, q, w, "mapped") \/ Final(X, q, w, "saved")

\* What one more request changes.
LEMMA OneMore ==
    ASSUME NEW q \in Seq(Requests), NEW r \in Requests
    PROVE  /\ Append(q, r) \in Seq(Requests)
           /\ Extends(q, Append(q, r), r.win)
           /\ Len(Append(q, r)) = Len(q) + 1 /\ Append(q, r)[Len(q) + 1] = r
           /\ \A X, w, f : \A k \in 0 .. Len(q) :
                 After(X, Append(q, r), k, w, f) = After(X, q, k, w, f)
<1>. DEFINE p == Append(q, r)
            n == Len(q)
<1>1. /\ p \in Seq(Requests) /\ n \in Nat /\ Len(p) = n + 1 /\ p[n + 1] = r
      /\ \A i \in 1 .. n : p[i] = q[i]
  OBVIOUS
<1>. HIDE DEF p, n
<1>2. Extends(q, p, r.win)
  BY <1>1 DEF Extends, n
<1>3. ASSUME NEW X, NEW w, NEW f, NEW k \in 0 .. n
      PROVE  After(X, p, k, w, f) = After(X, q, k, w, f)
  <2>1. k \in Nat /\ \A i \in 1 .. k : p[i] = q[i]
    BY <1>1
  <2>. QED BY <2>1, AfterPrefix
<1>. QED BY <1>1, <1>2, <1>3 DEF p, n

\* The last request is what counts for its field.
LEMMA OneMoreFinal ==
    ASSUME NEW q \in Seq(Requests), NEW r \in Requests, NEW X, NEW w, NEW f,
           r.win = w
    PROVE  Final(X, Append(q, r), w, f) =
              IF r.field = f THEN r.arg ELSE Final(X, q, w, f)
<1>. DEFINE p == Append(q, r)
            n == Len(q)
<1>1. /\ n \in Nat /\ n + 1 - 1 = n /\ Len(p) = n + 1 /\ p[n + 1] = r
      /\ \A k \in 0 .. n : After(X, p, k, w, f) = After(X, q, k, w, f)
  BY OneMore
<1>. HIDE DEF p, n
<1>2. n + 1 \in Nat \ {0} /\ n \in 0 .. n
  BY <1>1
<1>3. After(X, p, n + 1, w, f) = IF Sets(p[n + 1], w, f) THEN p[n + 1].arg
                                 ELSE After(X, p, n + 1 - 1, w, f)
  BY <1>2, AfterStep
<1>. QED BY <1>1, <1>2, <1>3 DEF Final, p, n, Sets

\* A request that may be made keeps what is asked for sound.
LEMMA OneMoreSound ==
    ASSUME NEW q \in Seq(Requests), NEW r \in Requests, NEW X,
           Sound(X, q, r.win), May(X, q, r, r.win)
    PROVE  Sound(X, Append(q, r), r.win)
<1>. DEFINE p == Append(q, r)
            n == Len(q)
            w == r.win
<1>1. /\ p \in Seq(Requests) /\ n \in Nat /\ Len(p) = n + 1 /\ p[n + 1] = r
      /\ \A i \in 1 .. n : p[i] = q[i]
  OBVIOUS
<1>2. SUFFICES ASSUME NEW k \in 1 .. n + 1, p[k].win = w PROVE Allowed(X, p, k, w)
  BY <1>1 DEF Sound
<1>3. ASSUME NEW f PROVE After(X, p, k - 1, w, f) = After(X, q, k - 1, w, f)
  <2>1. k - 1 \in 0 .. n
    BY <1>1, <1>2
  <2>. QED BY <2>1, OneMore
<1>. HIDE DEF p, n
<1>4. CASE k \in 1 .. n
  <2>1. p[k] = q[k] /\ Allowed(X, q, k, w)
    BY <1>1, <1>2, <1>4 DEF Sound, n
  <2>. QED BY <1>3, <2>1 DEF Allowed
<1>5. CASE k = n + 1
  <2>1. p[k] = r /\ k - 1 = n /\ May(X, q, r, w)
    BY <1>1, <1>2, <1>5
  <2>. QED BY <1>3, <2>1 DEF Allowed, May, Final, n
<1>. QED BY <1>1, <1>2, <1>4, <1>5

\* A window stays kept if it is safe at the end, or is saved by the request.
LEMMA OneMoreKept ==
    ASSUME NEW q \in Seq(Requests), NEW r \in Requests, NEW X
    PROVE  /\ Kept(X, q, r.win) /\ FinallySafe(X, Append(q, r), r.win) =>
                 Kept(X, Append(q, r), r.win)
           /\ Saves(r, r.win) => Kept(X, Append(q, r), r.win)
<1>. DEFINE p == Append(q, r)
            n == Len(q)
            w == r.win
<1>1. /\ p \in Seq(Requests) /\ n \in Nat /\ Len(p) = n + 1 /\ p[n + 1] = r
      /\ \A i \in 1 .. n : p[i] = q[i]
  OBVIOUS
<1>2. \A k \in 0 .. n : Safe(X, p, k, w) <=> Safe(X, q, k, w)
  <2>1. \A f : \A k \in 0 .. n : After(X, p, k, w, f) = After(X, q, k, w, f)
    BY OneMore
  <2>. QED BY <2>1 DEF Safe
<1>3. Safe(X, p, n + 1, w) <=> FinallySafe(X, p, w)
  BY <1>1 DEF Safe, FinallySafe, Final
<1>. HIDE DEF p, n
<1>4. ASSUME Kept(X, q, w), FinallySafe(X, p, w)
      PROVE  Kept(X, p, w)
  <2>1. SUFFICES ASSUME NEW k \in 0 .. n + 1
                 PROVE  Safe(X, p, k, w) \/ \E i \in k + 1 .. n + 1 : Saves(p[i], w)
    BY <1>1 DEF Kept
  <2>2. CASE k = n + 1
    BY <1>3, <1>4, <2>2
  <2>3. CASE k \in 0 .. n /\ Safe(X, q, k, w)
    BY <1>2, <2>3
  <2>4. CASE k \in 0 .. n /\ ~Safe(X, q, k, w)
    <3>1. PICK i \in k + 1 .. n : Saves(q[i], w)
      BY <1>4, <2>4 DEF Kept, n
    <3>2. i \in k + 1 .. n + 1 /\ p[i] = q[i]
      BY <1>1, <2>4
    <3>. QED BY <3>1, <3>2
  <2>. QED BY <1>1, <2>1, <2>2, <2>3, <2>4
<1>5. ASSUME Saves(r, w) PROVE Kept(X, p, w)
  <2>1. FinallySafe(X, p, w)
    BY <1>5, OneMoreFinal DEF Saves, FinallySafe, p
  <2>2. SUFFICES ASSUME NEW k \in 0 .. n + 1
                 PROVE  Safe(X, p, k, w) \/ \E i \in k + 1 .. n + 1 : Saves(p[i], w)
    BY <1>1 DEF Kept
  <2>3. CASE k = n + 1
    BY <1>3, <2>1, <2>3
  <2>4. CASE k \in 0 .. n
    <3>1. n + 1 \in k + 1 .. n + 1
      BY <1>1, <2>4
    <3>. QED BY <1>1, <1>5, <3>1
  <2>. QED BY <1>1, <2>2, <2>3, <2>4
<1>. QED BY <1>4, <1>5 DEF p

\* A kept window is safe in the end.
LEMMA FinallySafeAfter ==
    ASSUME NEW q \in Seq(Requests), NEW X, NEW w, Kept(X, q, w)
    PROVE  FinallySafe(X, q, w)
<1>1. Len(q) \in 0 .. Len(q) /\ Len(q) + 1 .. Len(q) = {}
  OBVIOUS
<1>. QED BY <1>1 DEF Kept, Safe, FinallySafe, Final

\* Requests for one window change nothing for another.
LEMMA OthersLeft ==
    ASSUME NEW q \in Seq(Requests), NEW p \in Seq(Requests), NEW X, NEW w,
           NEW u, u # w, Extends(q, p, w)
    PROVE  /\ \A f : Final(X, p, u, f) = Final(X, q, u, f)
           /\ Sound(X, q, u) => Sound(X, p, u)
           /\ Kept(X, q, u) => Kept(X, p, u)
           /\ \A i \in 1 .. Len(p) : p[i].win = u => i \in 1 .. Len(q) /\ p[i] = q[i]
<1>. DEFINE m == Len(q)
            n == Len(p)
<1>1. /\ m \in Nat /\ n \in Nat /\ m <= n
      /\ \A i \in 1 .. m : p[i] = q[i]
      /\ \A i \in m + 1 .. n : p[i].win # u
  BY DEF Extends
<1>. HIDE DEF m, n
<1>2. \A i \in 1 .. n : p[i].win = u => i \in 1 .. m /\ p[i] = q[i]
  <2>1. \A i \in 1 .. n : i \in 1 .. m \/ i \in m + 1 .. n
    BY <1>1
  <2>. QED BY <1>1, <2>1
<1>3. \A f : \A k \in 0 .. m : After(X, p, k, u, f) = After(X, q, k, u, f)
  <2>1. SUFFICES ASSUME NEW f, NEW k \in 0 .. m
                 PROVE  After(X, p, k, u, f) = After(X, q, k, u, f)
    OBVIOUS
  <2>2. k \in Nat /\ \A i \in 1 .. k : p[i] = q[i]
    BY <1>1
  <2>. QED BY <2>2, AfterPrefix
<1>4. \A f : \A k \in m .. n : After(X, p, k, u, f) = After(X, q, m, u, f)
  <2>1. SUFFICES ASSUME NEW f, NEW k \in m .. n
                 PROVE  After(X, p, k, u, f) = After(X, q, m, u, f)
    OBVIOUS
  <2>2. k \in Nat /\ m <= k /\ \A i \in m + 1 .. k : p[i].win # u
    BY <1>1
  <2>3. After(X, p, k, u, f) = After(X, p, m, u, f)
    BY <1>1, <2>2, AfterOthers
  <2>4. m \in 0 .. m
    BY <1>1
  <2>. QED BY <1>3, <2>3, <2>4
<1>5. ASSUME Sound(X, q, u) PROVE Sound(X, p, u)
  <2>1. SUFFICES ASSUME NEW k \in 1 .. n, p[k].win = u PROVE Allowed(X, p, k, u)
    BY DEF Sound, n
  <2>2. k \in 1 .. m /\ p[k] = q[k]
    BY <1>2, <2>1
  <2>3. k - 1 \in 0 .. m
    BY <1>1, <2>2
  <2>4. \A f : After(X, p, k - 1, u, f) = After(X, q, k - 1, u, f)
    BY <1>3, <2>3
  <2>5. Allowed(X, q, k, u)
    BY <1>5, <2>1, <2>2 DEF Sound, m
  <2>. QED BY <2>2, <2>4, <2>5 DEF Allowed
<1>6. ASSUME Kept(X, q, u) PROVE Kept(X, p, u)
  <2>1. SUFFICES ASSUME NEW k \in 0 .. n
                 PROVE  Safe(X, p, k, u) \/ \E i \in k + 1 .. n : Saves(p[i], u)
    BY DEF Kept, n
  <2>2. CASE k \in 0 .. m /\ Safe(X, q, k, u)
    BY <1>3, <2>2 DEF Safe
  <2>3. CASE k \in 0 .. m /\ ~Safe(X, q, k, u)
    <3>1. PICK i \in k + 1 .. m : Saves(q[i], u)
      BY <1>6, <2>3 DEF Kept, m
    <3>2. i \in k + 1 .. n /\ p[i] = q[i]
      BY <1>1, <2>3
    <3>. QED BY <3>1, <3>2
  <2>4. CASE k \in m + 1 .. n
    <3>1. m \in 0 .. m /\ m + 1 .. m = {} /\ k \in m .. n
      BY <1>1, <2>4
    <3>2. Safe(X, q, m, u)
      BY <1>6, <3>1 DEF Kept, m
    <3>. QED BY <1>4, <3>1, <3>2 DEF Safe
  <2>. QED BY <1>1, <2>1, <2>2, <2>3, <2>4
<1>7. \A f : Final(X, p, u, f) = Final(X, q, u, f)
  <2>1. n \in m .. n
    BY <1>1
  <2>. QED BY <1>4, <2>1 DEF Final, m, n
<1>. QED BY <1>2, <1>5, <1>6, <1>7 DEF m, n

\* Extending requests of w twice
LEMMA ExtendsTransitive ==
    ASSUME NEW q \in Seq(Requests), NEW p \in Seq(Requests),
           NEW s \in Seq(Requests), NEW w, Extends(q, p, w), Extends(p, s, w)
    PROVE  Extends(q, s, w)
<1>. DEFINE l == Len(q)
            m == Len(p)
            n == Len(s)
<1>1. l \in Nat /\ m \in Nat /\ n \in Nat /\ l <= m /\ m <= n
  BY DEF Extends
<1>2. \A i \in 1 .. l : p[i] = q[i] /\ s[i] = q[i]
  BY <1>1 DEF Extends
<1>3. \A i \in l + 1 .. n : s[i].win = w
  <2>1. SUFFICES ASSUME NEW i \in l + 1 .. n PROVE s[i].win = w
    OBVIOUS
  <2>2. CASE i \in m + 1 .. n
    BY <2>2 DEF Extends
  <2>3. CASE i \in l + 1 .. m
    <3>1. i \in 1 .. m
      BY <1>1, <2>3
    <3>. QED BY <2>3, <3>1 DEF Extends
  <2>. QED BY <1>1, <2>2, <2>3
<1>. QED BY <1>1, <1>2, <1>3 DEF Extends

\* Blocks of requests are requests added one by one.
LEMMA OneByOne ==
    ASSUME NEW q \in Seq(Requests), NEW r1 \in Requests, NEW r2 \in Requests,
           NEW r3 \in Requests
    PROVE  /\ q \o <<r1>> = Append(q, r1)
           /\ q \o <<r1, r2>> = Append(Append(q, r1), r2)
           /\ q \o <<r1, r2, r3>> = Append(Append(Append(q, r1), r2), r3)
           /\ q \o <<>> = q
<1>1. q \o <<r1>> = Append(q, r1)
  OBVIOUS
<1>2. q \o <<r1, r2>> = Append(Append(q, r1), r2)
  OBVIOUS
<1>3. q \o <<r1, r2, r3>> = Append(Append(Append(q, r1), r2), r3)
  OBVIOUS
<1>4. q \o <<>> = q
  OBVIOUS
<1>. QED BY <1>1, <1>2, <1>3, <1>4

-----------------------------------------------------------------------------
(* A request is carried out; one that goes unnoticed.                      *)

\* The server carries out the first request: Y is what it then knows.
LEMMA AfterServed ==
    ASSUME NEW q \in Seq(Requests), NEW X, NEW Y, NEW w, NEW f, q # <<>>,
           Y[w][f] = After(X, q, 1, w, f)
    PROVE  \A k \in 0 .. Len(q) - 1 :
              After(Y, Tail(q), k, w, f) = After(X, q, k + 1, w, f)
<1>. DEFINE t == Tail(q)
            n == Len(q) - 1
            Same == {k \in 0 .. n : After(Y, t, k, w, f) = After(X, q, k + 1, w, f)}
<1>1. n \in Nat /\ \A i \in 1 .. n : t[i] = q[i + 1]
  OBVIOUS
<1>. HIDE DEF t, n
<1>2. 0 \in Same
  <2>1. After(Y, t, 0, w, f) = Y[w][f] /\ 0 + 1 = 1 /\ 0 \in 0 .. n
    BY <1>1, AfterZero
  <2>. QED BY <2>1
<1>3. ASSUME NEW k \in 1 .. n, k - 1 \in Same PROVE k \in Same
  <2>1. k \in Nat \ {0} /\ k + 1 \in Nat \ {0} /\ k + 1 - 1 = k /\ k - 1 + 1 = k
    BY <1>1
  <2>2. After(Y, t, k, w, f) = IF Sets(t[k], w, f) THEN t[k].arg
                               ELSE After(Y, t, k - 1, w, f)
    BY <2>1, AfterStep
  <2>3. After(X, q, k + 1, w, f) = IF Sets(q[k + 1], w, f) THEN q[k + 1].arg
                                   ELSE After(X, q, k + 1 - 1, w, f)
    BY <2>1, AfterStep
  <2>4. After(Y, t, k - 1, w, f) = After(X, q, k, w, f)
    BY <1>3, <2>1
  <2>. QED BY <1>1, <2>1, <2>2, <2>3, <2>4
<1>. HIDE DEF Same
<1>4. \A k \in 0 .. n : k \in Same
  BY <1>1, <1>2, <1>3, Induction
<1>. QED BY <1>4 DEF Same, t, n

\* What the server will know in the end does not change when it gets the
\* first request.
LEMMA ServedKeeps ==
    ASSUME NEW q \in Seq(Requests), NEW X, NEW Y, NEW w, q # <<>>,
           \A f \in Fields : Y[w][f] = After(X, q, 1, w, f)
    PROVE  /\ \A f \in Fields : Final(Y, Tail(q), w, f) = Final(X, q, w, f)
           /\ Sound(X, q, w) => Sound(Y, Tail(q), w)
           /\ Kept(X, q, w) => Kept(Y, Tail(q), w)
<1>. DEFINE t == Tail(q)
            n == Len(q) - 1
<1>1. /\ n \in Nat /\ Len(q) = n + 1 /\ Len(t) = n
      /\ \A i \in 1 .. n : t[i] = q[i + 1]
  OBVIOUS
<1>2. \A f \in Fields : \A k \in 0 .. n :
         After(Y, t, k, w, f) = After(X, q, k + 1, w, f)
  BY AfterServed
<1>. HIDE DEF t, n
<1>3. "mapped" \in Fields /\ "saved" \in Fields /\ "selected" \in Fields
      /\ "parent" \in Fields
  BY DEF Fields
<1>4. \A f \in Fields : Final(Y, t, w, f) = Final(X, q, w, f)
  <2>1. n \in 0 .. n
    BY <1>1
  <2>. QED BY <1>1, <1>2, <2>1 DEF Final
<1>5. ASSUME Sound(X, q, w) PROVE Sound(Y, t, w)
  <2>1. SUFFICES ASSUME NEW k \in 1 .. n, t[k].win = w PROVE Allowed(Y, t, k, w)
    BY <1>1 DEF Sound
  <2>2. k + 1 \in 1 .. Len(q) /\ k - 1 \in 0 .. n /\ k - 1 + 1 = k
        /\ k + 1 - 1 = k /\ t[k] = q[k + 1]
    BY <1>1, <2>1
  <2>3. Allowed(X, q, k + 1, w)
    BY <1>5, <2>1, <2>2 DEF Sound
  <2>4. \A f \in Fields : After(Y, t, k - 1, w, f) = After(X, q, k, w, f)
    BY <1>2, <2>2
  <2>. QED BY <1>3, <2>2, <2>3, <2>4 DEF Allowed
<1>6. ASSUME Kept(X, q, w) PROVE Kept(Y, t, w)
  <2>1. SUFFICES ASSUME NEW k \in 0 .. n
                 PROVE  Safe(Y, t, k, w) \/ \E i \in k + 1 .. n : Saves(t[i], w)
    BY <1>1 DEF Kept
  <2>2. k + 1 \in 0 .. Len(q)
    BY <1>1
  <2>3. CASE Safe(X, q, k + 1, w)
    BY <1>2, <1>3, <2>1, <2>3 DEF Safe
  <2>4. CASE ~Safe(X, q, k + 1, w)
    <3>1. PICK i \in k + 1 + 1 .. Len(q) : Saves(q[i], w)
      BY <1>6, <2>2, <2>4 DEF Kept
    <3>2. i - 1 \in k + 1 .. n /\ t[i - 1] = q[i]
      <4>1. i - 1 \in k + 1 .. n /\ i - 1 \in 1 .. n /\ i - 1 + 1 = i
        BY <1>1
      <4>. QED BY <1>1, <4>1
    <3>. QED BY <3>1, <3>2
  <2>. QED BY <2>3, <2>4
<1>. QED BY <1>4, <1>5, <1>6 DEF t

\* What a change of field f to v that is not noticed makes of requests q.
Changed(X, q, p, w, f, v) ==
    /\ p \in Seq(Requests) /\ Extends(q, p, w)
    /\ Final(X, p, w, f) = v /\ Final(X, p, w, "selected")
    /\ \A g : g \notin {f, "selected"} => Final(X, p, w, g) = Final(X, q, w, g)
    /\ Sound(X, q, w) /\ (f = "parent" /\ v # None => Final(X, q, w, "saved")) =>
          Sound(X, p, w)
    /\ \E i \in 1 .. Len(p) : Sets(p[i], w, f)

\* do_reparent_clientwin and so on
LEMMA UnnoticedMore ==
    ASSUME NEW q \in Seq(Requests), NEW w \in Windows, NEW X, NEW f, NEW v,
           f \in {"parent", "mapped", "configured"},
           Request(f, w, v) \in Requests
    PROVE  Changed(X, q, q \o Unnoticed(w, f, v), w, f, v)
<1>. DEFINE r1 == Request("selected", w, FALSE)
            r2 == Request(f, w, v)
            r3 == Request("selected", w, TRUE)
            q1 == Append(q, r1)
            q2 == Append(q1, r2)
            q3 == Append(q2, r3)
<1>1. r1 \in Requests /\ r2 \in Requests /\ r3 \in Requests
  BY DEF Request, Requests
<1>3. /\ r1.win = w /\ r2.win = w /\ r3.win = w
      /\ r1.field = "selected" /\ r2.field = f /\ r3.field = "selected"
      /\ r1.arg = FALSE /\ r2.arg = v /\ r3.arg = TRUE
  BY DEF Request
<1>2. Unnoticed(w, f, v) = <<r1, r2, r3>>
  BY DEF Unnoticed
<1>. HIDE DEF r1, r2, r3
<1>15. q \o Unnoticed(w, f, v) = q3
  BY <1>1, <1>2, OneByOne
<1>. HIDE DEF q1, q2, q3
<1>4. q1 \in Seq(Requests) /\ Extends(q, q1, w)
  BY <1>1, <1>3, OneMore DEF q1
<1>5. q2 \in Seq(Requests) /\ Extends(q1, q2, w)
  BY <1>1, <1>3, <1>4, OneMore DEF q2
<1>6. q3 \in Seq(Requests) /\ Extends(q2, q3, w)
  BY <1>1, <1>3, <1>5, OneMore DEF q3
<1>7. Extends(q, q3, w)
  BY <1>4, <1>5, <1>6, ExtendsTransitive
<1>8. ASSUME NEW g
      PROVE  Final(X, q1, w, g) = IF g = "selected" THEN FALSE ELSE Final(X, q, w, g)
  <2>1. Final(X, q1, w, g) = IF r1.field = g THEN r1.arg ELSE Final(X, q, w, g)
    BY <1>1, <1>3, OneMoreFinal DEF q1
  <2>. QED BY <1>3, <2>1
<1>9. ASSUME NEW g
      PROVE  Final(X, q2, w, g) = IF g = f THEN v ELSE Final(X, q1, w, g)
  <2>1. Final(X, q2, w, g) = IF r2.field = g THEN r2.arg ELSE Final(X, q1, w, g)
    BY <1>1, <1>3, <1>4, OneMoreFinal DEF q2
  <2>. QED BY <1>3, <2>1
<1>10. ASSUME NEW g
      PROVE  Final(X, q3, w, g) = IF g = "selected" THEN TRUE ELSE Final(X, q2, w, g)
  <2>1. Final(X, q3, w, g) = IF r3.field = g THEN r3.arg ELSE Final(X, q2, w, g)
    BY <1>1, <1>3, <1>5, OneMoreFinal DEF q3
  <2>. QED BY <1>3, <2>1
<1>11. ASSUME Sound(X, q, w), f = "parent" /\ v # None => Final(X, q, w, "saved")
       PROVE  Sound(X, q3, w)
  <2>1. May(X, q, r1, w) /\ May(X, q2, r3, w)
    BY <1>3 DEF May, Unmaps
  <2>2. May(X, q1, r2, w)
    BY <1>3, <1>8, <1>11 DEF May, Unmaps
  <2>3. Sound(X, q1, w)
    BY <1>1, <1>3, <1>11, <2>1, OneMoreSound DEF q1
  <2>4. Sound(X, q2, w)
    BY <1>1, <1>3, <1>4, <2>2, <2>3, OneMoreSound DEF q2
  <2>. QED BY <1>1, <1>3, <1>5, <2>1, <2>4, OneMoreSound DEF q3
<1>13. /\ Final(X, q3, w, f) = v /\ Final(X, q3, w, "selected")
       /\ \A g : g \notin {f, "selected"} => Final(X, q3, w, g) = Final(X, q, w, g)
  BY <1>8, <1>9, <1>10
<1>14. \E i \in 1 .. Len(q3) : Sets(q3[i], w, f)
  <2>1. /\ Len(q1) = Len(q) + 1 /\ Len(q2) = Len(q) + 2 /\ Len(q3) = Len(q) + 3
        /\ q3[Len(q) + 2] = r2
    BY <1>1 DEF q1, q2, q3
  <2>2. Len(q) + 2 \in 1 .. Len(q3)
    BY <2>1
  <2>. QED BY <1>3, <2>1, <2>2 DEF Sets
<1>. QED BY <1>15, <1>6, <1>7, <1>11, <1>13, <1>14 DEF Changed

-----------------------------------------------------------------------------
(* Blocks of requests.                                                     *)

\* What the server will know of w after p is what it will know after q, but
\* for the fields fs.
Same(X, q, p, w, fs) ==
    \A f \in Fields \ fs : Final(X, p, w, f) = Final(X, q, w, f)

\* Concatenation is associative.
LEMMA Regrouped ==
    ASSUME NEW q \in Seq(Requests), NEW s \in Seq(Requests), NEW t \in Seq(Requests)
    PROVE  /\ q \o (s \o t) = (q \o s) \o t
           /\ s \o t \in Seq(Requests) /\ Len(s \o t) = Len(s) + Len(t)
BY ConcatAssociative, ConcatProperties

\* A block of one request
LEMMA OneRequest ==
    ASSUME NEW r \in Requests
    PROVE  <<r>> \in Seq(Requests)
<1>1. \A i \in 1 .. 1 : <<r>>[i] \in Requests
  OBVIOUS
<1>. QED BY <1>1, IsASeq

\* The blocks are sequences of requests.
LEMMA BlocksAreRequests ==
    ASSUME NEW w \in Windows
    PROVE  /\ \A f, v : Request(f, w, v) \in Requests =>
                 Unnoticed(w, f, v) \in Seq(Requests)
           /\ \A p \in Places : Request("parent", w, Xwindow(p)) \in Requests
           /\ Request("configured", w, None) \in Requests
           /\ \A b \in BOOLEAN : /\ Request("mapped", w, b) \in Requests
                                 /\ Request("selected", w, b) \in Requests
                                 /\ Request("saved", w, b) \in Requests
                                 /\ Request("net_fs", w, b) \in Requests
           /\ \A s \in States : Request("wm_state", w, s) \in Requests
           /\ \A p \in Places : FitRep(w, p) \in Seq(Requests)
           /\ \A s, t \in States : SetState(w, s, t) \in Seq(Requests)
           /\ \A s \in States, b \in BOOLEAN : MapRequests(w, s, b) \in Seq(Requests)
<1>1. \A b \in BOOLEAN : /\ Request("mapped", w, b) \in Requests
                         /\ Request("selected", w, b) \in Requests
                         /\ Request("saved", w, b) \in Requests
                         /\ Request("net_fs", w, b) \in Requests
  BY DEF Request, Requests
<1>2. ASSUME NEW p \in Places PROVE Request("parent", w, Xwindow(p)) \in Requests
  <2>1. Xwindow(p) \in Frames \cup {None}
    BY DEF Xwindow, Places
  <2>. QED BY <2>1 DEF Request, Requests
<1>3. \A s \in States : Request("wm_state", w, s) \in Requests
  BY DEF Request, Requests
<1>4. Request("configured", w, None) \in Requests
  BY DEF Request, Requests
<1>5. ASSUME NEW f, NEW v, Request(f, w, v) \in Requests
      PROVE  Unnoticed(w, f, v) \in Seq(Requests)
  <2>. DEFINE r1 == Request("selected", w, FALSE)
              r2 == Request(f, w, v)
              r3 == Request("selected", w, TRUE)
  <2>1. r1 \in Requests /\ r2 \in Requests /\ r3 \in Requests
    BY <1>1, <1>5
  <2>2. Unnoticed(w, f, v) = <<r1, r2, r3>>
    BY DEF Unnoticed
  <2>. HIDE DEF r1, r2, r3
  <2>. QED BY <2>1, <2>2
<1>6. \A s, t \in States : SetState(w, s, t) \in Seq(Requests)
  BY <1>3 DEF SetState
<1>7. ASSUME NEW p \in Places PROVE FitRep(w, p) \in Seq(Requests)
  <2>1. /\ Unnoticed(w, "parent", Xwindow(p)) \in Seq(Requests)
        /\ SendConfig(w) \in Seq(Requests)
    BY <1>2, <1>4, <1>5 DEF SendConfig
  <2>2. (p = Screen) \in BOOLEAN
    OBVIOUS
  <2>3. <<Request("net_fs", w, p = Screen)>> \in Seq(Requests)
    <3>. DEFINE r == Request("net_fs", w, p = Screen)
    <3>1. r \in Requests
      BY <1>1, <2>2
    <3>. HIDE DEF r
    <3>2. <<r>> \in Seq(Requests)
      BY <3>1, OneRequest
    <3>. QED BY <3>2 DEF r
  <2>. QED BY <2>1, <2>3, ConcatProperties DEF FitRep
<1>8. ASSUME NEW s \in States, NEW b \in BOOLEAN
      PROVE  MapRequests(w, s, b) \in Seq(Requests)
  <2>1. Unnoticed(w, "mapped", TRUE) \in Seq(Requests)
        /\ Unnoticed(w, "mapped", FALSE) \in Seq(Requests)
    BY <1>1, <1>5
  <2>2. SetState(w, s, "Normal") \in Seq(Requests) /\ SetState(w, s, "Iconic") \in Seq(Requests)
    BY <1>6 DEF States
  <2>. DEFINE c1 == Unnoticed(w, "mapped", TRUE)
              c2 == Unnoticed(w, "mapped", FALSE)
              n1 == SetState(w, s, "Normal")
              n2 == SetState(w, s, "Iconic")
  <2>3. MapRequests(w, s, b) \in {<<>>, c1 \o n1, n2 \o c2}
    BY DEF MapRequests, ShowRequests, HideRequests
  <2>. HIDE DEF c1, c2, n1, n2
  <2>4. c1 \o n1 \in Seq(Requests) /\ n2 \o c2 \in Seq(Requests)
    BY <2>1, <2>2, ConcatProperties DEF c1, c2, n1, n2
  <2>5. <<>> \in Seq(Requests)
    OBVIOUS
  <2>. QED BY <2>3, <2>4, <2>5
<1>. QED BY <1>1, <1>2, <1>3, <1>4, <1>5, <1>6, <1>7, <1>8

\* What requests q become, as far as window w is concerned, when p adds requests
\* which change no other fields than fs.
Grows(X, q, p, w, fs) ==
    /\ p \in Seq(Requests) /\ Extends(q, p, w)
    /\ Same(X, q, p, w, fs)
    /\ Sound(X, q, w) => Sound(X, p, w)

\* A request that has nothing to do with mapping, the save set and selection
LEMMA PlainMore ==
    ASSUME NEW q \in Seq(Requests), NEW r \in Requests, NEW X, NEW w,
           r.win = w, r.field \in {"wm_state", "net_fs", "configured"}
    PROVE  /\ Grows(X, q, Append(q, r), w, {r.field})
           /\ Final(X, Append(q, r), w, r.field) = r.arg
<1>1. \A f : Final(X, Append(q, r), w, f) =
               IF r.field = f THEN r.arg ELSE Final(X, q, w, f)
  BY OneMoreFinal
<1>2. May(X, q, r, r.win)
  BY DEF May, Unmaps
<1>3. Sound(X, q, w) => Sound(X, Append(q, r), w)
  BY <1>2, OneMoreSound
<1>5. Append(q, r) \in Seq(Requests) /\ Extends(q, Append(q, r), w)
  BY OneMore
<1>6. Same(X, q, Append(q, r), w, {r.field})
  BY <1>1 DEF Same
<1>. QED BY <1>1, <1>3, <1>5, <1>6 DEF Grows

\* set_clientwin_state sets WM_STATE only.
LEMMA SetStateMore ==
    ASSUME NEW q \in Seq(Requests), NEW w \in Windows, NEW s \in States,
           NEW t \in States, NEW X
    PROVE  /\ Grows(X, q, q \o SetState(w, s, t), w, {"wm_state"})
           /\ s = t => Final(X, q \o SetState(w, s, t), w, "wm_state")
                          = Final(X, q, w, "wm_state")
           /\ s # t => Final(X, q \o SetState(w, s, t), w, "wm_state") = t
<1>1. CASE s = t
  <2>1. q \o SetState(w, s, t) = q
    BY <1>1 DEF SetState
  <2>2. Extends(q, q, w) /\ Same(X, q, q, w, {"wm_state"})
    BY DEF Extends, Same
  <2>. QED BY <1>1, <2>1, <2>2 DEF Grows
<1>2. CASE s # t
  <2>. DEFINE r == Request("wm_state", w, t)
  <2>1. r \in Requests /\ r.win = w /\ r.field = "wm_state" /\ r.arg = t
    BY BlocksAreRequests DEF Request
  <2>2. SetState(w, s, t) = <<r>>
    BY <1>2 DEF SetState
  <2>. HIDE DEF r
  <2>3. q \o SetState(w, s, t) = Append(q, r)
    BY <2>1, <2>2
  <2>4. /\ Grows(X, q, Append(q, r), w, {r.field})
        /\ Final(X, Append(q, r), w, r.field) = r.arg
    BY <2>1, PlainMore
  <2>. QED BY <1>2, <2>1, <2>3, <2>4
<1>. QED BY <1>1, <1>2

-----------------------------------------------------------------------------
(* A window is put in a place; it is shown or hidden.                      *)

\* What clientwin_fitrep with the new parent of place c makes of requests q
FitDone(X, q, p, w, c) ==
    /\ p \in Seq(Requests) /\ Extends(q, p, w)
    /\ Same(X, q, p, w, {"parent", "selected", "net_fs"})
    /\ Sound(X, q, w) /\ Final(X, q, w, "saved") => Sound(X, p, w)
    /\ Final(X, p, w, "parent") = Xwindow(c)
    /\ Final(X, p, w, "selected")
    /\ Final(X, p, w, "net_fs") = (c = Screen)
    /\ \E i \in 1 .. Len(p) : Sets(p[i], w, "configured")

\* What clientwin_fitrep asks for puts w in place p.
LEMMA FitRepMore ==
    ASSUME NEW q \in Seq(Requests), NEW w \in Windows, NEW p \in Places, NEW X
    PROVE  FitDone(X, q, q \o FitRep(w, p), w, p)
<1>. DEFINE v == Xwindow(p)
            b == (p = Screen)
            u1 == Unnoticed(w, "parent", v)
            u2 == Unnoticed(w, "configured", None)
            r == Request("net_fs", w, b)
            q1 == q \o u1
            q2 == q1 \o u2
            q3 == Append(q2, r)
<1>1. /\ u1 \in Seq(Requests) /\ u2 \in Seq(Requests) /\ r \in Requests
      /\ Request("parent", w, v) \in Requests
      /\ Request("configured", w, None) \in Requests
  <2>1. b \in BOOLEAN
    OBVIOUS
  <2>2. /\ Request("parent", w, v) \in Requests
        /\ Request("configured", w, None) \in Requests
    BY BlocksAreRequests
  <2>. HIDE DEF b, v
  <2>3. r \in Requests
    BY <2>1, BlocksAreRequests
  <2>. QED BY <2>2, <2>3, BlocksAreRequests
<1>2. r.win = w /\ r.field = "net_fs" /\ r.arg = b
  BY DEF Request
<1>3. FitRep(w, p) = (u1 \o u2) \o <<r>>
  BY DEF FitRep, SendConfig
<1>. HIDE DEF v, b, u1, u2, r
<1>4. q1 \in Seq(Requests) /\ q2 \in Seq(Requests) /\ <<r>> \in Seq(Requests)
  BY <1>1, ConcatProperties, OneRequest
<1>5. q \o FitRep(w, p) = q3
  <2>1. u1 \o u2 \in Seq(Requests)
    BY <1>1, ConcatProperties
  <2>2. q \o FitRep(w, p) = (q \o (u1 \o u2)) \o <<r>>
    BY <1>1, <1>3, <1>4, <2>1, Regrouped
  <2>3. q \o (u1 \o u2) = q2
    BY <1>1, Regrouped
  <2>4. q2 \o <<r>> = q3
    BY <1>1, <1>4
  <2>. QED BY <2>2, <2>3, <2>4
<1>. HIDE DEF q1, q2, q3
<1>6. Changed(X, q, q1, w, "parent", v)
  <2>1. "parent" \in {"parent", "mapped", "configured"}
    OBVIOUS
  <2>2. Changed(X, q, q \o Unnoticed(w, "parent", v), w, "parent", v)
    BY <1>1, <2>1, UnnoticedMore
  <2>. QED BY <2>2 DEF q1, u1
<1>15. /\ q1 \in Seq(Requests) /\ Extends(q, q1, w)
       /\ Final(X, q1, w, "parent") = v /\ Final(X, q1, w, "selected")
       /\ \A g : g \notin {"parent", "selected"} =>
             Final(X, q1, w, g) = Final(X, q, w, g)
       /\ Sound(X, q, w) /\ Final(X, q, w, "saved") => Sound(X, q1, w)
  BY <1>6 DEF Changed
<1>7. Changed(X, q1, q2, w, "configured", None)
  <2>1. "configured" \in {"parent", "mapped", "configured"}
    OBVIOUS
  <2>2. Changed(X, q1, q1 \o Unnoticed(w, "configured", None), w, "configured", None)
    BY <1>1, <1>15, <2>1, UnnoticedMore
  <2>. QED BY <2>2 DEF q2, u2
<1>16. /\ q2 \in Seq(Requests) /\ Extends(q1, q2, w)
       /\ Final(X, q2, w, "selected")
       /\ \A g : g \notin {"configured", "selected"} =>
             Final(X, q2, w, g) = Final(X, q1, w, g)
       /\ Sound(X, q1, w) => Sound(X, q2, w)
       /\ \E i \in 1 .. Len(q2) : Sets(q2[i], w, "configured")
  BY <1>7 DEF Changed
<1>8. Grows(X, q2, q3, w, {r.field}) /\ Final(X, q3, w, r.field) = r.arg
  BY <1>1, <1>2, <1>16, PlainMore DEF q3
<1>17. /\ q3 \in Seq(Requests) /\ Extends(q2, q3, w)
       /\ Same(X, q2, q3, w, {r.field})
       /\ Sound(X, q2, w) => Sound(X, q3, w)
  BY <1>8 DEF Grows
<1>9. Extends(q, q3, w)
  BY <1>15, <1>16, <1>17, ExtendsTransitive
<1>10. Same(X, q, q3, w, {"parent", "selected", "net_fs"})
  <2>1. SUFFICES ASSUME NEW f \in Fields \ {"parent", "selected", "net_fs"}
                 PROVE  Final(X, q3, w, f) = Final(X, q, w, f)
    BY DEF Same
  <2>2. f # "configured" /\ f \in Fields \ {r.field}
    BY <1>2 DEF Fields
  <2>3. Final(X, q3, w, f) = Final(X, q2, w, f)
    BY <1>17, <2>2 DEF Same
  <2>. QED BY <1>15, <1>16, <2>2, <2>3
<1>11. Final(X, q3, w, "parent") = v /\ Final(X, q3, w, "selected")
  <2>1. "parent" \in Fields \ {r.field} /\ "selected" \in Fields \ {r.field}
    BY <1>2 DEF Fields
  <2>2. /\ Final(X, q3, w, "parent") = Final(X, q2, w, "parent")
        /\ Final(X, q3, w, "selected") = Final(X, q2, w, "selected")
    BY <1>17, <2>1 DEF Same
  <2>. QED BY <1>15, <1>16, <2>2
<1>12. Final(X, q3, w, "net_fs") = b
  BY <1>2, <1>8
<1>13. \E i \in 1 .. Len(q3) : Sets(q3[i], w, "configured")
  <2>1. PICK i \in 1 .. Len(q2) : Sets(q2[i], w, "configured")
    BY <1>16
  <2>2. i \in 1 .. Len(q3) /\ q3[i] = q2[i]
    BY <1>16, <1>17 DEF Extends
  <2>. QED BY <2>1, <2>2
<1>14. v = Xwindow(p) /\ b = (p = Screen)
  BY DEF v, b
<1>. HIDE DEF Same
<1>. QED BY <1>5, <1>15, <1>16, <1>17, <1>9, <1>10, <1>11, <1>12, <1>13, <1>14 DEF FitDone

\* What show_clientwin and hide_clientwin make of requests q, when the state
\* was s.
MapDone(X, q, p, w, s, shown) ==
    /\ Grows(X, q, p, w, {"mapped", "wm_state", "selected"})
    /\ Final(X, q, w, "selected") => Final(X, p, w, "selected")
    /\ kind[w] # "acrobatic" => (Final(X, p, w, "mapped") <=> shown)
    /\ kind[w] = "acrobatic" /\ (s = "Normal" => Final(X, q, w, "mapped"))
       /\ (s = "Normal" \/ shown) => Final(X, p, w, "mapped")
    /\ /\ s # "Withdrawn" => Final(X, q, w, "wm_state") = s
       /\ StateOnceMapped(w, s, shown) # "Withdrawn"
       => Final(X, p, w, "wm_state") = StateOnceMapped(w, s, shown)

\* What clientwin_map and clientwin_unmap ask for shows or hides w.
LEMMA MapMore ==
    ASSUME NEW q \in Seq(Requests), NEW w \in Windows, NEW s \in States,
           NEW shown \in BOOLEAN, NEW X
    PROVE  MapDone(X, q, q \o MapRequests(w, s, shown), w, s, shown)
<1>. DEFINE c == Unnoticed(w, "mapped", shown)
<1>1. /\ Request("mapped", w, shown) \in Requests
      /\ c \in Seq(Requests) /\ Len(c) = 3
      /\ \A t \in States : SetState(w, s, t) \in Seq(Requests)
  <2>1. /\ Request("mapped", w, shown) \in Requests
        /\ \A t \in States : SetState(w, s, t) \in Seq(Requests)
    BY BlocksAreRequests
  <2>2. c \in Seq(Requests)
    BY <2>1, BlocksAreRequests
  <2>3. Len(c) = 3
    BY DEF Unnoticed
  <2>. QED BY <2>1, <2>2, <2>3
<1>6. shown => MapRequests(w, s, shown) =
         IF kind[w] = "acrobatic" /\ s = "Normal" THEN <<>>
         ELSE c \o SetState(w, s, "Normal")
  BY DEF MapRequests, ShowRequests
<1>7. ~shown => MapRequests(w, s, shown) =
         IF kind[w] = "acrobatic" THEN <<>> ELSE SetState(w, s, "Iconic") \o c
  BY DEF MapRequests, HideRequests
<1>9. ASSUME NEW p \in Seq(Requests) PROVE Changed(X, p, p \o c, w, "mapped", shown)
  BY <1>1, UnnoticedMore
<1>. HIDE DEF c
<1>2. "mapped" \in {"parent", "mapped", "configured"} /\ "mapped" # "parent"
      /\ "Normal" \in States /\ "Iconic" \in States
  BY DEF States
<1>3. CASE MapRequests(w, s, shown) = <<>>
  <2>1. kind[w] = "acrobatic" /\ (shown => s = "Normal")
    <3>1. /\ Len(c \o SetState(w, s, "Normal")) > 0
          /\ Len(SetState(w, s, "Iconic") \o c) > 0
      <4>. DEFINE n1 == SetState(w, s, "Normal")
                  n2 == SetState(w, s, "Iconic")
      <4>1. n1 \in Seq(Requests) /\ n2 \in Seq(Requests)
        BY <1>1, <1>2
      <4>. HIDE DEF n1, n2
      <4>2. c \in Seq(Requests) /\ Len(c) = 3
        BY <1>1
      <4>4. Len(c \o n1) = Len(c) + Len(n1)
        BY <4>1, <4>2, Regrouped
      <4>5. Len(n2 \o c) = Len(n2) + Len(c)
        BY <4>1, <4>2, Regrouped
      <4>3. Len(c \o n1) > 0 /\ Len(n2 \o c) > 0
        BY <4>1, <4>2, <4>4, <4>5
      <4>. QED BY <4>3 DEF n1, n2
    <3>2. Len(<<>>) = 0
      OBVIOUS
    <3>3. CASE shown
      BY <1>3, <1>6, <3>1, <3>2, <3>3
    <3>4. CASE ~shown
      <4>1. SetState(w, s, "Iconic") \o c # <<>>
        BY <3>1, <3>2
      <4>2. kind[w] = "acrobatic"
        BY <1>3, <1>7, <3>4, <4>1
      <4>. QED BY <3>4, <4>2
    <3>. QED BY <3>3, <3>4
  <2>2. q \o MapRequests(w, s, shown) = q
    BY <1>3
  <2>3. Grows(X, q, q, w, {"mapped", "wm_state", "selected"})
    BY DEF Grows, Extends, Same
  <2>4. StateOnceMapped(w, s, shown) = s
    BY <2>1 DEF StateOnceMapped
  <2>. QED BY <2>1, <2>2, <2>3, <2>4 DEF MapDone
<1>4. CASE MapRequests(w, s, shown) # <<>> /\ shown
  <2>. DEFINE q1 == q \o c
              q2 == q1 \o SetState(w, s, "Normal")
  <2>1. ~(kind[w] = "acrobatic" /\ s = "Normal")
        /\ MapRequests(w, s, shown)
              = c \o SetState(w, s, "Normal")
    BY <1>4, <1>6
  <2>2. q \o MapRequests(w, s, shown) = q2
    <3>. DEFINE n == SetState(w, s, "Normal")
    <3>1. n \in Seq(Requests) /\ c \in Seq(Requests)
      BY <1>1, <1>2
    <3>2. MapRequests(w, s, shown) = c \o n
      BY <2>1
    <3>. HIDE DEF n
    <3>3. q \o (c \o n) = (q \o c) \o n
      BY <3>1, Regrouped
    <3>. QED BY <3>2, <3>3 DEF n
  <2>3. Changed(X, q, q1, w, "mapped", shown)
    BY <1>9
  <2>4. /\ Grows(X, q1, q2, w, {"wm_state"})
        /\ s = "Normal" => Final(X, q2, w, "wm_state") = Final(X, q1, w, "wm_state")
        /\ s # "Normal" => Final(X, q2, w, "wm_state") = "Normal"
    <3>1. q1 \in Seq(Requests)
      BY <2>3 DEF Changed
    <3>. HIDE DEF q1
    <3>. QED BY <1>2, <3>1, SetStateMore
  <2>. HIDE DEF q1, q2
  <2>5. Final(X, q1, w, "mapped") /\ Final(X, q1, w, "selected")
        /\ \A g : g \notin {"mapped", "selected"} =>
               Final(X, q1, w, g) = Final(X, q, w, g)
    BY <1>4, <2>3 DEF Changed
  <2>6. \A f \in Fields \ {"wm_state"} : Final(X, q2, w, f) = Final(X, q1, w, f)
    BY <2>4 DEF Grows, Same
  <2>7. Final(X, q2, w, "mapped") /\ Final(X, q2, w, "selected")
    BY <2>5, <2>6 DEF Fields
  <2>8. Same(X, q, q2, w, {"mapped", "wm_state", "selected"})
    BY <2>5, <2>6 DEF Same, Fields
  <2>9. Extends(q, q2, w) /\ q2 \in Seq(Requests)
    BY <2>3, <2>4, ExtendsTransitive DEF Changed, Grows
  <2>10. Sound(X, q, w) => Sound(X, q2, w)
    BY <2>3, <2>4 DEF Changed, Grows
  <2>11. StateOnceMapped(w, s, shown) = "Normal"
    BY <1>4 DEF StateOnceMapped
  <2>12. (s # "Withdrawn" => Final(X, q, w, "wm_state") = s) =>
            Final(X, q2, w, "wm_state") = "Normal"
    BY <2>4, <2>5
  <2>13. Grows(X, q, q2, w, {"mapped", "wm_state", "selected"})
    BY <2>8, <2>9, <2>10 DEF Grows
  <2>14. MapDone(X, q, q2, w, s, shown)
    BY <1>4, <2>7, <2>11, <2>12, <2>13 DEF MapDone
  <2>. QED BY <2>2, <2>14
<1>5. CASE MapRequests(w, s, shown) # <<>> /\ ~shown
  <2>. DEFINE q1 == q \o SetState(w, s, "Iconic")
              q2 == q1 \o c
  <2>1. kind[w] # "acrobatic"
        /\ MapRequests(w, s, shown)
              = SetState(w, s, "Iconic") \o c
    BY <1>5, <1>7
  <2>2. q \o MapRequests(w, s, shown) = q2
    <3>. DEFINE n == SetState(w, s, "Iconic")
    <3>1. n \in Seq(Requests) /\ c \in Seq(Requests)
      BY <1>1, <1>2
    <3>2. MapRequests(w, s, shown) = n \o c
      BY <2>1
    <3>. HIDE DEF n
    <3>3. q \o (n \o c) = (q \o n) \o c
      BY <3>1, Regrouped
    <3>. QED BY <3>2, <3>3 DEF n
  <2>3. /\ Grows(X, q, q1, w, {"wm_state"})
        /\ s = "Iconic" => Final(X, q1, w, "wm_state") = Final(X, q, w, "wm_state")
        /\ s # "Iconic" => Final(X, q1, w, "wm_state") = "Iconic"
    BY <1>2, SetStateMore
  <2>4. q1 \in Seq(Requests)
    BY <2>3 DEF Grows
  <2>5. Changed(X, q1, q2, w, "mapped", shown)
    BY <1>9, <2>4
  <2>. HIDE DEF q1, q2
  <2>6. \A f \in Fields \ {"wm_state"} : Final(X, q1, w, f) = Final(X, q, w, f)
    BY <2>3 DEF Grows, Same
  <2>7. ~Final(X, q2, w, "mapped") /\ Final(X, q2, w, "selected")
        /\ \A g : g \notin {"mapped", "selected"} =>
               Final(X, q2, w, g) = Final(X, q1, w, g)
    BY <1>5, <2>5 DEF Changed
  <2>8. Same(X, q, q2, w, {"mapped", "wm_state", "selected"})
    BY <2>6, <2>7 DEF Same, Fields
  <2>9. Extends(q, q2, w) /\ q2 \in Seq(Requests)
    BY <2>3, <2>5, ExtendsTransitive DEF Changed, Grows
  <2>11. Sound(X, q, w) => Sound(X, q2, w)
    BY <2>3, <2>5 DEF Changed, Grows
  <2>12. StateOnceMapped(w, s, shown) = "Iconic"
    BY <1>5, <2>1 DEF StateOnceMapped
  <2>13. (s # "Withdrawn" => Final(X, q, w, "wm_state") = s) =>
            Final(X, q2, w, "wm_state") = "Iconic"
    BY <2>3, <2>7
  <2>14. Grows(X, q, q2, w, {"mapped", "wm_state", "selected"})
    BY <2>8, <2>9, <2>11 DEF Grows
  <2>15. MapDone(X, q, q2, w, s, shown)
    BY <1>5, <2>1, <2>7, <2>12, <2>13, <2>14 DEF MapDone
  <2>. QED BY <2>2, <2>15
<1>. QED BY <1>3, <1>4, <1>5

-----------------------------------------------------------------------------
(* Events.                                                                 *)

EventRecords ==
    [type : {"map", "unmap", "destroy", "configure"}, win : Windows, arg : {None}]
    \cup [type : {"net_wm_state"}, win : Windows, arg : BOOLEAN]

Is(e, t, w) == e.type = t /\ e.win = w
Comes(es, t, w) == \E i \in 1 .. Len(es) : Is(es[i], t, w)
\* Each event t of w has an event s of w after it.
Followed(es, t, s, w) ==
    \A i \in 1 .. Len(es) : Is(es[i], t, w) =>
        \E j \in i + 1 .. Len(es) : Is(es[j], s, w)
NoneOf(s, w) == \A i \in 1 .. Len(s) : s[i].win # w
Has(q, w, f) == \E i \in 1 .. Len(q) : Sets(q[i], w, f)

Added(es, p, e) ==
    /\ p \in Seq(EventRecords)
    /\ \A t, u : Comes(p, t, u) <=> Comes(es, t, u) \/ Is(e, t, u)
    /\ \A t, s, u : Followed(es, t, s, u) /\ ~Is(e, t, u) => Followed(p, t, s, u)
    /\ \A t, s, u : Is(e, s, u) /\ ~Is(e, t, u) => Followed(p, t, s, u)
    /\ \A u : NoneOf(es, u) /\ e.win # u => NoneOf(p, u)

\* An event is queued.
LEMMA OneEventMore ==
    ASSUME NEW es \in Seq(EventRecords), NEW e \in EventRecords
    PROVE  Added(es, Append(es, e), e)
<1>. DEFINE p == Append(es, e)
            n == Len(es)
<1>1. /\ p \in Seq(EventRecords) /\ n \in Nat /\ Len(p) = n + 1 /\ p[n + 1] = e
      /\ \A i \in 1 .. n : p[i] = es[i]
  OBVIOUS
<1>. HIDE DEF p
<1>2. \A i \in 1 .. n + 1 : i \in 1 .. n \/ i = n + 1
  OBVIOUS
<1>3. \A t, u : Comes(p, t, u) <=> Comes(es, t, u) \/ Is(e, t, u)
  <2>1. SUFFICES ASSUME NEW t, NEW u
                 PROVE  Comes(p, t, u) <=> Comes(es, t, u) \/ Is(e, t, u)
    OBVIOUS
  <2>2. ASSUME Comes(p, t, u) PROVE Comes(es, t, u) \/ Is(e, t, u)
    BY <1>1, <1>2, <2>2 DEF Comes
  <2>3. ASSUME Comes(es, t, u) PROVE Comes(p, t, u)
    <3>1. PICK i \in 1 .. n : Is(es[i], t, u)
      BY <2>3 DEF Comes
    <3>2. i \in 1 .. n + 1 /\ p[i] = es[i]
      BY <1>1
    <3>. QED BY <1>1, <3>1, <3>2 DEF Comes
  <2>4. ASSUME Is(e, t, u) PROVE Comes(p, t, u)
    <3>1. n + 1 \in 1 .. Len(p)
      BY <1>1
    <3>. QED BY <1>1, <2>4, <3>1 DEF Comes
  <2>. QED BY <2>2, <2>3, <2>4
<1>4. ASSUME NEW t, NEW s, NEW u, Followed(es, t, s, u), ~Is(e, t, u)
      PROVE  Followed(p, t, s, u)
  <2>1. SUFFICES ASSUME NEW i \in 1 .. n + 1, Is(p[i], t, u)
                 PROVE  \E j \in i + 1 .. n + 1 : Is(p[j], s, u)
    BY <1>1 DEF Followed
  <2>2. i \in 1 .. n /\ Is(es[i], t, u)
    BY <1>1, <1>2, <1>4, <2>1
  <2>3. PICK j \in i + 1 .. n : Is(es[j], s, u)
    BY <1>4, <2>2 DEF Followed
  <2>4. j \in 1 .. n /\ j \in i + 1 .. n + 1
    BY <2>2
  <2>. QED BY <1>1, <2>3, <2>4
<1>5. ASSUME NEW t, NEW s, NEW u, Is(e, s, u), ~Is(e, t, u)
      PROVE  Followed(p, t, s, u)
  <2>1. SUFFICES ASSUME NEW i \in 1 .. n + 1, Is(p[i], t, u)
                 PROVE  \E j \in i + 1 .. n + 1 : Is(p[j], s, u)
    BY <1>1 DEF Followed
  <2>2. n + 1 \in i + 1 .. n + 1
    BY <1>1, <1>2, <1>5, <2>1
  <2>. QED BY <1>1, <1>5, <2>2
<1>6. ASSUME NEW u, NoneOf(es, u), e.win # u PROVE NoneOf(p, u)
  BY <1>1, <1>2, <1>6 DEF NoneOf
<1>. QED BY <1>1, <1>3, <1>4, <1>5, <1>6 DEF Added, p

Taken(es, p, e) ==
    /\ p \in Seq(EventRecords) /\ e \in EventRecords
    /\ \A t, u : Comes(es, t, u) <=> Comes(p, t, u) \/ Is(e, t, u)
    /\ \A t, s, u : Followed(es, t, s, u) => Followed(p, t, s, u)
    /\ \A t, s, u : Followed(es, t, s, u) /\ Is(e, t, u) => Comes(p, s, u)
    /\ \A u : NoneOf(es, u) => NoneOf(p, u) /\ e.win # u

\* An event is read.
LEMMA OneEventRead ==
    ASSUME NEW es \in Seq(EventRecords), es # <<>>
    PROVE  Taken(es, Tail(es), Head(es))
<1>. DEFINE p == Tail(es)
            e == Head(es)
            n == Len(p)
<1>1. /\ p \in Seq(EventRecords) /\ n \in Nat /\ Len(es) = n + 1 /\ es[1] = e
      /\ e \in EventRecords /\ \A i \in 1 .. n : p[i] = es[i + 1]
  OBVIOUS
<1>. HIDE DEF p, e
<1>2. \A i \in 1 .. n + 1 : i = 1 \/ (i - 1 \in 1 .. n /\ p[i - 1] = es[i])
  <2>1. SUFFICES ASSUME NEW i \in 1 .. n + 1, i # 1
                 PROVE  i - 1 \in 1 .. n /\ p[i - 1] = es[i]
    OBVIOUS
  <2>2. i - 1 \in 1 .. n /\ i - 1 + 1 = i
    BY <1>1, <2>1
  <2>. QED BY <1>1, <2>2
<1>3. \A t, u : Comes(es, t, u) <=> Comes(p, t, u) \/ Is(e, t, u)
  <2>1. SUFFICES ASSUME NEW t, NEW u
                 PROVE  Comes(es, t, u) <=> Comes(p, t, u) \/ Is(e, t, u)
    OBVIOUS
  <2>2. ASSUME Comes(es, t, u) PROVE Comes(p, t, u) \/ Is(e, t, u)
    BY <1>1, <1>2, <2>2 DEF Comes
  <2>3. ASSUME Comes(p, t, u) PROVE Comes(es, t, u)
    <3>1. PICK i \in 1 .. n : Is(p[i], t, u)
      BY <2>3 DEF Comes
    <3>2. i + 1 \in 1 .. Len(es) /\ p[i] = es[i + 1]
      BY <1>1
    <3>. QED BY <3>1, <3>2 DEF Comes
  <2>4. ASSUME Is(e, t, u) PROVE Comes(es, t, u)
    <3>1. 1 \in 1 .. Len(es)
      BY <1>1
    <3>. QED BY <1>1, <2>4, <3>1 DEF Comes
  <2>. QED BY <2>2, <2>3, <2>4
<1>4. ASSUME NEW t, NEW s, NEW u, Followed(es, t, s, u)
      PROVE  Followed(p, t, s, u)
  <2>1. SUFFICES ASSUME NEW i \in 1 .. n, Is(p[i], t, u)
                 PROVE  \E j \in i + 1 .. n : Is(p[j], s, u)
    BY DEF Followed
  <2>2. i + 1 \in 1 .. Len(es) /\ Is(es[i + 1], t, u)
    BY <1>1, <2>1
  <2>3. PICK j \in i + 1 + 1 .. Len(es) : Is(es[j], s, u)
    BY <1>4, <2>2 DEF Followed
  <2>4. j \in 1 .. n + 1 /\ j # 1 /\ j - 1 \in i + 1 .. n
    BY <1>1
  <2>. QED BY <1>2, <2>3, <2>4
<1>5. ASSUME NEW t, NEW s, NEW u, Followed(es, t, s, u), Is(e, t, u)
      PROVE  Comes(p, s, u)
  <2>1. 1 \in 1 .. Len(es) /\ Is(es[1], t, u)
    BY <1>1, <1>5
  <2>2. PICK j \in 1 + 1 .. Len(es) : Is(es[j], s, u)
    BY <1>5, <2>1 DEF Followed
  <2>3. j \in 1 .. n + 1 /\ j # 1
    BY <1>1
  <2>. QED BY <1>2, <2>2, <2>3 DEF Comes
<1>6. ASSUME NEW u, NoneOf(es, u) PROVE NoneOf(p, u) /\ e.win # u
  <2>1. 1 \in 1 .. Len(es)
    BY <1>1
  <2>2. e.win # u
    BY <1>1, <1>6, <2>1 DEF NoneOf
  <2>3. NoneOf(p, u)
    BY <1>1, <1>6 DEF NoneOf
  <2>. QED BY <2>2, <2>3
<1>. QED BY <1>1, <1>3, <1>4, <1>5, <1>6 DEF Taken, p, e

\* There are no events in an empty queue, and no requests.
LEMMA NoEvents ==
    /\ \A t, u : ~Comes(<<>>, t, u)
    /\ \A t, s, u : Followed(<<>>, t, s, u)
    /\ \A u : NoneOf(<<>>, u)
BY DEF Comes, Followed, NoneOf

\* A window of which there are no events has none to come.
LEMMA NoneComes ==
    ASSUME NEW es, NEW u, NoneOf(es, u)
    PROVE  /\ \A t : ~Comes(es, t, u)
           /\ \A t, s : Followed(es, t, s, u)
BY DEF NoneOf, Comes, Followed, Is

\* A window that is saved in the end is saved before, or is to be.
LEMMA SavedIsKept ==
    ASSUME NEW q \in Seq(Requests), NEW X, NEW w, Final(X, q, w, "saved")
    PROVE  Kept(X, q, w)
<1>. DEFINE n == Len(q)
<1>1. n \in Nat
  OBVIOUS
<1>2. SUFFICES ASSUME NEW k \in 0 .. n,
                      ~\E i \in k + 1 .. n : Saves(q[i], w)
               PROVE  After(X, q, k, w, "saved")
  BY DEF Kept, Safe
<1>. DEFINE L(j) == Latest(q, j, w, "saved")
            c == CHOOSE i \in L(n) : TRUE
<1>3. CASE L(n) = {}
  <2>1. X[w]["saved"]
    BY <1>3 DEF Final, After
  <2>2. L(k) = {}
    <3>1. ASSUME NEW i \in 1 .. n PROVE ~Sets(q[i], w, "saved")
      <4>. DEFINE S == {j \in 1 .. n : Sets(q[j], w, "saved")}
      <4>1. SUFFICES ASSUME S # {} PROVE FALSE
        BY <3>1
      <4>2. S \in SUBSET Int /\ IsFiniteSet(S)
        <5>1. IsFiniteSet(1 .. n) /\ S \subseteq 1 .. n
          BY <1>1, FS_Interval
        <5>. QED BY <5>1, FS_Subset
      <4>3. PICK m \in S : \A j \in S : j <= m
        <5>. HIDE DEF S
        <5>. QED BY <4>1, <4>2, GreatestInt
      <4>4. m \in L(n)
        <5>1. \A j \in m + 1 .. n : j \in 1 .. n /\ ~(j <= m)
          BY <4>3
        <5>2. \A j \in m + 1 .. n : ~Sets(q[j], w, "saved")
          BY <4>3, <5>1
        <5>. QED BY <4>3, <5>2 DEF Latest
      <4>. QED BY <1>3, <4>4
    <3>. QED BY <1>1, <3>1 DEF Latest
  <2>. QED BY <2>1, <2>2 DEF After
<1>4. CASE L(n) # {}
  <2>1. c \in L(n)
    BY <1>4
  <2>2. q[c].arg
    BY <1>4 DEF Final, After
  <2>. HIDE DEF c
  <2>3. c \in 1 .. n /\ Sets(q[c], w, "saved")
        /\ \A j \in c + 1 .. n : ~Sets(q[j], w, "saved")
    BY <2>1 DEF Latest
  <2>4. c \notin k + 1 .. n
    BY <1>2, <2>2, <2>3 DEF Saves, Sets
  <2>5. c \in 1 .. k
    BY <1>1, <2>3, <2>4
  <2>6. c \in L(k)
    <3>1. \A j \in c + 1 .. k : j \in c + 1 .. n
      BY <1>1, <2>5
    <3>. QED BY <2>3, <2>5, <3>1 DEF Latest
  <2>7. \A i \in L(k) : i = c
    <3>1. SUFFICES ASSUME NEW i \in L(k), i # c PROVE FALSE
      OBVIOUS
    <3>2. i \in 1 .. k /\ Sets(q[i], w, "saved")
          /\ \A j \in i + 1 .. k : ~Sets(q[j], w, "saved")
      BY DEF Latest
    <3>3. i \in c + 1 .. n \/ c \in i + 1 .. k
      BY <1>1, <2>5, <3>1, <3>2
    <3>. QED BY <2>3, <3>2, <3>3
  <2>8. L(k) # {} /\ (CHOOSE i \in L(k) : TRUE) = c
    BY <2>6, <2>7
  <2>. QED BY <2>2, <2>8 DEF After
<1>. QED BY <1>3, <1>4

\* Of a window that no request is about, the server will know what it knows.
Bare(X, q, w) ==
    /\ \A f : Final(X, q, w, f) = X[w][f]
    /\ Sound(X, q, w)
    /\ X[w]["mapped"] \/ X[w]["saved"] => Kept(X, q, w)
    /\ Kept(X, q, w) => X[w]["mapped"] \/ X[w]["saved"]
    /\ \A f : ~Has(q, w, f)

\* A window of which nothing is asked
LEMMA NoRequests ==
    ASSUME NEW q \in Seq(Requests), NEW X, NEW w, NoneOf(q, w)
    PROVE  Bare(X, q, w)
<1>1. \A k \in 0 .. Len(q) : \A f : After(X, q, k, w, f) = X[w][f]
  <2>1. ASSUME NEW k \in 0 .. Len(q), NEW f PROVE Latest(q, k, w, f) = {}
    BY DEF NoneOf, Latest, Sets
  <2>. QED BY <2>1 DEF After
<1>2. Len(q) \in 0 .. Len(q) /\ 0 \in 0 .. Len(q)
  OBVIOUS
<1>3. \A f : Final(X, q, w, f) = X[w][f]
  BY <1>1, <1>2 DEF Final
<1>4. Sound(X, q, w)
  BY DEF Sound, NoneOf
<1>5. \A f : ~Has(q, w, f)
  BY DEF Has, NoneOf, Sets
<1>6. X[w]["mapped"] \/ X[w]["saved"] => Kept(X, q, w)
  BY <1>1 DEF Kept, Safe
<1>7. Kept(X, q, w) => X[w]["mapped"] \/ X[w]["saved"]
  <2>1. \A i \in 0 + 1 .. Len(q) : ~Saves(q[i], w)
    BY DEF NoneOf, Saves
  <2>. QED BY <1>1, <1>2, <2>1 DEF Kept, Safe
<1>. QED BY <1>3, <1>4, <1>5, <1>6, <1>7 DEF Bare

\* What the server now knows of other windows does not matter.
LEMMA SameWindow ==
    ASSUME NEW q, NEW X, NEW Y, NEW w,
           \A f : Y[w][f] = X[w][f]
    PROVE  /\ \A f : Final(Y, q, w, f) = Final(X, q, w, f)
           /\ Sound(X, q, w) => Sound(Y, q, w)
           /\ Kept(X, q, w) => Kept(Y, q, w)
<1>1. \A k, f : After(Y, q, k, w, f) = After(X, q, k, w, f)
  BY DEF After
<1>. QED BY <1>1 DEF Final, Sound, Allowed, Kept, Safe

\* The window is mapped or unmapped by its client.
MappingDone(X, Y, q, w) ==
    /\ \A f \in Fields \ {"mapped"} : Final(Y, q, w, f) = Final(X, q, w, f)
    /\ Sound(X, q, w) => Sound(Y, q, w)
    /\ ~Has(q, w, "mapped") => Final(Y, q, w, "mapped") = Y[w]["mapped"]
    /\ ~Has(q, w, "mapped") /\ Y[w]["mapped"] => Kept(Y, q, w)

\* The window is mapped or unmapped by its client.
LEMMA MappedByClient ==
    ASSUME NEW q \in Seq(Requests), NEW X, NEW Y, NEW w,
           \A f \in Fields \ {"mapped"} : Y[w][f] = X[w][f]
    PROVE  MappingDone(X, Y, q, w)
<1>1. \A f \in Fields \ {"mapped"} : \A k : After(Y, q, k, w, f) = After(X, q, k, w, f)
  BY DEF After
<1>2. /\ "selected" \in Fields \ {"mapped"} /\ "saved" \in Fields \ {"mapped"}
      /\ "parent" \in Fields \ {"mapped"}
  BY DEF Fields
<1>3. Sound(X, q, w) => Sound(Y, q, w)
  BY <1>1, <1>2 DEF Sound, Allowed
<1>4. ASSUME ~Has(q, w, "mapped"), NEW k \in 0 .. Len(q)
      PROVE  After(Y, q, k, w, "mapped") = Y[w]["mapped"]
  <2>1. Latest(q, k, w, "mapped") = {}
    BY <1>4 DEF Has, Latest
  <2>. QED BY <2>1 DEF After
<1>5. Len(q) \in 0 .. Len(q)
  OBVIOUS
<1>. QED BY <1>1, <1>3, <1>4, <1>5 DEF MappingDone, Final, Kept, Safe

-----------------------------------------------------------------------------
(* What the operations of the window manager ask for.                      *)

\* Requests p, which the server gets when it knows Y, are for window u what q
\* are when it knows X.
Unaffected(X, q, Y, p, u) ==
    /\ \A f : Final(Y, p, u, f) = Final(X, q, u, f)
    /\ Sound(X, q, u) => Sound(Y, p, u)
    /\ Kept(X, q, u) => Kept(Y, p, u)
    /\ \A f : Has(p, u, f) <=> Has(q, u, f)
    /\ NoneOf(q, u) => NoneOf(p, u)

\* Requests of w do not affect u.
LEMMA OthersUnaffected ==
    ASSUME NEW q \in Seq(Requests), NEW p \in Seq(Requests), NEW X, NEW w,
           NEW u, u # w, Extends(q, p, w)
    PROVE  Unaffected(X, q, X, p, u)
<1>1. /\ \A f : Final(X, p, u, f) = Final(X, q, u, f)
      /\ Sound(X, q, u) => Sound(X, p, u)
      /\ Kept(X, q, u) => Kept(X, p, u)
      /\ \A i \in 1 .. Len(p) : p[i].win = u => i \in 1 .. Len(q) /\ p[i] = q[i]
  BY OthersLeft
<1>2. \A i \in 1 .. Len(q) : i \in 1 .. Len(p) /\ p[i] = q[i]
  BY DEF Extends
<1>3. \A f : Has(p, u, f) <=> Has(q, u, f)
  BY <1>1, <1>2 DEF Has, Sets
<1>4. NoneOf(q, u) => NoneOf(p, u)
  BY <1>1 DEF NoneOf
<1>. QED BY <1>1, <1>3, <1>4 DEF Unaffected

\* What changes of other windows does not affect u.
LEMMA ChangeUnaffected ==
    ASSUME NEW q \in Seq(Requests), NEW X, NEW Y, NEW u, \A f : Y[u][f] = X[u][f]
    PROVE  Unaffected(X, q, Y, q, u)
<1>1. /\ \A f : Final(Y, q, u, f) = Final(X, q, u, f)
      /\ Sound(X, q, u) => Sound(Y, q, u)
      /\ Kept(X, q, u) => Kept(Y, q, u)
  BY SameWindow
<1>. QED BY <1>1 DEF Unaffected

\* Requests are not taken back.
LEMMA HasMore ==
    ASSUME NEW q \in Seq(Requests), NEW p \in Seq(Requests), NEW w, NEW u, NEW f,
           Extends(q, p, w), Has(q, u, f)
    PROVE  Has(p, u, f)
<1>1. PICK i \in 1 .. Len(q) : Sets(q[i], u, f)
  BY DEF Has
<1>2. i \in 1 .. Len(p) /\ p[i] = q[i]
  BY DEF Extends
<1>. QED BY <1>1, <1>2 DEF Has

\* What one request, that sets field f of w to v, makes of requests q
Sent(X, q, p, w, f, v) ==
    /\ p \in Seq(Requests) /\ Extends(q, p, w)
    /\ \A g : Final(X, p, w, g) = IF g = f THEN v ELSE Final(X, q, w, g)
    /\ Sound(X, q, w) /\ May(X, q, Request(f, w, v), w) => Sound(X, p, w)
    /\ Kept(X, q, w) /\ FinallySafe(X, p, w) => Kept(X, p, w)
    /\ \A g : Has(p, w, g) <=> Has(q, w, g) \/ g = f

\* One request does what it says.
LEMMA OneSent ==
    ASSUME NEW q \in Seq(Requests), NEW w \in Windows, NEW X, NEW f, NEW v,
           Request(f, w, v) \in Requests
    PROVE  Sent(X, q, Append(q, Request(f, w, v)), w, f, v)
<1>. DEFINE r == Request(f, w, v)
            p == Append(q, r)
<1>1. r \in Requests /\ r.win = w /\ r.field = f /\ r.arg = v
  BY DEF Request
<1>. HIDE DEF r
<1>2. p \in Seq(Requests) /\ Extends(q, p, w) /\ Len(p) = Len(q) + 1 /\ p[Len(q) + 1] = r
  BY <1>1, OneMore
<1>3. \A g : Final(X, p, w, g) = IF g = f THEN v ELSE Final(X, q, w, g)
  <2>1. ASSUME NEW g
        PROVE  Final(X, p, w, g) = IF r.field = g THEN r.arg ELSE Final(X, q, w, g)
    BY <1>1, OneMoreFinal
  <2>. QED BY <1>1, <2>1
<1>4. Sound(X, q, w) /\ May(X, q, r, w) => Sound(X, p, w)
  BY <1>1, OneMoreSound
<1>5. Kept(X, q, w) /\ FinallySafe(X, p, w) => Kept(X, p, w)
  BY <1>1, OneMoreKept
<1>6. ASSUME NEW g PROVE Has(p, w, g) <=> Has(q, w, g) \/ g = f
  <2>1. ASSUME Has(q, w, g) PROVE Has(p, w, g)
    BY <1>2, <2>1, HasMore
  <2>2. ASSUME g = f PROVE Has(p, w, g)
    <3>1. Len(q) + 1 \in 1 .. Len(p)
      BY <1>2
    <3>. QED BY <1>1, <1>2, <2>2, <3>1 DEF Has, Sets
  <2>3. ASSUME Has(p, w, g) PROVE Has(q, w, g) \/ g = f
    <3>1. PICK i \in 1 .. Len(p) : Sets(p[i], w, g)
      BY <2>3 DEF Has
    <3>2. CASE i \in 1 .. Len(q)
      BY <1>2, <3>1, <3>2 DEF Has, Extends
    <3>3. CASE i = Len(q) + 1
      BY <1>1, <1>2, <3>1, <3>3 DEF Sets
    <3>. QED BY <1>2, <3>2, <3>3
  <2>. QED BY <2>1, <2>2, <2>3
<1>. QED BY <1>2, <1>3, <1>4, <1>5, <1>6 DEF Sent, r

\* What it makes of requests q to put window c of w in place d.
PutDone(X, q, p, w, c, d, shown) ==
    /\ p \in Seq(Requests) /\ Extends(q, p, w)
    /\ Sound(X, q, w) /\ Final(X, q, w, "saved") => Sound(X, p, w)
    /\ Final(X, p, w, "parent") = Xwindow(d)
    /\ Final(X, q, w, "saved") => Final(X, p, w, "saved")
    /\ Final(X, p, w, "selected")
    /\ Final(X, p, w, "net_fs") = (d = Screen)
    /\ kind[w] # "acrobatic" => (Final(X, p, w, "mapped") <=> shown)
    /\ kind[w] = "acrobatic" /\ (c.state = "Normal" => Final(X, q, w, "mapped"))
       /\ (c.state = "Normal" \/ shown) => Final(X, p, w, "mapped")
    /\ /\ c.state # "Withdrawn" => Final(X, q, w, "wm_state") = c.state
       /\ StateOnceMapped(w, c.state, shown) # "Withdrawn"
       => Final(X, p, w, "wm_state") = StateOnceMapped(w, c.state, shown)
    /\ Has(p, w, "configured")

\* PutRequests puts w in place d, and shows or hides it there.
LEMMA PutMore ==
    ASSUME NEW q \in Seq(Requests), NEW w \in Windows, NEW d \in Places,
           NEW shown \in BOOLEAN, NEW X, NEW c, c.state \in States
    PROVE  PutDone(X, q, q \o PutRequests(w, c, d, shown), w, c, d, shown)
<1>. DEFINE s == c.state
            m == MapRequests(w, s, shown)
            q1 == q \o FitRep(w, d)
            q2 == q1 \o m
<1>1. q \o PutRequests(w, c, d, shown) = q2
  <2>. DEFINE n == FitRep(w, d)
  <2>1. n \in Seq(Requests) /\ m \in Seq(Requests)
    BY BlocksAreRequests
  <2>2. PutRequests(w, c, d, shown) = n \o m
    BY DEF PutRequests
  <2>. HIDE DEF n, m
  <2>3. q \o (n \o m) = (q \o n) \o m
    BY <2>1, Regrouped
  <2>. QED BY <2>2, <2>3 DEF n
<1>2. FitDone(X, q, q1, w, d)
  BY FitRepMore
<1>3. /\ q1 \in Seq(Requests) /\ Extends(q, q1, w)
      /\ \A f \in Fields \ {"parent", "selected", "net_fs"} :
            Final(X, q1, w, f) = Final(X, q, w, f)
      /\ Sound(X, q, w) /\ Final(X, q, w, "saved") => Sound(X, q1, w)
      /\ Final(X, q1, w, "parent") = Xwindow(d)
      /\ Final(X, q1, w, "selected")
      /\ Final(X, q1, w, "net_fs") = (d = Screen)
      /\ Has(q1, w, "configured")
  BY <1>2 DEF FitDone, Same, Has
<1>. HIDE DEF q1, s
<1>4. s \in States
  BY DEF s
<1>5. MapDone(X, q1, q2, w, s, shown)
  BY <1>3, <1>4, MapMore
<1>. HIDE DEF q2
<1>6. /\ q2 \in Seq(Requests) /\ Extends(q1, q2, w)
      /\ \A f \in Fields \ {"mapped", "wm_state", "selected"} :
            Final(X, q2, w, f) = Final(X, q1, w, f)
      /\ Sound(X, q1, w) => Sound(X, q2, w)
      /\ Final(X, q1, w, "selected") => Final(X, q2, w, "selected")
      /\ kind[w] # "acrobatic" => (Final(X, q2, w, "mapped") <=> shown)
      /\ kind[w] = "acrobatic" /\ (s = "Normal" => Final(X, q1, w, "mapped"))
         /\ (s = "Normal" \/ shown) => Final(X, q2, w, "mapped")
      /\ /\ s # "Withdrawn" => Final(X, q1, w, "wm_state") = s
         /\ StateOnceMapped(w, s, shown) # "Withdrawn"
         => Final(X, q2, w, "wm_state") = StateOnceMapped(w, s, shown)
  BY <1>5 DEF MapDone, Grows, Same
<1>7. /\ Final(X, q1, w, "mapped") = Final(X, q, w, "mapped")
      /\ Final(X, q1, w, "wm_state") = Final(X, q, w, "wm_state")
      /\ Final(X, q, w, "saved") => Final(X, q2, w, "saved")
      /\ Final(X, q2, w, "parent") = Xwindow(d)
      /\ Final(X, q2, w, "net_fs") = (d = Screen)
  <2>1. /\ "mapped" \in Fields \ {"parent", "selected", "net_fs"}
        /\ "wm_state" \in Fields \ {"parent", "selected", "net_fs"}
        /\ "saved" \in Fields \ {"parent", "selected", "net_fs"}
        /\ "saved" \in Fields \ {"mapped", "wm_state", "selected"}
        /\ "parent" \in Fields \ {"mapped", "wm_state", "selected"}
        /\ "net_fs" \in Fields \ {"mapped", "wm_state", "selected"}
    BY DEF Fields
  <2>. QED BY <1>3, <1>6, <2>1
<1>8. Extends(q, q2, w)
  BY <1>3, <1>6, ExtendsTransitive
<1>9. Has(q2, w, "configured")
  BY <1>3, <1>6, HasMore
<1>10. PutDone(X, q, q2, w, c, d, shown)
  BY <1>3, <1>6, <1>7, <1>8, <1>9 DEF PutDone, s
<1>. QED BY <1>1, <1>10

\* clientwin_init
Created(X, q, p, w) ==
    /\ p \in Seq(Requests) /\ Extends(q, p, w)
    /\ \A g : Final(X, p, w, g) = IF g \in {"selected", "saved"} THEN TRUE
                                  ELSE Final(X, q, w, g)
    /\ Sound(X, q, w) => Sound(X, p, w)
    /\ Has(p, w, "mapped") => Has(q, w, "mapped")

\* Create selects its events and saves it.
LEMMA CreateMore ==
    ASSUME NEW q \in Seq(Requests), NEW w \in Windows, NEW X
    PROVE  Created(X, q, q \o Create(w), w)
<1>. DEFINE r1 == Request("selected", w, TRUE)
            r2 == Request("saved", w, TRUE)
            q1 == Append(q, r1)
            q2 == Append(q1, r2)
<1>1. r1 \in Requests /\ r2 \in Requests
  BY DEF Request, Requests
<1>2. q \o Create(w) = q2
  <2>1. Create(w) = <<r1, r2>>
    BY DEF Create
  <2>. HIDE DEF r1, r2
  <2>. QED BY <1>1, <2>1, OneByOne
<1>3. Sent(X, q, q1, w, "selected", TRUE)
  BY <1>1, OneSent
<1>4. q1 \in Seq(Requests)
  BY <1>3 DEF Sent
<1>. HIDE DEF q1
<1>5. Sent(X, q1, q2, w, "saved", TRUE)
  BY <1>1, <1>4, OneSent
<1>. HIDE DEF q2
<1>6. May(X, q, r1, w) /\ May(X, q1, r2, w)
  BY DEF May, Unmaps, Request
<1>7. Extends(q, q2, w)
  BY <1>3, <1>5, ExtendsTransitive DEF Sent
<1>. QED BY <1>2, <1>3, <1>5, <1>6, <1>7 DEF Sent, Created

\* clientwin_destroyed, of a window that is on the root window
LetGo(X, q, p, w) ==
    /\ p \in Seq(Requests) /\ Extends(q, p, w)
    /\ \A g : Final(X, p, w, g) = IF g \in {"selected", "saved"} THEN FALSE
                                  ELSE Final(X, q, w, g)
    /\ Sound(X, q, w) /\ Final(X, q, w, "parent") = None => Sound(X, p, w)
    /\ Has(p, w, "mapped") => Has(q, w, "mapped")

\* The requests of clientwin_destroyed take back both.
LEMMA LetGoMore ==
    ASSUME NEW q \in Seq(Requests), NEW w \in Windows, NEW X
    PROVE  LetGo(X, q, q \o <<Request("saved", w, FALSE),
                              Request("selected", w, FALSE)>>, w)
<1>. DEFINE r1 == Request("saved", w, FALSE)
            r2 == Request("selected", w, FALSE)
            q1 == Append(q, r1)
            q2 == Append(q1, r2)
<1>1. r1 \in Requests /\ r2 \in Requests
  BY DEF Request, Requests
<1>2. q \o <<r1, r2>> = q2
  <2>. HIDE DEF r1, r2
  <2>. QED BY <1>1, OneByOne
<1>3. Sent(X, q, q1, w, "saved", FALSE)
  BY <1>1, OneSent
<1>4. q1 \in Seq(Requests)
  BY <1>3 DEF Sent
<1>. HIDE DEF q1
<1>5. Sent(X, q1, q2, w, "selected", FALSE)
  BY <1>1, <1>4, OneSent
<1>. HIDE DEF q2
<1>6. /\ Final(X, q, w, "parent") = None => May(X, q, r1, w)
      /\ May(X, q1, r2, w)
  BY DEF May, Unmaps, Request
<1>7. Extends(q, q2, w)
  BY <1>3, <1>5, ExtendsTransitive DEF Sent
<1>8. LetGo(X, q, q2, w)
  BY <1>3, <1>5, <1>6, <1>7 DEF Sent, LetGo
<1>. QED BY <1>2, <1>8

\* clientwin_unmapped and clientwin_deinit begin
Parted(X, q, p, w) ==
    /\ p \in Seq(Requests) /\ Extends(q, p, w)
    /\ \A g : Final(X, p, w, g) = IF g \in {"selected", "mapped"} THEN FALSE
                                  ELSE Final(X, q, w, g)
    /\ Sound(X, q, w) => Sound(X, p, w)

\* The requests of StartDeinit unmap it unnoticed.
LEMMA StartDeinitMore ==
    ASSUME NEW q \in Seq(Requests), NEW w \in Windows, NEW X
    PROVE  Parted(X, q, q \o <<Request("selected", w, FALSE),
                               Request("mapped", w, FALSE)>>, w)
<1>. DEFINE r1 == Request("selected", w, FALSE)
            r2 == Request("mapped", w, FALSE)
            q1 == Append(q, r1)
            q2 == Append(q1, r2)
<1>1. r1 \in Requests /\ r2 \in Requests
  BY DEF Request, Requests
<1>2. q \o <<r1, r2>> = q2
  <2>. HIDE DEF r1, r2
  <2>. QED BY <1>1, OneByOne
<1>3. Sent(X, q, q1, w, "selected", FALSE)
  BY <1>1, OneSent
<1>4. q1 \in Seq(Requests) /\ ~Final(X, q1, w, "selected")
  BY <1>3 DEF Sent
<1>. HIDE DEF q1
<1>5. Sent(X, q1, q2, w, "mapped", FALSE)
  BY <1>1, <1>4, OneSent
<1>. HIDE DEF q2
<1>6. May(X, q, r1, w) /\ May(X, q1, r2, w)
  BY <1>4 DEF May, Unmaps, Request
<1>7. Extends(q, q2, w)
  BY <1>3, <1>5, ExtendsTransitive DEF Sent
<1>8. Parted(X, q, q2, w)
  BY <1>3, <1>5, <1>6, <1>7 DEF Sent, Parted
<1>. QED BY <1>2, <1>8

\* clientwin_deinit ends: of a window that has gone only "saved" is sent.
LeftTo(w) ==
    IF up = "deinit" THEN <<Request("mapped", w, TRUE)>>
    ELSE SetState(w, cwin[w].state, "Withdrawn") \o <<Request("net_fs", w, FALSE)>>
Freed(X, q, p, w) ==
    /\ p \in Seq(Requests) /\ Extends(q, p, w)
    /\ Final(X, p, w, "parent") = None /\ ~Final(X, p, w, "saved")
    /\ Final(X, p, w, "selected") = Final(X, q, w, "selected")
    /\ up = "deinit" => Final(X, p, w, "mapped")
    /\ up # "deinit" => Final(X, p, w, "mapped") = Final(X, q, w, "mapped")
    /\ Sound(X, q, w) /\ ~Final(X, q, w, "selected") => Sound(X, p, w)
    /\ Kept(X, q, w) /\ up = "deinit" => Kept(X, p, w)

\* The requests of Deinit put it back on the root window.
LEMMA DeinitMore ==
    ASSUME NEW q \in Seq(Requests), NEW w \in Windows, NEW X,
           cwin[w].state \in States
    PROVE  /\ Freed(X, q, q \o ((<<Request("parent", w, None)>> \o LeftTo(w))
                               \o <<Request("saved", w, FALSE)>>), w)
           /\ q \o <<Request("saved", w, FALSE)>> \in Seq(Requests)
           /\ Extends(q, q \o <<Request("saved", w, FALSE)>>, w)
<1>. DEFINE r1 == Request("parent", w, None)
            l == LeftTo(w)
            r3 == Request("saved", w, FALSE)
            q1 == Append(q, r1)
            q2 == q1 \o l
            q3 == Append(q2, r3)
<1>1. r1 \in Requests /\ r3 \in Requests
  BY DEF Request, Requests
<1>2. Sent(X, q, q1, w, "parent", None)
  BY <1>1, OneSent
<1>3. q1 \in Seq(Requests)
  BY <1>2 DEF Sent
<1>. HIDE DEF q1
<1>4. /\ l \in Seq(Requests) /\ q2 \in Seq(Requests) /\ Extends(q1, q2, w)
      /\ Final(X, q2, w, "parent") = Final(X, q1, w, "parent")
      /\ Final(X, q2, w, "selected") = Final(X, q1, w, "selected")
      /\ Final(X, q2, w, "saved") = Final(X, q1, w, "saved")
      /\ up = "deinit" => Final(X, q2, w, "mapped")
      /\ up # "deinit" => Final(X, q2, w, "mapped") = Final(X, q1, w, "mapped")
      /\ Sound(X, q1, w) => Sound(X, q2, w)
      /\ Kept(X, q1, w) /\ up = "deinit" => Kept(X, q2, w)
  <2>1. CASE up = "deinit"
    <3>. DEFINE r2 == Request("mapped", w, TRUE)
    <3>1. r2 \in Requests /\ r2.field = "mapped" /\ r2.arg
      BY DEF Request, Requests
    <3>2. l = <<r2>>
      BY <2>1 DEF LeftTo
    <3>3. Sent(X, q1, Append(q1, r2), w, "mapped", TRUE)
      BY <1>3, <3>1, OneSent
    <3>4. May(X, q1, r2, w)
      BY DEF May, Unmaps, Request
    <3>. HIDE DEF r2
    <3>5. l \in Seq(Requests) /\ q2 = Append(q1, r2)
      BY <1>3, <3>1, <3>2, OneRequest
    <3>. HIDE DEF q2
    <3>6. FinallySafe(X, q2, w)
      BY <3>3, <3>5 DEF Sent, FinallySafe
    <3>. QED BY <2>1, <3>3, <3>4, <3>5, <3>6 DEF Sent, r2
  <2>2. CASE up # "deinit"
    <3>. DEFINE t == SetState(w, cwin[w].state, "Withdrawn")
                r2 == Request("net_fs", w, FALSE)
                p1 == q1 \o t
    <3>1. "Withdrawn" \in States
      BY DEF States
    <3>2. Grows(X, q1, p1, w, {"wm_state"})
      BY <1>3, <3>1, SetStateMore
    <3>3. /\ r2 \in Requests /\ r2.win = w /\ r2.field = "net_fs"
          /\ t \in Seq(Requests)
      BY <3>1, BlocksAreRequests DEF Request, Requests
    <3>4. p1 \in Seq(Requests)
      BY <3>2 DEF Grows
    <3>. HIDE DEF p1, r2, t
    <3>5. Grows(X, p1, Append(p1, r2), w, {"net_fs"})
      BY <3>3, <3>4, PlainMore
    <3>6. l = t \o <<r2>>
      BY <2>2 DEF LeftTo, t, r2
    <3>7. l \in Seq(Requests)
      BY <3>3, <3>6, OneRequest, ConcatProperties
    <3>8. q2 = Append(p1, r2)
      <4>1. q1 \o (t \o <<r2>>) = (q1 \o t) \o <<r2>>
        BY <1>3, <3>3, OneRequest, Regrouped
      <4>2. p1 \o <<r2>> = Append(p1, r2)
        BY <3>3, <3>4
      <4>. QED BY <3>6, <4>1, <4>2 DEF p1
    <3>. HIDE DEF q2, l
    <3>9. /\ \A f \in Fields \ {"wm_state"} : Final(X, p1, w, f) = Final(X, q1, w, f)
          /\ \A f \in Fields \ {"net_fs"} : Final(X, q2, w, f) = Final(X, p1, w, f)
      BY <3>2, <3>5, <3>8 DEF Grows, Same
    <3>10. \A f \in {"parent", "selected", "saved", "mapped"} :
              Final(X, q2, w, f) = Final(X, q1, w, f)
      BY <3>9 DEF Fields
    <3>11. q2 \in Seq(Requests) /\ Extends(q1, q2, w)
      BY <1>3, <3>2, <3>5, <3>8, ExtendsTransitive DEF Grows
    <3>12. Sound(X, q1, w) => Sound(X, q2, w)
      BY <3>2, <3>5, <3>8 DEF Grows
    <3>. QED BY <2>2, <3>7, <3>10, <3>11, <3>12
  <2>. QED BY <2>1, <2>2
<1>5. q \o ((<<r1>> \o l) \o <<r3>>) = q3
  <2>. HIDE DEF r1, l, r3
  <2>1. <<r1>> \in Seq(Requests) /\ <<r3>> \in Seq(Requests)
        /\ <<r1>> \o l \in Seq(Requests)
    BY <1>1, <1>4, OneRequest, ConcatProperties
  <2>2. q \o ((<<r1>> \o l) \o <<r3>>) = (q \o (<<r1>> \o l)) \o <<r3>>
    BY <2>1, Regrouped
  <2>3. q \o (<<r1>> \o l) = (q \o <<r1>>) \o l
    BY <1>4, <2>1, Regrouped
  <2>4. q \o <<r1>> = q1
    BY <1>1 DEF q1
  <2>5. q2 \o <<r3>> = q3
    BY <1>1, <1>4
  <2>. QED BY <2>2, <2>3, <2>4, <2>5
<1>. HIDE DEF q2
<1>6. Sent(X, q2, q3, w, "saved", FALSE)
  BY <1>1, <1>4, OneSent
<1>7. Sent(X, q, Append(q, r3), w, "saved", FALSE)
  BY <1>1, OneSent
<1>8. q \o <<r3>> = Append(q, r3)
  <2>. HIDE DEF r3
  <2>. QED BY <1>1
<1>. HIDE DEF q3
<1>9. /\ ~Final(X, q, w, "selected") => May(X, q, r1, w)
      /\ Final(X, q2, w, "parent") = None => May(X, q2, r3, w)
  BY DEF May, Unmaps, Request
<1>10. Extends(q, q3, w)
  BY <1>2, <1>4, <1>6, ExtendsTransitive DEF Sent
<1>11. /\ Final(X, q3, w, "parent") = None /\ ~Final(X, q3, w, "saved")
       /\ Final(X, q3, w, "selected") = Final(X, q, w, "selected")
       /\ Final(X, q2, w, "parent") = None
       /\ up = "deinit" => Final(X, q3, w, "mapped")
       /\ up # "deinit" => Final(X, q3, w, "mapped") = Final(X, q, w, "mapped")
  BY <1>2, <1>4, <1>6 DEF Sent
<1>12. Sound(X, q, w) /\ ~Final(X, q, w, "selected") => Sound(X, q3, w)
  BY <1>2, <1>4, <1>6, <1>9, <1>11 DEF Sent
<1>13. ASSUME Kept(X, q, w), up = "deinit" PROVE Kept(X, q3, w)
  <2>1. FinallySafe(X, q, w)
    BY <1>13, FinallySafeAfter
  <2>2. FinallySafe(X, q1, w) /\ FinallySafe(X, q3, w)
    BY <1>2, <1>11, <1>13, <2>1 DEF Sent, FinallySafe
  <2>. QED BY <1>2, <1>4, <1>6, <1>13, <2>2 DEF Sent
<1>14. Freed(X, q, q3, w)
  BY <1>6, <1>10, <1>11, <1>12, <1>13 DEF Sent, Freed
<1>. QED BY <1>5, <1>7, <1>8, <1>14 DEF Sent

-----------------------------------------------------------------------------
(* The invariant.                                                          *)

\* What the server will know of w once it has got every request
Finally(w, f) == Final(x, out, w, f)
At(op, w) == pc.op = op /\ pc.win = w
ToManage(w) == At("manage", w) /\ pc.arg

Types ==
    /\ kind \in [Windows -> Kinds]
    /\ life \in [Windows -> {"unborn", "alive", "gone"}]
    /\ want \subseteq Windows /\ asking \subseteq Windows
    /\ x \in [Windows -> XWin]
    /\ out \in Seq(Requests) /\ events \in Seq(EventRecords)
    /\ up \in {"down", "layout", "scan", "normal", "deinit"}
    /\ \/ pc = Idle
       \/ pc \in [op : {"manage"}, win : Windows, arg : BOOLEAN]
       \/ pc \in [op : {"load"}, win : Windows, arg : Places]
       \/ pc.op \in {"check", "check_load", "deinit"} /\ pc.win \in Windows
    /\ scan \subseteq Windows
    /\ cwin \in [Windows -> ClientWins \cup {None}]

\* Where the window manager waits, it is in the phase that makes it wait.
Phases ==
    /\ pc.op \in {"load", "check_load"} => up = "layout"
    /\ pc.op = "manage" /\ pc.arg => up = "normal"
    /\ pc.op = "manage" /\ ~pc.arg => up = "scan"
    /\ pc.op = "check" => up \in {"scan", "normal"}
    /\ pc.op = "deinit" => up \in {"normal", "deinit"}
DownIsEmpty ==
    ~Connected =>
        /\ out = <<>> /\ events = <<>> /\ pc = Idle /\ scan = {}
        /\ \A w \in Windows : ~Known(w)
        /\ \A w \in want : x[w].mapped \/ w \in lost \cup refused

Untouched(w) ==
    life[w] = "unborn" =>
        /\ x[w] = Fresh /\ ~Known(w) /\ w \notin want \cup asking \cup scan
        /\ NoneOf(out, w) /\ NoneOf(events, w) /\ pc.win # w
WantAlive(w) == w \in want \cup asking => Alive(w)
Inside(w) ==
    Alive(w) => (x[w].parent # None => x[w].saved) /\ Sound(x, out, w)
WaitsFor(w) ==
    /\ At("manage", w) \/ At("load", w) => ~Known(w)
    /\ At("check", w) \/ At("check_load", w) \/ At("deinit", w) => Known(w)
    /\ At("deinit", w) /\ up = "normal" /\ w \in want => Comes(events, "map", w)
Override(w) ==
    kind[w] = "override" =>
        ~Known(w) /\ ~Has(out, w, "mapped") /\ (w \in want => x[w].mapped)
Unrequested(w) ==
    up \in {"layout", "scan"} /\ Alive(w) /\ ~Known(w) => ~Has(out, w, "mapped")

\* What is so for the window manager
Region(w) ==
    Known(w) =>
        /\ At("check_load", w) => cwin[w].state = "Withdrawn" /\ cwin[w].loaded
                                  /\ ~cwin[w].mapped
        /\ ~At("check_load", w) /\ cwin[w].mapped => cwin[w].state = "Normal"
        /\ ~At("check_load", w) /\ kind[w] # "acrobatic" /\ ~cwin[w].mapped =>
              cwin[w].state = "Iconic"
        /\ kind[w] = "acrobatic" => cwin[w].state # "Iconic"
        /\ cwin[w].fs_rq => cwin[w].place = Screen
\* What is so once the server has got everything
AtTheEnd(w) ==
    Alive(w) =>
        /\ Known(w) =>
              /\ Finally(w, "parent") = Xwindow(cwin[w].place)
              /\ Finally(w, "saved") /\ (Finally(w, "selected") <=> ~At("deinit", w))
              /\ cwin[w].state # "Withdrawn" => Finally(w, "wm_state") = cwin[w].state
              /\ cwin[w].loaded \/ (Finally(w, "net_fs") <=> cwin[w].place = Screen)
        /\ ~Known(w) =>
              /\ Finally(w, "parent") = None /\ ~Finally(w, "saved")
              /\ Finally(w, "selected") <=> At("manage", w)
ShownAtTheEnd(w) ==
    Alive(w) /\ Known(w) /\ cwin[w].state # "Withdrawn" /\ w \notin missed =>
        \/ Comes(events, "unmap", w) \/ At("deinit", w)
        \/ Finally(w, "mapped") <=> (kind[w] = "acrobatic" \/ cwin[w].mapped)

\* Events tell the truth in the end.
Destroys(w) == Comes(events, "destroy", w) => life[w] = "gone"
UnmapThenMap(w) ==
    w \in want /\ kind[w] # "override" => Followed(events, "unmap", "map", w)
Unwanted(w) == Alive(w) /\ w \notin want \cup missed \cup unheard
MapThenUnmap(w) ==
    Unwanted(w) => /\ Followed(events, "map", "unmap", w)
                   /\ ToManage(w) => Comes(events, "unmap", w)
Leaves(w) ==
    Known(w) /\ w \notin want \cup missed \cup unheard =>
        Comes(events, "unmap", w) \/ Comes(events, "destroy", w) \/ At("deinit", w)
StillMapped(w) ==
    up \in {"down", "layout", "scan"} /\ Unwanted(w) /\ ~Known(w) =>
        ~Finally(w, "mapped")
Awaited(w) ==
    up \in {"layout", "scan", "normal"} /\ w \in want \ (refused \cup lost)
    /\ kind[w] # "override" =>
        \/ Known(w) \/ Comes(events, "map", w) \/ ToManage(w)
        \/ up # "normal" /\ Finally(w, "mapped") /\ (w \in scan \/ At("manage", w))
Promise(w) ==
    Connected /\ w \in want \ (refused \cup lost) =>
        Kept(x, out, w) \/ Comes(events, "map", w) \/ ToManage(w)
Asks(w) ==
    w \in asking => Comes(events, "configure", w) \/ Has(out, w, "configured")

WInv(w) ==
    /\ Untouched(w) /\ WantAlive(w) /\ Inside(w) /\ WaitsFor(w) /\ Override(w)
    /\ Unrequested(w) /\ Region(w) /\ AtTheEnd(w) /\ ShownAtTheEnd(w)
    /\ Destroys(w) /\ UnmapThenMap(w) /\ MapThenUnmap(w) /\ Leaves(w)
    /\ StillMapped(w) /\ Awaited(w) /\ Promise(w) /\ Asks(w)
IInv == Types /\ Phases /\ DownIsEmpty /\ \A w \in Windows : WInv(w)

\* The step has nothing to do with window u.
SameEvents(es, p, u) ==
    /\ \A t : Comes(p, t, u) <=> Comes(es, t, u)
    /\ \A t, s : Followed(es, t, s, u) => Followed(p, t, s, u)
    /\ NoneOf(es, u) => NoneOf(p, u)
LeftAlone(u) ==
    /\ kind' = kind /\ life'[u] = life[u] /\ x'[u] = x[u] /\ cwin'[u] = cwin[u]
    /\ (u \in want' <=> u \in want) /\ (u \in asking' <=> u \in asking)
    /\ (u \in scan' <=> u \in scan) /\ (u \in missed' <=> u \in missed)
    /\ (u \in unheard' <=> u \in unheard) /\ (u \in lost' <=> u \in lost)
    /\ (u \in refused' <=> u \in refused)
    /\ Unaffected(x, out, x', out', u)
    /\ SameEvents(events, events', u)
    /\ pc' = pc \/ (pc.win # u /\ pc'.win # u)
    /\ up' = up \/ (up \in {"layout", "scan"} /\ up' \in {"layout", "scan"})

\* The invariant holds for a window that the step has nothing to do with.
LEMMA Elsewhere ==
    ASSUME NEW u \in Windows, WInv(u), LeftAlone(u)
    PROVE  WInv(u)'
<1>1. /\ u \in want' <=> u \in want
      /\ u \in asking' <=> u \in asking
      /\ u \in scan' <=> u \in scan
      /\ u \in missed' <=> u \in missed
      /\ u \in unheard' <=> u \in unheard
      /\ u \in lost' <=> u \in lost
      /\ u \in refused' <=> u \in refused
  BY DEF LeftAlone
<1>2. /\ kind' = kind /\ life'[u] = life[u] /\ x'[u] = x[u] /\ cwin'[u] = cwin[u]
      /\ \A f : Finally(u, f)' = Finally(u, f)
      /\ Sound(x, out, u) => Sound(x', out', u)
      /\ Kept(x, out, u) => Kept(x', out', u)
      /\ \A f : Has(out', u, f) <=> Has(out, u, f)
      /\ NoneOf(out, u) => NoneOf(out', u)
      /\ \A t : Comes(events', t, u) <=> Comes(events, t, u)
      /\ \A t, s : Followed(events, t, s, u) => Followed(events', t, s, u)
      /\ NoneOf(events, u) => NoneOf(events', u)
      /\ Alive(u)' <=> Alive(u)
      /\ Known(u)' <=> Known(u)
      /\ Unwanted(u)' <=> Unwanted(u)
  BY <1>1 DEF LeftAlone, Unaffected, SameEvents, Finally, Alive, Known, Unwanted
<1>3. /\ \A op : At(op, u)' <=> At(op, u)
      /\ ToManage(u)' <=> ToManage(u)
      /\ pc'.win = u <=> pc.win = u
  BY DEF LeftAlone, At, ToManage
<1>4. up' = up \/ (up \in {"layout", "scan"} /\ up' \in {"layout", "scan"})
  BY DEF LeftAlone
<1>5. Untouched(u)' /\ WantAlive(u)' /\ Inside(u)'
  BY <1>1, <1>2, <1>3 DEF WInv, Untouched, WantAlive, Inside
<1>6. WaitsFor(u)' /\ Override(u)' /\ Unrequested(u)'
  BY <1>1, <1>2, <1>3, <1>4 DEF WInv, WaitsFor, Override, Unrequested
<1>7. Region(u)' /\ AtTheEnd(u)' /\ ShownAtTheEnd(u)'
  BY <1>1, <1>2, <1>3 DEF WInv, Region, AtTheEnd, ShownAtTheEnd
<1>8. Destroys(u)' /\ UnmapThenMap(u)' /\ MapThenUnmap(u)' /\ Leaves(u)'
  BY <1>1, <1>2, <1>3 DEF WInv, Destroys, UnmapThenMap, MapThenUnmap, Leaves
<1>9. StillMapped(u)' /\ Awaited(u)' /\ Promise(u)' /\ Asks(u)'
  BY <1>1, <1>2, <1>3, <1>4 DEF WInv, StillMapped, Awaited, Promise, Asks, Connected
<1>. QED BY <1>5, <1>6, <1>7, <1>8, <1>9 DEF WInv

-----------------------------------------------------------------------------
(* Steps of the window manager.                                            *)

\* An event of another window
LEMMA OtherEvents ==
    ASSUME NEW es, NEW p, NEW e, NEW u, e.win # u, Taken(es, p, e) \/ Added(es, p, e)
    PROVE  SameEvents(es, p, u)
BY DEF Taken, Added, SameEvents, Is

\* A step of the window manager that concerns only window w
ManagerStep(w) ==
    /\ UNCHANGED <<clients, x, missed, unheard, lost>>
    /\ out' \in Seq(Requests) /\ Extends(out, out', w)
    /\ events' = events \/ (Taken(events, events', Head(events)) /\ Ev = w)
    /\ pc.win = w \/ pc = Idle
    /\ pc'.win = w \/ pc' = Idle
    /\ up' = up \/ (up \in {"layout", "scan"} /\ up' \in {"layout", "scan"})
    /\ \A u \in Windows \ {w} : /\ cwin'[u] = cwin[u]
                                /\ u \in scan' <=> u \in scan
                                /\ u \in refused' <=> u \in refused

\* The invariant holds for the windows that such a step does not concern.
LEMMA OtherWindows ==
    ASSUME IInv, NEW w \in Windows, ManagerStep(w), NEW u \in Windows, u # w
    PROVE  WInv(u)'
<1>1. None \notin Windows
  BY ClientsAssumption
<1>2. SameEvents(events, events', u)
  <2>1. SameEvents(events, events, u)
    BY DEF SameEvents
  <2>. QED BY <2>1, OtherEvents DEF ManagerStep, Ev
<1>3. Unaffected(x, out, x', out', u)
  BY OthersUnaffected DEF IInv, Types, ManagerStep
<1>4. pc' = pc \/ (pc.win # u /\ pc'.win # u)
  BY <1>1 DEF ManagerStep, Idle
<1>5. LeftAlone(u)
  BY <1>2, <1>3, <1>4 DEF LeftAlone, ManagerStep, clients
<1>. QED BY <1>5, Elsewhere DEF IInv

\* To make IInv hold after such a step
LEMMA ManagerSteps ==
    ASSUME IInv, NEW w \in Windows, ManagerStep(w),
           Types', Phases', DownIsEmpty', WInv(w)'
    PROVE  IInv'
BY OtherWindows DEF IInv

\* What remains as it was for the window of a ManagerStep
LEMMA OwnWindow ==
    ASSUME IInv, NEW w \in Windows, ManagerStep(w)
    PROVE  /\ Alive(w)' <=> Alive(w)
           /\ Unwanted(w)' <=> Unwanted(w)
           /\ kind' = kind /\ life' = life /\ want' = want /\ asking' = asking
           /\ x' = x /\ missed' = missed /\ unheard' = unheard /\ lost' = lost
           /\ \A f : Has(out, w, f) => Has(out', w, f)
           /\ \A t : Comes(events', t, w) => Comes(events, t, w)
           /\ \A t, s : Followed(events, t, s, w) => Followed(events', t, s, w)
           /\ NoneOf(events, w) => NoneOf(events', w)
           /\ \A t : Comes(events, t, w) => \/ Comes(events', t, w)
                                            \/ events' # events /\ Head(events).type = t
           /\ \A op : op # "idle" => (At(op, w)' => pc' # Idle)
<1>1. /\ kind' = kind /\ life' = life /\ want' = want /\ asking' = asking
      /\ x' = x /\ missed' = missed /\ unheard' = unheard /\ lost' = lost
  BY DEF ManagerStep, clients
<1>2. \A f : Has(out, w, f) => Has(out', w, f)
  BY HasMore DEF IInv, Types, ManagerStep
<1>3. /\ \A t : Comes(events', t, w) => Comes(events, t, w)
      /\ \A t, s : Followed(events, t, s, w) => Followed(events', t, s, w)
      /\ NoneOf(events, w) => NoneOf(events', w)
      /\ \A t : Comes(events, t, w) => \/ Comes(events', t, w)
                                       \/ events' # events /\ Head(events).type = t
  BY DEF ManagerStep, Taken, Is
<1>4. \A op : op # "idle" => (At(op, w)' => pc' # Idle)
  BY DEF At, Idle
<1>5. (Alive(w)' <=> Alive(w)) /\ (Unwanted(w)' <=> Unwanted(w))
  BY <1>1 DEF Alive, Unwanted
<1>. QED BY <1>1, <1>2, <1>3, <1>4, <1>5

\* Nothing is waited for.
LEMMA Idles ==
    /\ pc = Idle => \A w \in Windows : \A op : ~At(op, w) /\ ~ToManage(w)
    /\ pc' = Idle => \A w \in Windows : \A op : ~At(op, w)' /\ ~ToManage(w)'
BY ClientsAssumption DEF Idle, At, ToManage

\* When no request is under way, the server knows what it will know.
LEMMA NothingAsked ==
    ASSUME NEW w, out = <<>>
    PROVE  /\ \A f : Finally(w, f) = x[w][f]
           /\ Sound(x, out, w)
           /\ x[w]["mapped"] \/ x[w]["saved"] => Kept(x, out, w)
           /\ Kept(x, out, w) => x[w]["mapped"] \/ x[w]["saved"]
           /\ \A f : ~Has(out, w, f)
<1>1. NoneOf(out, w) /\ out \in Seq(Requests)
  BY NoEvents
<1>2. Bare(x, out, w)
  BY <1>1, NoRequests
<1>. QED BY <1>2 DEF Finally, Bare

\* A managed window stays managed.
LEMMA StaysKnown ==
    ASSUME IInv, NEW w \in Windows, ManagerStep(w), pc' = Idle,
           Known(w), Known(w)', ~At("deinit", w),
           Sound(x, out, w) /\ Alive(w) => Sound(x', out', w),
           Region(w)', AtTheEnd(w)', ShownAtTheEnd(w)',
           \/ events' = events
           \/ Head(events).type \in {"map", "net_wm_state"}
           \/ Head(events).type = "configure" /\ Has(out', w, "configured")
    PROVE  WInv(w)'
<1>1. WInv(w) /\ Types
  BY DEF IInv
<1>2. \A op : ~At(op, w)' /\ ~ToManage(w)'
  BY Idles
<1>3. /\ Alive(w)' <=> Alive(w)
      /\ Unwanted(w)' <=> Unwanted(w)
      /\ kind' = kind /\ life' = life /\ want' = want /\ asking' = asking
      /\ x' = x /\ missed' = missed /\ unheard' = unheard /\ lost' = lost
      /\ \A f : Has(out, w, f) => Has(out', w, f)
      /\ \A t : Comes(events', t, w) => Comes(events, t, w)
      /\ \A t, s : Followed(events, t, s, w) => Followed(events', t, s, w)
      /\ \A t : Comes(events, t, w) => \/ Comes(events', t, w)
                                       \/ events' # events /\ Head(events).type = t
  BY OwnWindow
<1>4. Untouched(w)' /\ WantAlive(w)' /\ Inside(w)'
  BY <1>1, <1>2, <1>3 DEF WInv, Untouched, WantAlive, Inside
<1>5. WaitsFor(w)' /\ Override(w)' /\ Unrequested(w)'
  BY <1>1, <1>2, <1>3 DEF WInv, WaitsFor, Override, Unrequested
<1>6. Destroys(w)' /\ UnmapThenMap(w)' /\ MapThenUnmap(w)' /\ Leaves(w)'
  BY <1>1, <1>2, <1>3 DEF WInv, Destroys, UnmapThenMap, MapThenUnmap, Leaves
<1>7. StillMapped(w)' /\ Awaited(w)' /\ Asks(w)'
  BY <1>1, <1>2, <1>3 DEF WInv, StillMapped, Awaited, Asks
<1>8. Promise(w)'
  <2>1. Alive(w)' => Kept(x', out', w)
    BY SavedIsKept DEF ManagerStep, AtTheEnd, Finally
  <2>. QED BY <1>1, <1>3, <1>4, <2>1 DEF WInv, WantAlive, Promise
<1>. QED BY <1>4, <1>5, <1>6, <1>7, <1>8 DEF WInv

\* A window becomes managed: it is there, and its client wants it to be seen,
\* or what says that it does not is yet to come.
LEMMA BecomesKnown ==
    ASSUME IInv, NEW w \in Windows, ManagerStep(w), events' = events,
           At("manage", w) \/ At("load", w), out = <<>>,
           Alive(w), kind[w] # "override", ToManage(w) \/ x[w].mapped,
           Known(w)', At("check", w)' \/ At("check_load", w)',
           Sound(x, out, w) => Sound(x', out', w),
           Region(w)', AtTheEnd(w)', ShownAtTheEnd(w)'
    PROVE  WInv(w)'
<1>1. WInv(w) /\ Types /\ Phases
  BY DEF IInv
<1>2. ~ToManage(w)' /\ ~At("manage", w)' /\ ~At("load", w)' /\ ~At("deinit", w)'
  BY DEF ToManage, At
<1>3. /\ Alive(w)' <=> Alive(w)
      /\ Unwanted(w)' <=> Unwanted(w)
      /\ kind' = kind /\ life' = life /\ want' = want /\ asking' = asking
      /\ x' = x /\ missed' = missed /\ unheard' = unheard /\ lost' = lost
      /\ \A f : Has(out, w, f) => Has(out', w, f)
  BY OwnWindow
<1>4. ~Known(w) /\ Finally(w, "mapped") = x[w].mapped
  <2>1. Finally(w, "mapped") = x[w]["mapped"]
    BY <1>1, NothingAsked DEF Types
  <2>. QED BY <1>1, <2>1 DEF WInv, WaitsFor
<1>5. Untouched(w)' /\ WantAlive(w)' /\ Inside(w)'
  BY <1>1, <1>2, <1>3 DEF WInv, Untouched, WantAlive, Inside, Alive
<1>6. WaitsFor(w)' /\ Override(w)' /\ Unrequested(w)'
  BY <1>1, <1>2, <1>3 DEF WInv, WaitsFor, Override, Unrequested
<1>7. Destroys(w)' /\ UnmapThenMap(w)' /\ MapThenUnmap(w)'
  BY <1>1, <1>2, <1>3 DEF WInv, Destroys, UnmapThenMap, MapThenUnmap
<1>8. Leaves(w)'
  <2>1. CASE ToManage(w)
    BY <1>1, <1>3, <2>1 DEF WInv, Leaves, MapThenUnmap, Unwanted
  <2>2. CASE ~ToManage(w)
    <3>1. up \in {"layout", "scan"}
      BY <1>1, <2>2 DEF Phases, At, ToManage
    <3>. QED BY <1>1, <1>3, <1>4, <2>2, <3>1 DEF WInv, Leaves, StillMapped, Unwanted
  <2>. QED BY <2>1, <2>2
<1>9. StillMapped(w)' /\ Awaited(w)' /\ Asks(w)'
  BY <1>1, <1>2, <1>3 DEF WInv, StillMapped, Awaited, Asks
<1>10. Promise(w)'
  <2>1. Kept(x', out', w)
    BY <1>3, SavedIsKept DEF ManagerStep, AtTheEnd, Finally
  <2>. QED BY <2>1 DEF Promise
<1>. QED BY <1>5, <1>6, <1>7, <1>8, <1>9, <1>10 DEF WInv

\* A window that has gone is not managed any more.
LEMMA StaysGone ==
    ASSUME IInv, NEW w \in Windows, ManagerStep(w), pc' = Idle,
           life[w] = "gone", ~Known(w)',
           kind[w] = "override" => (Has(out', w, "mapped") => Has(out, w, "mapped"))
    PROVE  WInv(w)'
<1>1. WInv(w) /\ Types
  BY DEF IInv
<1>2. \A op : ~At(op, w)' /\ ~ToManage(w)'
  BY Idles
<1>3. /\ kind' = kind /\ life' = life /\ want' = want /\ asking' = asking
      /\ x' = x /\ missed' = missed /\ unheard' = unheard /\ lost' = lost
  BY OwnWindow
<1>4. ~Alive(w) /\ ~Alive(w)' /\ w \notin want /\ w \notin asking
      /\ ~Unwanted(w)'
  BY <1>1, <1>3 DEF WInv, WantAlive, Alive, Unwanted
<1>5. Untouched(w)' /\ WantAlive(w)' /\ Inside(w)'
  BY <1>1, <1>2, <1>3, <1>4 DEF WInv, Untouched, WantAlive, Inside
<1>6. WaitsFor(w)' /\ Override(w)' /\ Unrequested(w)'
  BY <1>1, <1>2, <1>3, <1>4 DEF WInv, WaitsFor, Override, Unrequested
<1>7. Region(w)' /\ AtTheEnd(w)' /\ ShownAtTheEnd(w)' /\ Leaves(w)'
  BY <1>4 DEF Region, AtTheEnd, ShownAtTheEnd, Leaves
<1>8. Destroys(w)' /\ UnmapThenMap(w)' /\ MapThenUnmap(w)'
  BY <1>3, <1>4 DEF Destroys, UnmapThenMap, MapThenUnmap
<1>9. StillMapped(w)' /\ Awaited(w)' /\ Promise(w)' /\ Asks(w)'
  BY <1>3, <1>4 DEF StillMapped, Awaited, Promise, Asks
<1>. QED BY <1>5, <1>6, <1>7, <1>8, <1>9 DEF WInv

-----------------------------------------------------------------------------
(* A managed window is put somewhere, or shown where it is.                *)

\* n is what Put makes of window c, but for where it is to return to.
IsPut(w, c, d, shown, n) ==
    /\ n \in ClientWins /\ n.place = d /\ n.mapped = shown
    /\ n.state = StateOnceMapped(w, c.state, shown)
    /\ n.fs_rq => d = Screen

\* StateOnceMapped is a state.
LEMMA StateMapped ==
    ASSUME NEW w, NEW s \in States, NEW shown
    PROVE  StateOnceMapped(w, s, shown) \in States
BY DEF StateOnceMapped, States

\* The fields of Mapped
LEMMA MappedFields ==
    ASSUME NEW c \in ClientWins, NEW shown \in BOOLEAN, NEW w
    PROVE  /\ Mapped(w, c, shown) \in ClientWins
           /\ Mapped(w, c, shown).mapped = shown
           /\ Mapped(w, c, shown).state = StateOnceMapped(w, c.state, shown)
           /\ Mapped(w, c, shown).place = c.place
           /\ Mapped(w, c, shown).back = c.back
           /\ Mapped(w, c, shown).loaded = c.loaded
           /\ Mapped(w, c, shown).fs_rq = c.fs_rq
<1>. DEFINE s == StateOnceMapped(w, c.state, shown)
            m == Mapped(w, c, shown)
<1>1. s \in States
  BY StateMapped DEF ClientWins, States
<1>. HIDE DEF s
<1>2. m = [c EXCEPT !.mapped = shown, !.state = s]
  BY DEF Mapped, s
<1>. HIDE DEF m
<1>3. m \in ClientWins
  BY <1>1, <1>2 DEF ClientWins, States
<1>4. /\ m.mapped = shown /\ m.state = s /\ m.place = c.place
      /\ m.back = c.back /\ m.loaded = c.loaded /\ m.fs_rq = c.fs_rq
  BY <1>2, <1>3 DEF ClientWins
<1>. QED BY <1>3, <1>4 DEF m, s

\* Put is as IsPut says, wherever the window is to return to.
LEMMA PutFields ==
    ASSUME NEW c \in ClientWins, NEW d \in Places, NEW shown \in BOOLEAN, NEW w
    PROVE  /\ IsPut(w, c, d, shown, Put(w, c, d, shown))
           /\ \A b \in Frames \cup {None} :
                 IsPut(w, c, d, shown, [Put(w, c, d, shown) EXCEPT !.back = b])
<1>. DEFINE m == Mapped(w, c, shown)
            p == Put(w, c, d, shown)
<1>1. /\ m \in ClientWins /\ m.mapped = shown /\ m.fs_rq = c.fs_rq
      /\ m.state = StateOnceMapped(w, c.state, shown)
  BY MappedFields
<1>. HIDE DEF m
<1>3. p = [m EXCEPT !.place = d, !.loaded = FALSE, !.fs_rq = (m.fs_rq /\ d = Screen)]
  BY DEF Put, m
<1>. HIDE DEF p
<1>4. p \in ClientWins
  <2>. DEFINE f == (m.fs_rq /\ d = Screen)
  <2>1. f \in BOOLEAN
    OBVIOUS
  <2>2. p = [m EXCEPT !.place = d, !.loaded = FALSE, !.fs_rq = f]
    BY <1>3
  <2>. HIDE DEF f
  <2>. QED BY <1>1, <2>1, <2>2 DEF ClientWins
<1>5. p.place = d /\ p.mapped = m.mapped /\ p.state = m.state
      /\ p.fs_rq = (m.fs_rq /\ d = Screen)
  BY <1>1, <1>3 DEF ClientWins
<1>6. IsPut(w, c, d, shown, p)
  BY <1>1, <1>4, <1>5 DEF IsPut
<1>7. ASSUME NEW b \in Frames \cup {None}
      PROVE  IsPut(w, c, d, shown, [p EXCEPT !.back = b])
  <2>. DEFINE n == [p EXCEPT !.back = b]
  <2>1. n \in ClientWins
    BY <1>4 DEF ClientWins
  <2>2. /\ n.place = p.place /\ n.mapped = p.mapped /\ n.state = p.state
        /\ n.fs_rq = p.fs_rq
    BY <1>4 DEF ClientWins
  <2>. HIDE DEF n
  <2>3. IsPut(w, c, d, shown, n)
    BY <1>6, <2>1, <2>2 DEF IsPut
  <2>. QED BY <2>3 DEF n
<1>. QED BY <1>6, <1>7 DEF p

\* Managed window w, which was c, is put in place d.
LEMMA PutFits ==
    ASSUME IInv, NEW w \in Windows, ManagerStep(w), Known(w), pc = Idle, pc' = Idle,
           events' = events \/ Head(events).type # "unmap",
           NEW c \in ClientWins, c.state = cwin[w].state,
           NEW d \in Places, NEW shown \in BOOLEAN,
           IsPut(w, c, d, shown, cwin'[w]),
           PutDone(x, out, out', w, c, d, shown)
    PROVE  /\ Known(w)'
           /\ Region(w)' /\ AtTheEnd(w)' /\ ShownAtTheEnd(w)'
           /\ Sound(x, out, w) /\ Alive(w) => Sound(x', out', w)
<1>1. WInv(w) /\ Types
  BY DEF IInv
<1>2. \A op : ~At(op, w) /\ ~At(op, w)'
  BY Idles
<1>3. /\ Alive(w)' <=> Alive(w)
      /\ kind' = kind /\ x' = x /\ missed' = missed
      /\ \A t : Comes(events, t, w) => \/ Comes(events', t, w)
                                       \/ events' # events /\ Head(events).type = t
  BY OwnWindow
<1>4. Known(w)'
  BY ClientsAssumption DEF Known, IsPut
<1>5. Region(w)'
  BY <1>1, <1>2, <1>3, <1>4 DEF WInv, Region, IsPut, StateOnceMapped
<1>6. /\ Alive(w) => Finally(w, "saved")
      /\ Alive(w) /\ c.state # "Withdrawn" => Finally(w, "wm_state") = c.state
  BY <1>1 DEF WInv, AtTheEnd
<1>7. AtTheEnd(w)'
  BY <1>2, <1>3, <1>4, <1>6 DEF AtTheEnd, Finally, IsPut, PutDone
<1>8. ShownAtTheEnd(w)'
  <2>1. SUFFICES ASSUME Alive(w), cwin'[w].state # "Withdrawn", w \notin missed,
                        ~Comes(events', "unmap", w)
                 PROVE  Final(x', out', w, "mapped") <=>
                           (kind[w] = "acrobatic" \/ cwin'[w].mapped)
    BY <1>3 DEF ShownAtTheEnd, Finally
  <2>2. kind[w] # "acrobatic" => (Final(x', out', w, "mapped") <=> shown)
    BY <1>3 DEF PutDone
  <2>3. c.state = "Normal" /\ kind[w] = "acrobatic" => Final(x, out, w, "mapped")
    BY <1>1, <1>2, <1>3, <2>1 DEF WInv, ShownAtTheEnd, Finally
  <2>4. kind[w] = "acrobatic" => c.state = "Normal" \/ shown
    <3>1. c.state \in States
      BY DEF ClientWins, States
    <3>. QED BY <1>1, <2>1, <3>1
             DEF WInv, Region, States, IsPut, StateOnceMapped
  <2>5. kind[w] = "acrobatic" => Final(x', out', w, "mapped")
    BY <1>3, <2>3, <2>4 DEF PutDone
  <2>. QED BY <2>2, <2>5 DEF IsPut
<1>9. Sound(x, out, w) /\ Alive(w) => Sound(x', out', w)
  BY <1>3, <1>6 DEF PutDone, Finally
<1>. QED BY <1>4, <1>5, <1>7, <1>8, <1>9

\* It is shown or not shown where it is.
LEMMA MapFits ==
    ASSUME IInv, NEW w \in Windows, ManagerStep(w), Known(w), pc' = Idle,
           ~At("deinit", w), events' = events,
           NEW shown \in BOOLEAN, cwin'[w] = Mapped(w, cwin[w], shown),
           MapDone(x, out, out', w, cwin[w].state, shown)
    PROVE  /\ Known(w)'
           /\ Region(w)' /\ AtTheEnd(w)' /\ ShownAtTheEnd(w)'
           /\ Sound(x, out, w) => Sound(x', out', w)
<1>. DEFINE c == cwin[w]
            n == cwin'[w]
<1>1. WInv(w) /\ Types
  BY DEF IInv
<1>2. \A op : ~At(op, w)'
  BY Idles
<1>3. /\ Alive(w)' <=> Alive(w)
      /\ kind' = kind /\ x' = x /\ missed' = missed
  BY OwnWindow
<1>10. c \in ClientWins
  BY <1>1 DEF Types, Known
<1>11. /\ n \in ClientWins /\ n.mapped = shown /\ n.place = c.place
       /\ n.state = StateOnceMapped(w, c.state, shown)
       /\ n.loaded = c.loaded /\ n.fs_rq = c.fs_rq
  <2>. HIDE DEF c
  <2>1. n = Mapped(w, c, shown)
    BY DEF c
  <2>. QED BY <1>10, <2>1, MappedFields
<1>4. Known(w)'
  BY <1>11, ClientsAssumption DEF Known
<1>12. c.state \in States
  BY <1>10 DEF ClientWins, States
<1>5. Region(w)'
  BY <1>1, <1>2, <1>3, <1>4, <1>11, <1>12
     DEF WInv, Region, StateOnceMapped, States
<1>6. \A f \in Fields \ {"mapped", "wm_state", "selected"} :
         Final(x', out', w, f) = Final(x, out, w, f)
  BY <1>3 DEF MapDone, Grows, Same
<1>13. /\ Final(x', out', w, "parent") = Final(x, out, w, "parent")
       /\ Final(x', out', w, "saved") = Final(x, out, w, "saved")
       /\ Final(x', out', w, "net_fs") = Final(x, out, w, "net_fs")
  BY <1>6 DEF Fields
<1>7. AtTheEnd(w)'
  <2>1. SUFFICES ASSUME Alive(w) PROVE AtTheEnd(w)'
    BY <1>3 DEF AtTheEnd
  <2>2. /\ Final(x, out, w, "selected")
        /\ c.state # "Withdrawn" => Final(x, out, w, "wm_state") = c.state
    BY <1>1, <2>1 DEF WInv, AtTheEnd, Finally
  <2>3. /\ Final(x', out', w, "selected")
        /\ n.state # "Withdrawn" => Final(x', out', w, "wm_state") = n.state
    BY <1>3, <1>11, <2>2 DEF MapDone
  <2>. QED BY <1>1, <1>2, <1>4, <1>11, <1>13, <2>1, <2>3
           DEF WInv, AtTheEnd, Finally
<1>8. ShownAtTheEnd(w)'
  <2>1. SUFFICES ASSUME Alive(w), n.state # "Withdrawn", w \notin missed,
                        ~Comes(events', "unmap", w)
                 PROVE  Final(x', out', w, "mapped") <=>
                           (kind[w] = "acrobatic" \/ n.mapped)
    BY <1>3 DEF ShownAtTheEnd, Finally
  <2>2. kind[w] # "acrobatic" => (Final(x', out', w, "mapped") <=> shown)
    BY <1>3 DEF MapDone
  <2>3. c.state = "Normal" /\ kind[w] = "acrobatic" => Final(x, out, w, "mapped")
    BY <1>1, <1>3, <2>1 DEF WInv, ShownAtTheEnd, Finally
  <2>4. kind[w] = "acrobatic" => c.state = "Normal" \/ shown
    BY <1>1, <1>11, <1>12, <2>1 DEF WInv, Region, States, StateOnceMapped
  <2>5. kind[w] = "acrobatic" => Final(x', out', w, "mapped")
    BY <1>3, <2>3, <2>4 DEF MapDone
  <2>. QED BY <1>11, <2>2, <2>5
<1>9. Sound(x, out, w) => Sound(x', out', w)
  BY <1>3 DEF MapDone, Grows
<1>. QED BY <1>4, <1>5, <1>7, <1>8, <1>9

\* The window manager does something about window w, in normal operation.
InNormal(w) ==
    /\ up = "normal" /\ pc = Idle /\ Known(w)
    /\ UNCHANGED <<clients, x, up, pc, scan, history>>
    /\ \/ events' = events
       \/ Taken(events, events', Head(events)) /\ Ev = w

\* Such a step is a ManagerStep, which leaves w managed.
LEMMA NormalStep ==
    ASSUME IInv, NEW w \in Windows, InNormal(w),
           out' \in Seq(Requests), Extends(out, out', w),
           NEW n \in ClientWins, cwin' = [cwin EXCEPT ![w] = n]
    PROVE  /\ ManagerStep(w) /\ pc' = Idle
           /\ Known(w) /\ Known(w)' /\ ~At("deinit", w) /\ cwin'[w] = n
           /\ WInv(w)' => IInv'
<1>1. ManagerStep(w)
  BY DEF ManagerStep, InNormal, history, IInv, Types
<1>2. Types'
  BY <1>1 DEF IInv, Types, InNormal, Taken, clients
<1>3. Phases' /\ DownIsEmpty'
  BY DEF InNormal, Phases, DownIsEmpty, Connected, Idle
<1>4. cwin'[w] = n
  BY DEF IInv, Types
<1>5. Known(w)' /\ Known(w)
  BY <1>4, ClientsAssumption DEF Known, InNormal
<1>6. pc' = Idle /\ ~At("deinit", w)
  BY Idles DEF InNormal
<1>. QED BY <1>1, <1>2, <1>3, <1>4, <1>5, <1>6, ManagerSteps

\* It puts it somewhere.
LEMMA PutStep ==
    ASSUME IInv, NEW w \in Windows, InNormal(w),
           events' = events \/ Head(events).type \in {"configure", "net_wm_state"},
           NEW c \in ClientWins, c.state = cwin[w].state,
           NEW d \in Places, NEW shown \in BOOLEAN, NEW n,
           IsPut(w, c, d, shown, n), cwin' = [cwin EXCEPT ![w] = n],
           Ask(PutRequests(w, c, d, shown))
    PROVE  IInv'
<1>1. PutDone(x, out, out', w, c, d, shown)
  <2>1. c.state \in States /\ out \in Seq(Requests)
    BY DEF ClientWins, States, IInv, Types
  <2>2. PutDone(x, out, out \o PutRequests(w, c, d, shown), w, c, d, shown)
    BY <2>1, PutMore
  <2>. QED BY <2>2 DEF Ask
<1>2. out' \in Seq(Requests) /\ Extends(out, out', w) /\ Has(out', w, "configured")
  BY <1>1 DEF PutDone
<1>3. n \in ClientWins
  BY DEF IsPut
<1>4. /\ ManagerStep(w) /\ pc' = Idle
      /\ Known(w) /\ Known(w)' /\ ~At("deinit", w) /\ cwin'[w] = n
      /\ WInv(w)' => IInv'
  BY <1>2, <1>3, NormalStep
<1>5. IsPut(w, c, d, shown, cwin'[w])
  BY <1>4
<1>6. pc = Idle /\ (events' = events \/ Head(events).type # "unmap")
  BY DEF InNormal
<1>7. /\ Region(w)' /\ AtTheEnd(w)' /\ ShownAtTheEnd(w)'
      /\ Sound(x, out, w) /\ Alive(w) => Sound(x', out', w)
  BY <1>1, <1>4, <1>5, <1>6, PutFits
<1>8. WInv(w)'
  BY <1>2, <1>4, <1>7, StaysKnown
<1>. QED BY <1>4, <1>8

\* It leaves it where it is, and changes nothing but the selection of events.
LEMMA StayStep ==
    ASSUME IInv, NEW w \in Windows, InNormal(w),
           events' = events \/ Head(events).type \in {"map", "configure", "net_wm_state"},
           out' \in Seq(Requests), Extends(out, out', w),
           \A f \in Fields \ {"selected"} : Final(x, out', w, f) = Final(x, out, w, f),
           Final(x, out, w, "selected") => Final(x, out', w, "selected"),
           Sound(x, out, w) => Sound(x, out', w),
           NEW b \in BOOLEAN, b => cwin[w].place = Screen,
           cwin' = [cwin EXCEPT ![w] = [cwin[w] EXCEPT !.fs_rq = b]],
           \/ events' = events \/ Head(events).type # "configure"
           \/ Has(out', w, "configured")
    PROVE  IInv'
<1>. DEFINE c == cwin[w]
            n == [c EXCEPT !.fs_rq = b]
<1>1. WInv(w) /\ Types
  BY DEF IInv
<1>2. c \in ClientWins
  BY <1>1 DEF Types, Known, InNormal
<1>3. n \in ClientWins
  BY <1>2 DEF ClientWins
<1>4. /\ n.place = c.place /\ n.mapped = c.mapped /\ n.state = c.state
      /\ n.loaded = c.loaded /\ n.fs_rq = b
  BY <1>2 DEF ClientWins
<1>5. cwin' = [cwin EXCEPT ![w] = n]
  OBVIOUS
<1>. HIDE DEF n
<1>6. /\ ManagerStep(w) /\ pc' = Idle
      /\ Known(w) /\ Known(w)' /\ ~At("deinit", w) /\ cwin'[w] = n
      /\ WInv(w)' => IInv'
  BY <1>3, <1>5, NormalStep
<1>7. /\ Alive(w)' <=> Alive(w)
      /\ kind' = kind /\ x' = x /\ missed' = missed
      /\ \A t : Comes(events, t, w) => \/ Comes(events', t, w)
                                       \/ events' # events /\ Head(events).type = t
  BY <1>6, OwnWindow
<1>8. \A op : ~At(op, w) /\ ~At(op, w)'
  BY <1>6, Idles DEF InNormal
<1>9. Region(w)'
  BY <1>1, <1>4, <1>6, <1>7, <1>8 DEF WInv, Region
<1>10. /\ Final(x, out', w, "parent") = Final(x, out, w, "parent")
       /\ Final(x, out', w, "saved") = Final(x, out, w, "saved")
       /\ Final(x, out', w, "net_fs") = Final(x, out, w, "net_fs")
       /\ Final(x, out', w, "mapped") = Final(x, out, w, "mapped")
       /\ Final(x, out', w, "wm_state") = Final(x, out, w, "wm_state")
  BY DEF Fields
<1>11. AtTheEnd(w)'
  BY <1>1, <1>4, <1>6, <1>7, <1>8, <1>10 DEF WInv, AtTheEnd, Finally
<1>12. ShownAtTheEnd(w)'
  BY <1>1, <1>4, <1>6, <1>7, <1>8, <1>10 DEF WInv, ShownAtTheEnd, Finally
<1>13. Sound(x, out, w) /\ Alive(w) => Sound(x', out', w)
  BY <1>7
<1>14. WInv(w)'
  BY <1>6, <1>9, <1>11, <1>12, <1>13, StaysKnown
<1>. QED BY <1>6, <1>14

-----------------------------------------------------------------------------
(* What users and events make of a managed window.                         *)

\* The event that is handled is read.
LEMMA EventRead ==
    ASSUME IInv, NEW t, Handling(t), Read
    PROVE  /\ Taken(events, events', Head(events)) /\ Ev \in Windows
           /\ up = "normal" /\ pc = Idle /\ Head(events).type = t
           /\ Comes(events, t, Ev)
<1>1. Taken(events, events', Head(events))
  BY OneEventRead DEF IInv, Types, Handling, Read
<1>2. Ev \in Windows
  BY <1>1 DEF Taken, EventRecords, Ev
<1>. QED BY <1>1, <1>2 DEF Handling, Taken, Is, Ev

\* A field set to what it was
LEMMA RecordUnchanged ==
    ASSUME NEW c \in ClientWins
    PROVE  c = [c EXCEPT !.fs_rq = c.fs_rq] /\ c.fs_rq \in BOOLEAN
BY DEF ClientWins

\* The request to be full screen is noted.
LEMMA RequestedFields ==
    ASSUME NEW c \in ClientWins, NEW b \in BOOLEAN
    PROVE  /\ [c EXCEPT !.fs_rq = b] \in ClientWins
           /\ [c EXCEPT !.fs_rq = b].state = c.state
           /\ [c EXCEPT !.fs_rq = b].back = c.back
           /\ [c EXCEPT !.fs_rq = b].place = c.place
BY DEF ClientWins

\* An event of a window that is not managed is read, and perhaps forwarded.
LEMMA IgnoreStep ==
    ASSUME IInv, NEW w \in Windows, up = "normal", pc = Idle, ~Known(w),
           UNCHANGED <<clients, x, up, pc, scan, history, cwin>>,
           Taken(events, events', Head(events)), Ev = w,
           Head(events).type \in {"unmap", "destroy", "configure", "net_wm_state"},
           out' \in Seq(Requests), Extends(out, out', w),
           \A f \in Fields : Final(x, out', w, f) = Final(x, out, w, f),
           Sound(x, out, w) => Sound(x, out', w),
           Kept(x, out, w) => Kept(x, out', w),
           Has(out', w, "mapped") => Has(out, w, "mapped"),
           Head(events).type = "configure" => Has(out', w, "configured")
    PROVE  IInv'
<1>1. ManagerStep(w) /\ pc' = Idle
  BY DEF ManagerStep, history
<1>2. Types'
  BY <1>1 DEF IInv, Types, Taken, clients
<1>3. Phases' /\ DownIsEmpty'
  BY DEF Phases, DownIsEmpty, Connected, Idle
<1>4. WInv(w) /\ Types
  BY DEF IInv
<1>5. \A op : ~At(op, w) /\ ~ToManage(w) /\ ~At(op, w)' /\ ~ToManage(w)'
  BY Idles
<1>6. /\ Alive(w)' <=> Alive(w)
      /\ Unwanted(w)' <=> Unwanted(w)
      /\ kind' = kind /\ life' = life /\ want' = want /\ asking' = asking
      /\ x' = x /\ missed' = missed /\ unheard' = unheard /\ lost' = lost
      /\ \A f : Has(out, w, f) => Has(out', w, f)
      /\ \A t : Comes(events', t, w) => Comes(events, t, w)
      /\ \A t, s : Followed(events, t, s, w) => Followed(events', t, s, w)
      /\ \A t : Comes(events, t, w) => \/ Comes(events', t, w)
                                       \/ events' # events /\ Head(events).type = t
  BY <1>1, OwnWindow
<1>7. refused' = refused /\ scan' = scan /\ ~Known(w)' /\ ~NoneOf(events, w)
  BY DEF history, Known, Taken, Ev
<1>8. /\ Final(x, out', w, "parent") = Final(x, out, w, "parent")
      /\ Final(x, out', w, "saved") = Final(x, out, w, "saved")
      /\ Final(x, out', w, "selected") = Final(x, out, w, "selected")
      /\ Final(x, out', w, "mapped") = Final(x, out, w, "mapped")
  BY DEF Fields
<1>9. Untouched(w)' /\ WantAlive(w)' /\ Inside(w)'
  BY <1>4, <1>6, <1>7 DEF WInv, Untouched, WantAlive, Inside
<1>10. WaitsFor(w)' /\ Override(w)' /\ Unrequested(w)'
  BY <1>4, <1>5, <1>6, <1>7 DEF WInv, WaitsFor, Override, Unrequested
<1>11. Region(w)' /\ AtTheEnd(w)' /\ ShownAtTheEnd(w)' /\ Leaves(w)'
  BY <1>4, <1>5, <1>6, <1>7, <1>8
     DEF WInv, Region, AtTheEnd, ShownAtTheEnd, Leaves, Finally
<1>12. Destroys(w)' /\ UnmapThenMap(w)' /\ MapThenUnmap(w)'
  BY <1>4, <1>5, <1>6 DEF WInv, Destroys, UnmapThenMap, MapThenUnmap
<1>13. StillMapped(w)' /\ Awaited(w)' /\ Promise(w)' /\ Asks(w)'
  BY <1>4, <1>5, <1>6, <1>7, <1>8
     DEF WInv, StillMapped, Awaited, Promise, Asks, Finally, Connected
<1>14. WInv(w)'
  BY <1>9, <1>10, <1>11, <1>12, <1>13 DEF WInv
<1>. QED BY <1>1, <1>2, <1>3, <1>14, ManagerSteps

\* An event that needs nothing
LEMMA NothingStep ==
    ASSUME IInv, NEW w \in Windows, up = "normal", pc = Idle, ~Known(w),
           UNCHANGED <<clients, x, up, pc, scan, history, cwin, out>>,
           Taken(events, events', Head(events)), Ev = w,
           Head(events).type \in {"unmap", "destroy", "net_wm_state"}
    PROVE  IInv'
<1>1. out' = out /\ out' \in Seq(Requests) /\ Extends(out, out', w)
  BY DEF IInv, Types, Extends
<1>2. UNCHANGED <<clients, x, up, pc, scan, history, cwin>>
  OBVIOUS
<1>. QED BY <1>1, <1>2, IgnoreStep

\* region_fullscreen_scr
LEMMA EnterStep ==
    ASSUME IInv, NEW w \in Windows, InNormal(w),
           events' = events \/ Head(events).type \in {"configure", "net_wm_state"},
           NEW c \in ClientWins, c.state = cwin[w].state, c.place # Screen,
           NEW shown \in BOOLEAN, EnterFullscreen(w, c, shown)
    PROVE  IInv'
<1>. DEFINE n == [Put(w, c, Screen, shown) EXCEPT !.back = c.place]
<1>1. Screen \in Places /\ c.place \in Frames \cup {None}
  BY DEF Places, ClientWins
<1>2. IsPut(w, c, Screen, shown, n)
  BY <1>1, PutFields
<1>3. cwin' = [cwin EXCEPT ![w] = n] /\ Ask(PutRequests(w, c, Screen, shown))
  BY DEF EnterFullscreen
<1>. HIDE DEF n
<1>. QED BY <1>1, <1>2, <1>3, PutStep

\* region_leave_fullscreen
LEMMA LeaveStep ==
    ASSUME IInv, NEW w \in Windows, InNormal(w),
           events' = events \/ Head(events).type = "net_wm_state",
           NEW b \in BOOLEAN, b => cwin[w].place = Screen,
           NEW shown \in BOOLEAN,
           LeaveFullscreen(w, [cwin[w] EXCEPT !.fs_rq = b], shown)
    PROVE  IInv'
<1>. DEFINE c == [cwin[w] EXCEPT !.fs_rq = b]
            n == [Put(w, c, c.back, shown) EXCEPT !.back = None]
<1>1. cwin[w] \in ClientWins
  BY DEF IInv, Types, Known, InNormal
<1>2. c \in ClientWins /\ c.state = cwin[w].state
  BY <1>1, RequestedFields
<1>. HIDE DEF c
<1>3. CASE c.back = None
  <2>1. cwin' = [cwin EXCEPT ![w] = c] /\ out' = out
    BY <1>3 DEF LeaveFullscreen, c
  <2>2. out' \in Seq(Requests) /\ Extends(out, out', w)
    BY <2>1 DEF IInv, Types, Extends
  <2>. QED BY <2>1, <2>2, StayStep DEF c
<1>4. CASE c.back # None
  <2>1. c.back \in Places
    BY <1>2, <1>4 DEF ClientWins, Places
  <2>2. IsPut(w, c, c.back, shown, n)
    BY <1>2, <2>1, PutFields
  <2>3. cwin' = [cwin EXCEPT ![w] = n] /\ Ask(PutRequests(w, c, c.back, shown))
    BY <1>4 DEF LeaveFullscreen, c
  <2>. HIDE DEF n
  <2>4. events' = events \/ Head(events).type \in {"configure", "net_wm_state"}
    OBVIOUS
  <2>. QED BY <1>2, <2>1, <2>2, <2>3, <2>4, PutStep
<1>. QED BY <1>3, <1>4

\* clientwin_map and clientwin_unmap, when the user switches
LEMMA SwitchStep ==
    ASSUME IInv, NEW w \in Windows, UserSwitches(w)
    PROVE  IInv'
<1>. DEFINE c == cwin[w]
            shown == ~c.mapped
            n == Mapped(w, c, shown)
<1>1. InNormal(w) /\ events' = events
  BY DEF UserSwitches, Users, InNormal
<1>2. c \in ClientWins
  BY <1>1 DEF IInv, Types, Known, InNormal
<1>3. shown \in BOOLEAN
  OBVIOUS
<1>4. cwin' = [cwin EXCEPT ![w] = n] /\ out' = out \o MapRequests(w, c.state, shown)
  BY DEF UserSwitches, Ask
<1>5. c.state \in States /\ out \in Seq(Requests)
  BY <1>2 DEF ClientWins, States, IInv, Types
<1>. HIDE DEF shown, n
<1>6. MapDone(x, out, out', w, c.state, shown)
  BY <1>3, <1>4, <1>5, MapMore
<1>7. n \in ClientWins
  BY <1>2, <1>3, MappedFields DEF n
<1>8. out' \in Seq(Requests) /\ Extends(out, out', w)
  BY <1>6 DEF MapDone, Grows
<1>9. /\ ManagerStep(w) /\ pc' = Idle
      /\ Known(w) /\ Known(w)' /\ ~At("deinit", w) /\ cwin'[w] = n
      /\ WInv(w)' => IInv'
  BY <1>1, <1>4, <1>7, <1>8, NormalStep
<1>10. cwin'[w] = Mapped(w, cwin[w], shown)
  BY <1>9 DEF n
<1>11. /\ Region(w)' /\ AtTheEnd(w)' /\ ShownAtTheEnd(w)'
       /\ Sound(x, out, w) => Sound(x', out', w)
  BY <1>1, <1>3, <1>6, <1>9, <1>10, MapFits
<1>12. WInv(w)'
  BY <1>1, <1>9, <1>11, StaysKnown
<1>. QED BY <1>9, <1>12

\* The user moves a window to another frame.
LEMMA MoveStep ==
    ASSUME IInv, NEW w \in Windows, NEW p \in Frames, NEW shown \in BOOLEAN,
           UserMoves(w, p, shown)
    PROVE  IInv'
<1>. DEFINE c == cwin[w]
            n == Put(w, c, p, shown)
<1>1. InNormal(w) /\ events' = events
  BY DEF UserMoves, Users, InNormal
<1>2. c \in ClientWins /\ p \in Places
  BY <1>1 DEF IInv, Types, Known, InNormal, Places
<1>3. cwin' = [cwin EXCEPT ![w] = n] /\ Ask(PutRequests(w, c, p, shown))
  BY DEF UserMoves
<1>4. IsPut(w, c, p, shown, n)
  BY <1>2, PutFields
<1>. HIDE DEF n
<1>. QED BY <1>1, <1>2, <1>3, <1>4, PutStep

\* region_set_fullscreen
LEMMA ToggleStep ==
    ASSUME IInv, NEW w \in Windows, NEW shown \in BOOLEAN,
           UserTogglesFullscreen(w, shown)
    PROVE  IInv'
<1>. DEFINE c == cwin[w]
<1>1. InNormal(w) /\ events' = events
  BY DEF UserTogglesFullscreen, Users, InNormal
<1>2. c \in ClientWins
  BY <1>1 DEF IInv, Types, Known, InNormal
<1>3. c = [c EXCEPT !.fs_rq = c.fs_rq] /\ c.fs_rq \in BOOLEAN
  BY <1>2, RecordUnchanged
<1>4. CASE c.place = Screen
  BY <1>1, <1>3, <1>4, LeaveStep DEF UserTogglesFullscreen
<1>5. CASE c.place # Screen
  BY <1>1, <1>2, <1>5, EnterStep DEF UserTogglesFullscreen
<1>. QED BY <1>4, <1>5

\* check_fs_cfgrq
LEMMA ConfigureFullscreenStep ==
    ASSUME IInv, NEW shown \in BOOLEAN, ConfigureFullscreen(shown)
    PROVE  IInv'
<1>. DEFINE w == Ev
            c == [cwin[w] EXCEPT !.fs_rq = TRUE]
<1>1. /\ Taken(events, events', Head(events)) /\ w \in Windows
      /\ up = "normal" /\ pc = Idle /\ Head(events).type = "configure"
  BY EventRead DEF ConfigureFullscreen
<1>2. InNormal(w)
  BY <1>1 DEF ConfigureFullscreen, InNormal, Read
<1>3. cwin[w] \in ClientWins /\ TRUE \in BOOLEAN
  BY <1>1, <1>2 DEF IInv, Types, Known, InNormal
<1>4. c \in ClientWins /\ c.state = cwin[w].state /\ c.place = cwin[w].place
  BY <1>3, RequestedFields
<1>5. EnterFullscreen(w, c, shown) /\ c.place # Screen
  BY <1>4 DEF ConfigureFullscreen
<1>. HIDE DEF c, w
<1>. QED BY <1>1, <1>2, <1>4, <1>5, EnterStep

\* netwm_state_change_rq
LEMMA NetWmStateStep ==
    ASSUME IInv, NEW shown \in BOOLEAN, HandleNetWmState(shown)
    PROVE  IInv'
<1>. DEFINE w == Ev
            on == Head(events).arg
            c == [cwin[w] EXCEPT !.fs_rq = on]
<1>1. /\ Taken(events, events', Head(events)) /\ w \in Windows
      /\ up = "normal" /\ pc = Idle /\ Head(events).type = "net_wm_state"
  BY EventRead DEF HandleNetWmState
<1>2. on \in BOOLEAN
  BY <1>1 DEF Taken, EventRecords
<1>3. CASE ~Known(w)
  BY <1>1, <1>3, NothingStep DEF HandleNetWmState, Read
<1>4. CASE Known(w)
  <2>1. InNormal(w)
    BY <1>1, <1>4 DEF HandleNetWmState, InNormal, Read
  <2>2. cwin[w] \in ClientWins
    BY <1>1, <1>4 DEF IInv, Types, Known
  <2>. HIDE DEF on, w
  <2>3. c \in ClientWins /\ c.state = cwin[w].state /\ c.place = cwin[w].place
    BY <1>2, <2>2, RequestedFields
  <2>4. IF on /\ c.place # Screen THEN EnterFullscreen(w, c, shown)
        ELSE IF ~on /\ c.place = Screen THEN LeaveFullscreen(w, c, shown)
        ELSE cwin' = [cwin EXCEPT ![w] = c] /\ out' = out
    BY <1>4 DEF HandleNetWmState, on, w
  <2>5. CASE on /\ c.place # Screen
    <3>. HIDE DEF c
    <3>. QED BY <1>1, <2>1, <2>3, <2>4, <2>5, EnterStep
  <2>6. CASE ~on /\ c.place = Screen
    <3>1. LeaveFullscreen(w, c, shown) /\ (on => cwin[w].place = Screen)
      BY <2>4, <2>6
    <3>. QED BY <1>1, <1>2, <2>1, <3>1, LeaveStep
  <2>7. CASE (on /\ c.place = Screen) \/ (~on /\ c.place # Screen)
    <3>1. cwin' = [cwin EXCEPT ![w] = c] /\ out' = out
          /\ (on => cwin[w].place = Screen)
      BY <2>3, <2>4, <2>7
    <3>2. out' \in Seq(Requests) /\ Extends(out, out', w)
      BY <3>1 DEF IInv, Types, Extends
    <3>. QED BY <1>1, <1>2, <2>1, <3>1, <3>2, StayStep
  <2>. QED BY <1>2, <2>5, <2>6, <2>7
<1>. QED BY <1>3, <1>4

-----------------------------------------------------------------------------
(* Clients are told; a window may become managed.                          *)

\* What telling the client of w its place makes of requests q
Told(X, q, p, w) ==
    /\ p \in Seq(Requests) /\ Extends(q, p, w)
    /\ \A f \in Fields \ {"selected"} : Final(X, p, w, f) = Final(X, q, w, f)
    /\ Final(X, q, w, "selected") => Final(X, p, w, "selected")
    /\ Sound(X, q, w) => Sound(X, p, w)
    /\ Has(p, w, "configured")

\* What telling a client its place changes, which is nothing
LEMMA ConfiguredMore ==
    ASSUME NEW q \in Seq(Requests), NEW w \in Windows, NEW X
    PROVE  /\ Told(X, q, q \o <<Request("configured", w, None)>>, w)
           /\ Told(X, q, q \o SendConfig(w), w)
           /\ \A f \in Fields :
                 Final(X, q \o <<Request("configured", w, None)>>, w, f)
                    = Final(X, q, w, f)
           /\ Kept(X, q, w) => Kept(X, q \o <<Request("configured", w, None)>>, w)
           /\ Has(q \o <<Request("configured", w, None)>>, w, "mapped") =>
                 Has(q, w, "mapped")
<1>. DEFINE r == Request("configured", w, None)
            p == Append(q, r)
            s == q \o SendConfig(w)
<1>1. r \in Requests
  BY BlocksAreRequests
<1>2. q \o <<r>> = p
  <2>. HIDE DEF r
  <2>. QED BY <1>1
<1>3. Sent(X, q, p, w, "configured", None)
  BY <1>1, OneSent
<1>4. May(X, q, r, w)
  BY DEF May, Unmaps, Request
<1>. HIDE DEF p
<1>5. \A f \in Fields : Final(X, p, w, f) = Final(X, q, w, f)
  BY <1>3 DEF Sent, Fields
<1>6. /\ p \in Seq(Requests) /\ Extends(q, p, w) /\ Has(p, w, "configured")
      /\ Has(p, w, "mapped") => Has(q, w, "mapped")
      /\ Sound(X, q, w) => Sound(X, p, w)
  BY <1>3, <1>4 DEF Sent
<1>7. "selected" \in Fields /\ "mapped" \in Fields /\ "saved" \in Fields
  BY DEF Fields
<1>8. Told(X, q, p, w)
  BY <1>5, <1>6, <1>7 DEF Told
<1>9. Kept(X, q, w) => Kept(X, p, w)
  <2>1. SUFFICES ASSUME Kept(X, q, w) PROVE Kept(X, p, w)
    OBVIOUS
  <2>2. FinallySafe(X, q, w)
    BY <2>1, FinallySafeAfter
  <2>3. FinallySafe(X, p, w)
    BY <1>5, <1>7, <2>2 DEF FinallySafe
  <2>. QED BY <1>3, <2>1, <2>3 DEF Sent
<1>10. Told(X, q, s, w)
  <2>1. "configured" \in {"parent", "mapped", "configured"}
    OBVIOUS
  <2>2. Changed(X, q, q \o Unnoticed(w, "configured", None), w, "configured", None)
    BY <1>1, <2>1, UnnoticedMore
  <2>3. s = q \o Unnoticed(w, "configured", None)
    BY DEF SendConfig
  <2>. HIDE DEF s
  <2>4. Changed(X, q, s, w, "configured", None)
    BY <2>2, <2>3
  <2>5. \A f \in Fields \ {"selected"} : f \notin {"configured", "selected"}
    BY DEF Fields
  <2>. QED BY <2>4, <2>5 DEF Changed, Told, Has
<1>. QED BY <1>2, <1>5, <1>6, <1>8, <1>9, <1>10

\* ioncore_handle_configure_request, of a window that is not managed
LEMMA ForwardStep ==
    ASSUME IInv, ForwardConfigure
    PROVE  IInv'
<1>. DEFINE w == Ev
<1>1. /\ Taken(events, events', Head(events)) /\ w \in Windows
      /\ up = "normal" /\ pc = Idle /\ Head(events).type = "configure"
  BY EventRead DEF ForwardConfigure
<1>2. /\ ~Known(w) /\ out' = out \o <<Request("configured", w, None)>>
      /\ UNCHANGED <<clients, x, up, pc, scan, history, cwin>>
  BY DEF ForwardConfigure, Read, Ask
<1>. HIDE DEF w
<1>3. /\ Told(x, out, out', w)
      /\ \A f \in Fields : Final(x, out', w, f) = Final(x, out, w, f)
      /\ Kept(x, out, w) => Kept(x, out', w)
      /\ Has(out', w, "mapped") => Has(out, w, "mapped")
  BY <1>1, <1>2, ConfiguredMore DEF IInv, Types
<1>4. /\ out' \in Seq(Requests) /\ Extends(out, out', w)
      /\ Sound(x, out, w) => Sound(x, out', w)
      /\ Has(out', w, "configured")
  BY <1>3 DEF Told
<1>5. Ev = w
  BY DEF w
<1>. QED BY <1>1, <1>2, <1>3, <1>4, <1>5, IgnoreStep

\* cwin stays as it is.
LEMMA SameWindows ==
    ASSUME Types, NEW w \in Windows, Known(w), cwin' = cwin
    PROVE  /\ cwin' = [cwin EXCEPT ![w] = [cwin[w] EXCEPT !.fs_rq = cwin[w].fs_rq]]
           /\ cwin[w].fs_rq \in BOOLEAN
<1>1. cwin[w] \in ClientWins
  BY DEF Types, Known
<1>2. /\ cwin[w] = [cwin[w] EXCEPT !.fs_rq = cwin[w].fs_rq]
      /\ cwin[w].fs_rq \in BOOLEAN
  BY <1>1, RecordUnchanged
<1>3. cwin = [cwin EXCEPT ![w] = cwin[w]]
  BY DEF Types
<1>. QED BY <1>2, <1>3

\* clientwin_handle_configure_request
LEMMA AnswerStep ==
    ASSUME IInv, NEW granted \in BOOLEAN, AnswerConfigure(granted)
    PROVE  IInv'
<1>. DEFINE w == Ev
            b == cwin[w].fs_rq
<1>1. /\ Taken(events, events', Head(events)) /\ w \in Windows
      /\ up = "normal" /\ pc = Idle /\ Head(events).type = "configure"
  BY EventRead DEF AnswerConfigure
<1>2. /\ InNormal(w) /\ Known(w) /\ cwin' = cwin
      /\ \/ out' = out \o <<Request("configured", w, None)>>
         \/ out' = out \o SendConfig(w)
  BY <1>1 DEF AnswerConfigure, InNormal, Read, Ask
<1>. HIDE DEF w
<1>3. Told(x, out, out', w)
  BY <1>1, <1>2, ConfiguredMore DEF IInv, Types
<1>4. /\ out' \in Seq(Requests) /\ Extends(out, out', w)
      /\ \A f \in Fields \ {"selected"} : Final(x, out', w, f) = Final(x, out, w, f)
      /\ Final(x, out, w, "selected") => Final(x, out', w, "selected")
      /\ Sound(x, out, w) => Sound(x, out', w)
      /\ Has(out', w, "configured")
  BY <1>3 DEF Told
<1>5. cwin' = [cwin EXCEPT ![w] = [cwin[w] EXCEPT !.fs_rq = b]] /\ b \in BOOLEAN
  BY <1>1, <1>2, SameWindows DEF IInv
<1>6. b => cwin[w].place = Screen
  BY <1>1, <1>2 DEF IInv, WInv, Region
<1>. HIDE DEF b
<1>. QED BY <1>1, <1>2, <1>4, <1>5, <1>6, StayStep

\* XGetWindowAttributes is asked for window w.
LEMMA StartManagingMore ==
    ASSUME Types, NEW w \in Windows, NEW b \in BOOLEAN,
           Ask(<<Request("selected", w, b)>>)
    PROVE  Sent(x, out, out', w, "selected", b) /\ May(x, out, Request("selected", w, b), w)
<1>. DEFINE r == Request("selected", w, b)
<1>1. r \in Requests
  BY DEF Request, Requests
<1>2. Sent(x, out, Append(out, r), w, "selected", b)
  BY <1>1, OneSent DEF Types
<1>3. May(x, out, r, w)
  BY DEF May, Unmaps, Request
<1>. HIDE DEF r
<1>4. out' = Append(out, r)
  BY <1>1 DEF Ask, Types, r
<1>. QED BY <1>2, <1>3, <1>4 DEF r

\* A MapRequest has come, or the window is one that was there at the start.
LEMMA ManagingStep ==
    ASSUME IInv, NEW w \in Windows, NEW b \in BOOLEAN, ~Known(w), pc = Idle,
           UNCHANGED <<clients, x, history, cwin>>, StartManaging(w, b),
           b => /\ up = "normal" /\ up' = up /\ scan' = scan
                /\ Taken(events, events', Head(events)) /\ Is(Head(events), "map", w),
           ~b => /\ up \in {"layout", "scan"} /\ up' = "scan" /\ w \in scan
                 /\ scan' = scan \ {w} /\ events' = events
    PROVE  IInv'
<1>1. /\ Sent(x, out, out', w, "selected", TRUE)
      /\ May(x, out, Request("selected", w, TRUE), w)
      /\ pc' = Waiting("manage", w, b)
  BY StartManagingMore DEF StartManaging, IInv
<1>2. /\ At("manage", w)' /\ (ToManage(w)' <=> b) /\ pc'.win = w /\ pc'.op = "manage"
      /\ ~At("load", w)' /\ ~At("check", w)' /\ ~At("check_load", w)'
      /\ ~At("deinit", w)' /\ \A op : ~At(op, w)
      /\ ~ToManage(w)
  BY <1>1, Idles DEF Waiting, ToManage, At
<1>3. ManagerStep(w)
  BY <1>1, <1>2 DEF ManagerStep, Sent, history, Is, Ev
<1>4. Types'
  BY <1>1, <1>3 DEF IInv, Types, ManagerStep, Taken, clients, Waiting, Sent
<1>5. Phases' /\ DownIsEmpty'
  BY <1>1 DEF Phases, DownIsEmpty, Connected, Waiting
<1>6. WInv(w) /\ Types
  BY DEF IInv
<1>7. /\ Alive(w)' <=> Alive(w)
      /\ Unwanted(w)' <=> Unwanted(w)
      /\ kind' = kind /\ life' = life /\ want' = want /\ asking' = asking
      /\ x' = x /\ missed' = missed /\ unheard' = unheard /\ lost' = lost
      /\ \A f : Has(out, w, f) => Has(out', w, f)
      /\ \A t : Comes(events', t, w) => Comes(events, t, w)
      /\ \A t, s : Followed(events, t, s, w) => Followed(events', t, s, w)
      /\ \A t : Comes(events, t, w) => \/ Comes(events', t, w)
                                       \/ events' # events /\ Head(events).type = t
  BY <1>3, OwnWindow
<1>8. /\ refused' = refused /\ ~Known(w)' /\ ~Known(w)
      /\ ~NoneOf(events, w) \/ w \in scan
      /\ Final(x', out', w, "mapped") = Final(x, out, w, "mapped")
      /\ b => Head(events).type = "map"
  BY <1>1, <1>7 DEF history, Known, Taken, Sent, Is
<1>9. Untouched(w)' /\ WantAlive(w)' /\ Inside(w)'
  BY <1>1, <1>6, <1>7, <1>8 DEF WInv, Untouched, WantAlive, Inside, Sent
<1>10. WaitsFor(w)' /\ Override(w)' /\ Unrequested(w)'
  BY <1>1, <1>2, <1>6, <1>7, <1>8
     DEF WInv, WaitsFor, Override, Unrequested, Sent
<1>11. Region(w)' /\ AtTheEnd(w)' /\ ShownAtTheEnd(w)' /\ Leaves(w)'
  BY <1>1, <1>2, <1>6, <1>7, <1>8
     DEF WInv, Region, AtTheEnd, ShownAtTheEnd, Leaves, Finally, Sent
<1>12. Destroys(w)' /\ UnmapThenMap(w)'
  BY <1>6, <1>7 DEF WInv, Destroys, UnmapThenMap
<1>13. MapThenUnmap(w)'
  BY <1>2, <1>6, <1>7 DEF WInv, MapThenUnmap, Taken
<1>14. StillMapped(w)' /\ Awaited(w)' /\ Promise(w)' /\ Asks(w)'
  <2>1. StillMapped(w)' /\ Asks(w)'
    BY <1>6, <1>7, <1>8 DEF WInv, StillMapped, Asks, Finally
  <2>2. Awaited(w)'
    BY <1>2, <1>6, <1>7, <1>8 DEF WInv, Awaited, Finally
  <2>3. Kept(x, out, w) => Kept(x', out', w)
    <3>1. SUFFICES ASSUME Kept(x, out, w) PROVE Kept(x', out', w)
      OBVIOUS
    <3>2. FinallySafe(x, out, w)
      BY <1>6, <3>1, FinallySafeAfter DEF Types
    <3>3. FinallySafe(x, out', w)
      BY <1>1, <3>2 DEF Sent, FinallySafe
    <3>. QED BY <1>1, <1>7, <3>1, <3>3 DEF Sent
  <2>4. Promise(w)'
    BY <1>2, <1>6, <1>7, <1>8, <2>3 DEF WInv, Promise, Connected
  <2>. QED BY <2>1, <2>2, <2>4
<1>15. WInv(w)'
  BY <1>9, <1>10, <1>11, <1>12, <1>13, <1>14 DEF WInv
<1>. QED BY <1>3, <1>4, <1>5, <1>15, ManagerSteps

\* ioncore_handle_map_request
LEMMA MapRequestStep ==
    ASSUME IInv, HandleMapRequest
    PROVE  IInv'
<1>. DEFINE w == Ev
            b == cwin[w].fs_rq
<1>1. /\ Taken(events, events', Head(events)) /\ w \in Windows
      /\ up = "normal" /\ pc = Idle /\ Head(events).type = "map"
      /\ Is(Head(events), "map", w)
  BY EventRead DEF HandleMapRequest, Is, Ev
<1>2. cwin' = cwin /\ UNCHANGED <<clients, x, up, scan, history>>
  BY DEF HandleMapRequest, Read
<1>3. /\ Known(w) => out' = out /\ pc' = pc
      /\ ~Known(w) => StartManaging(w, TRUE)
  BY DEF HandleMapRequest
<1>10. Ev = w /\ TRUE \in BOOLEAN
  OBVIOUS
<1>. HIDE DEF w
<1>4. CASE Known(w)
  <2>1. InNormal(w)
    BY <1>1, <1>2, <1>3, <1>4, <1>10 DEF InNormal
  <2>2. cwin' = [cwin EXCEPT ![w] = [cwin[w] EXCEPT !.fs_rq = b]] /\ b \in BOOLEAN
    BY <1>1, <1>2, <1>4, SameWindows DEF IInv
  <2>3. b => cwin[w].place = Screen
    BY <1>1, <1>4 DEF IInv, WInv, Region
  <2>4. out' = out /\ out' \in Seq(Requests) /\ Extends(out, out', w)
    BY <1>3, <1>4 DEF IInv, Types, Extends
  <2>. HIDE DEF b
  <2>. QED BY <1>1, <2>1, <2>2, <2>3, <2>4, StayStep
<1>5. CASE ~Known(w)
  <2>. DEFINE t == TRUE
  <2>1. StartManaging(w, t) /\ t \in BOOLEAN /\ t
    BY <1>3, <1>5
  <2>2. UNCHANGED <<clients, x, history, cwin>> /\ up' = up /\ scan' = scan
    BY <1>2
  <2>. HIDE DEF t
  <2>. QED BY <1>1, <1>5, <2>1, <2>2, ManagingStep
<1>. QED BY <1>4, <1>5

\* rootwin_manage_initial_windows
LEMMA ScanStep ==
    ASSUME IInv, NEW w \in Windows, ScanNext(w)
    PROVE  IInv'
<1>1. /\ up \in {"layout", "scan"} /\ pc = Idle /\ w \in scan
      /\ up' = "scan" /\ scan' = scan \ {w}
      /\ UNCHANGED <<clients, x, events, cwin, history>>
      /\ Known(w) => out' = out /\ pc' = pc
      /\ ~Known(w) => StartManaging(w, FALSE)
  BY DEF ScanNext
<1>2. CASE ~Known(w)
  <2>. DEFINE b == FALSE
  <2>1. StartManaging(w, b) /\ b \in BOOLEAN /\ ~b
    BY <1>1, <1>2
  <2>. HIDE DEF b
  <2>. QED BY <1>1, <1>2, <2>1, ManagingStep
<1>3. CASE Known(w)
  <2>1. out' = out /\ Extends(out, out', w) /\ out' \in Seq(Requests)
    BY <1>1, <1>3 DEF Extends, IInv, Types
  <2>2. ManagerStep(w) /\ Known(w)' /\ pc' = Idle /\ events' = events
    BY <1>1, <1>3, <2>1 DEF ManagerStep, history, Known
  <2>3. \A op : ~At(op, w) /\ ~At(op, w)'
    BY <1>1, <2>2, Idles
  <2>4. /\ x' = x /\ out' = out /\ cwin' = cwin /\ kind' = kind /\ missed' = missed
        /\ Alive(w)' <=> Alive(w)
        /\ events' = events
    BY <1>1, <2>1 DEF clients, history, Alive
  <2>5. Sound(x, out, w) /\ Alive(w) => Sound(x', out', w)
    BY <2>4
  <2>6. Region(w)' /\ AtTheEnd(w)' /\ ShownAtTheEnd(w)'
    BY <1>3, <2>2, <2>3, <2>4
       DEF IInv, WInv, Region, AtTheEnd, ShownAtTheEnd, Finally
  <2>7. WInv(w)'
    BY <1>3, <2>2, <2>3, <2>5, <2>6, StaysKnown
  <2>8. Types'
    BY <1>1, <2>1, <2>2 DEF IInv, Types, clients
  <2>9. Phases' /\ DownIsEmpty'
    BY <1>1, <2>2 DEF Phases, DownIsEmpty, Connected, Idle
  <2>. QED BY <2>2, <2>7, <2>8, <2>9, ManagerSteps
<1>. QED BY <1>2, <1>3

-----------------------------------------------------------------------------
(* A window goes, or is not managed.                                       *)

\* clientwin_destroyed, of a window that has gone
LEMMA GoneStep ==
    ASSUME IInv, NEW w \in Windows, life[w] = "gone",
           UNCHANGED <<clients, x, up, scan, history>>,
           up # "down", pc.win = w \/ pc = Idle, pc' = Idle,
           events' = events \/ (Taken(events, events', Head(events)) /\ Ev = w),
           \/ Destroyed(w)
           \/ ~Known(w) /\ cwin' = cwin /\ out' = out
    PROVE  IInv'
<1>1. /\ out' \in Seq(Requests) /\ Extends(out, out', w)
      /\ Has(out', w, "mapped") => Has(out, w, "mapped")
  <2>1. CASE Destroyed(w)
    <3>1. LetGo(x, out, out', w)
      BY <2>1, LetGoMore DEF Destroyed, Ask, IInv, Types
    <3>. QED BY <3>1 DEF LetGo
  <2>2. CASE out' = out
    BY <2>2 DEF Extends, IInv, Types
  <2>. QED BY <2>1, <2>2
<1>2. /\ cwin' \in [Windows -> ClientWins \cup {None}] /\ ~Known(w)'
      /\ \A u \in Windows \ {w} : cwin'[u] = cwin[u]
  BY DEF Destroyed, IInv, Types, Known
<1>3. ManagerStep(w)
  BY <1>1, <1>2 DEF ManagerStep, history
<1>4. Types' /\ Phases' /\ DownIsEmpty'
  BY <1>1, <1>2 DEF IInv, Types, Phases, DownIsEmpty, Connected, Taken, clients, Idle
<1>5. WInv(w)'
  BY <1>1, <1>2, <1>3, StaysGone
<1>. QED BY <1>3, <1>4, <1>5, ManagerSteps

\* ioncore_handle_destroy_notify
LEMMA DestroyNotifyStep ==
    ASSUME IInv, HandleDestroyNotify
    PROVE  IInv'
<1>. DEFINE w == Ev
<1>1. /\ Taken(events, events', Head(events)) /\ w \in Windows
      /\ up = "normal" /\ pc = Idle /\ Comes(events, "destroy", w)
  BY EventRead DEF HandleDestroyNotify
<1>2. /\ UNCHANGED <<clients, x, up, scan, history>> /\ pc' = pc
      /\ Destroyed(w) \/ (~Known(w) /\ cwin' = cwin /\ out' = out)
      /\ Ev = w
  BY DEF HandleDestroyNotify, Read
<1>. HIDE DEF w
<1>3. life[w] = "gone"
  BY <1>1 DEF IInv, WInv, Destroys
<1>. QED BY <1>1, <1>2, <1>3, GoneStep

\* A managed window is unmapped by its client, or goes when the window manager
\* ends.
LEMMA PartingStep ==
    ASSUME IInv, NEW w \in Windows, Known(w), pc = Idle,
           UNCHANGED <<clients, x, up, scan, cwin, history>>, StartDeinit(w),
           \/ up = "deinit" /\ events' = events
           \/ /\ up = "normal" /\ Taken(events, events', Head(events))
              /\ Is(Head(events), "unmap", w)
    PROVE  IInv'
<1>1. Parted(x, out, out', w) /\ pc' = Waiting("deinit", w, None)
  BY StartDeinitMore DEF StartDeinit, Ask, IInv, Types
<1>2. /\ At("deinit", w)' /\ ~ToManage(w)' /\ pc'.win = w /\ pc'.op = "deinit"
      /\ ~At("load", w)' /\ ~At("check", w)' /\ ~At("check_load", w)'
      /\ ~At("manage", w)' /\ \A op : ~At(op, w)
  BY <1>1, Idles DEF Waiting, ToManage, At
<1>3. ManagerStep(w)
  BY <1>1, <1>2 DEF ManagerStep, Parted, history, Is, Ev
<1>4. Types'
  BY <1>1, <1>2, <1>3 DEF IInv, Types, ManagerStep, Taken, clients, Parted
<1>5. Phases' /\ DownIsEmpty'
  BY <1>1 DEF Phases, DownIsEmpty, Connected, Waiting
<1>6. WInv(w) /\ Types
  BY DEF IInv
<1>7. /\ Alive(w)' <=> Alive(w)
      /\ Unwanted(w)' <=> Unwanted(w)
      /\ kind' = kind /\ life' = life /\ want' = want /\ asking' = asking
      /\ x' = x /\ missed' = missed /\ unheard' = unheard /\ lost' = lost
      /\ \A f : Has(out, w, f) => Has(out', w, f)
      /\ \A t : Comes(events', t, w) => Comes(events, t, w)
      /\ \A t, s : Followed(events, t, s, w) => Followed(events', t, s, w)
      /\ \A t : Comes(events, t, w) => \/ Comes(events', t, w)
                                       \/ events' # events /\ Head(events).type = t
  BY <1>3, OwnWindow
<1>8. refused' = refused /\ Known(w)' /\ cwin' = cwin /\ up' = up
  BY DEF history, Known
<1>9. Untouched(w)' /\ WantAlive(w)' /\ Inside(w)'
  BY <1>1, <1>6, <1>7, <1>8 DEF WInv, Untouched, WantAlive, Inside, Parted
<1>10. Override(w)' /\ Unrequested(w)'
  BY <1>6, <1>7, <1>8 DEF WInv, Override, Unrequested
<1>11. WaitsFor(w)'
  <2>1. up = "normal" /\ w \in want => Comes(events', "map", w)
    BY <1>6, <1>7 DEF WInv, UnmapThenMap, Override, Taken
  <2>. QED BY <1>2, <1>7, <1>8, <2>1 DEF WaitsFor
<1>12. Region(w)'
  BY <1>2, <1>6, <1>7, <1>8 DEF WInv, Region
<1>13. AtTheEnd(w)'
  <2>1. Finally(w, "parent")' = Finally(w, "parent")
        /\ Finally(w, "saved")' = Finally(w, "saved")
        /\ Finally(w, "wm_state")' = Finally(w, "wm_state")
        /\ Finally(w, "net_fs")' = Finally(w, "net_fs")
        /\ ~Finally(w, "selected")'
    BY <1>1, <1>7 DEF Finally, Parted
  <2>. QED BY <1>2, <1>6, <1>7, <1>8, <2>1 DEF WInv, AtTheEnd
<1>14. ShownAtTheEnd(w)' /\ Leaves(w)'
  BY <1>2 DEF ShownAtTheEnd, Leaves
<1>15. Destroys(w)' /\ UnmapThenMap(w)' /\ MapThenUnmap(w)'
  BY <1>2, <1>6, <1>7 DEF WInv, Destroys, UnmapThenMap, MapThenUnmap
<1>16. StillMapped(w)' /\ Awaited(w)' /\ Asks(w)'
  BY <1>3, <1>6, <1>7, <1>8 DEF WInv, StillMapped, Awaited, Asks, Is
<1>17. Promise(w)'
  <2>1. Alive(w) => Kept(x', out', w)
    BY <1>1, <1>7, <1>8, <1>13, SavedIsKept DEF AtTheEnd, Finally, Parted
  <2>. QED BY <1>6, <1>7, <2>1 DEF WInv, WantAlive, Promise
<1>18. WInv(w)'
  BY <1>9, <1>10, <1>11, <1>12, <1>13, <1>14, <1>15, <1>16, <1>17 DEF WInv
<1>. QED BY <1>3, <1>4, <1>5, <1>18, ManagerSteps

\* ioncore_handle_unmap_notify
LEMMA UnmapNotifyStep ==
    ASSUME IInv, HandleUnmapNotify
    PROVE  IInv'
<1>. DEFINE w == Ev
<1>1. /\ Taken(events, events', Head(events)) /\ w \in Windows
      /\ up = "normal" /\ pc = Idle /\ Head(events).type = "unmap"
      /\ Is(Head(events), "unmap", w)
  BY EventRead DEF HandleUnmapNotify, Is, Ev
<1>2. /\ UNCHANGED <<clients, x, up, scan, history>> /\ cwin' = cwin /\ Ev = w
      /\ Known(w) => StartDeinit(w)
      /\ ~Known(w) => out' = out /\ pc' = pc
  BY DEF HandleUnmapNotify, Read
<1>. HIDE DEF w
<1>3. CASE Known(w)
  BY <1>1, <1>2, <1>3, PartingStep
<1>4. CASE ~Known(w)
  BY <1>1, <1>2, <1>4, NothingStep
<1>. QED BY <1>3, <1>4

\* A client window is destroyed when the window manager ends.
LEMMA ExitNextStep ==
    ASSUME IInv, NEW w \in Windows, ExitNext(w)
    PROVE  IInv'
BY PartingStep DEF ExitNext

\* The window manager stops waiting for a window that it does not manage,
\* and no longer selects its events, or has forgotten it.
LEMMA NotManagedStep ==
    ASSUME IInv, DoNotManage
    PROVE  IInv'
<1>1. PICK w \in Windows : w = pc.win /\ At("manage", w)
  BY DEF DoNotManage, Replied, IInv, Types, Idle, At
<1>2. /\ out = <<>>
      /\ ~Alive(w) \/ kind[w] = "override" \/ (~pc.arg /\ ~x[w].mapped)
      /\ Ask(<<Request("selected", w, FALSE)>>) /\ pc' = Idle
      /\ UNCHANGED <<clients, x, events, up, scan, cwin, history>>
  BY <1>1 DEF DoNotManage, Replied
<1>3. /\ Sent(x, out, out', w, "selected", FALSE)
      /\ May(x, out, Request("selected", w, FALSE), w)
  BY <1>2, StartManagingMore DEF IInv
<1>4. ManagerStep(w)
  BY <1>1, <1>2, <1>3 DEF ManagerStep, Sent, history
<1>5. Types' /\ Phases' /\ DownIsEmpty'
  <2>1. up \in {"normal", "scan"}
    BY <1>1 DEF IInv, Phases, At
  <2>. QED BY <1>2, <1>3, <2>1
           DEF IInv, Types, Phases, DownIsEmpty, Connected, clients, Sent, Idle
<1>6. WInv(w) /\ Types /\ Phases
  BY DEF IInv
<1>7. /\ Alive(w)' <=> Alive(w)
      /\ Unwanted(w)' <=> Unwanted(w)
      /\ kind' = kind /\ life' = life /\ want' = want /\ asking' = asking
      /\ x' = x /\ missed' = missed /\ unheard' = unheard /\ lost' = lost
      /\ \A f : Has(out, w, f) => Has(out', w, f)
  BY <1>4, OwnWindow
<1>8. \A op : ~At(op, w)' /\ ~ToManage(w)'
  BY <1>2, Idles
<1>9. /\ refused' = refused /\ scan' = scan /\ up' = up /\ events' = events
      /\ ~Known(w) /\ ~Known(w)'
      /\ \A f : ~Has(out, w, f)
      /\ Finally(w, "mapped")' = Finally(w, "mapped")
      /\ Finally(w, "mapped") = x[w]["mapped"]
  <2>1. ~Known(w) /\ ~Known(w)'
    BY <1>1, <1>2, <1>6 DEF WInv, WaitsFor, Known
  <2>2. Finally(w, "mapped")' = Finally(w, "mapped")
    BY <1>3, <1>7 DEF Finally, Sent
  <2>3. /\ Finally(w, "mapped") = x[w]["mapped"]
        /\ \A f : ~Has(out, w, f)
    BY <1>2, NothingAsked
  <2>4. refused' = refused /\ scan' = scan /\ up' = up /\ events' = events
    BY <1>2 DEF history
  <2>. QED BY <2>1, <2>2, <2>3, <2>4
<1>10. Untouched(w)' /\ WantAlive(w)' /\ Inside(w)'
  BY <1>1, <1>3, <1>6, <1>7 DEF WInv, Untouched, WantAlive, Inside, Sent, At
<1>11. WaitsFor(w)' /\ Override(w)' /\ Unrequested(w)'
  BY <1>3, <1>6, <1>7, <1>8, <1>9 DEF WInv, WaitsFor, Override, Unrequested, Sent
<1>12. Region(w)' /\ AtTheEnd(w)' /\ ShownAtTheEnd(w)' /\ Leaves(w)'
  BY <1>3, <1>6, <1>7, <1>8, <1>9
     DEF WInv, Region, AtTheEnd, ShownAtTheEnd, Leaves, Finally, Sent
<1>13. Destroys(w)' /\ UnmapThenMap(w)' /\ MapThenUnmap(w)'
  BY <1>6, <1>7, <1>8, <1>9 DEF WInv, Destroys, UnmapThenMap, MapThenUnmap
<1>14. StillMapped(w)' /\ Asks(w)'
  BY <1>6, <1>7, <1>9 DEF WInv, StillMapped, Asks
<1>15. Awaited(w)'
  <2>1. SUFFICES ASSUME up \in {"layout", "scan", "normal"},
                        w \in want \ (refused \cup lost), kind[w] # "override"
                 PROVE  Comes(events, "map", w)
    BY <1>7, <1>9 DEF Awaited
  <2>2. ~pc.arg /\ ~x[w].mapped
    BY <1>2, <1>6, <2>1 DEF WInv, WantAlive
  <2>. QED BY <1>6, <1>9, <2>1, <2>2 DEF WInv, Awaited, ToManage
<1>16. Promise(w)'
  <2>1. SUFFICES ASSUME Connected, w \in want \ (refused \cup lost),
                        ~Comes(events, "map", w)
                 PROVE  Kept(x', out', w)
    BY <1>7, <1>9 DEF Promise, Connected
  <2>2. Alive(w)
    BY <1>6, <2>1 DEF WInv, WantAlive
  <2>3. Kept(x, out, w)
    <3>1. CASE kind[w] = "override"
      <4>1. x[w]["mapped"]
        BY <1>6, <2>1, <3>1 DEF WInv, Override
      <4>2. x[w]["mapped"] => Kept(x, out, w)
        BY <1>2, NothingAsked
      <4>. QED BY <4>1, <4>2
    <3>2. CASE kind[w] # "override"
      BY <1>2, <1>6, <2>1, <2>2, <3>2 DEF WInv, Promise, ToManage
    <3>. QED BY <3>1, <3>2
  <2>4. FinallySafe(x, out, w)
    BY <1>6, <2>3, FinallySafeAfter DEF Types
  <2>5. FinallySafe(x, out', w)
    BY <1>3, <2>4 DEF Sent, FinallySafe
  <2>. QED BY <1>3, <1>7, <2>3, <2>5 DEF Sent
<1>17. WInv(w)'
  BY <1>10, <1>11, <1>12, <1>13, <1>14, <1>15, <1>16 DEF WInv
<1>. QED BY <1>4, <1>5, <1>17, ManagerSteps

-----------------------------------------------------------------------------
(* Replies.                                                                *)

\* The window manager waits for a window of a saved layout, or finds that it
\* is none to manage.
LEMMA LoadWaits ==
    ASSUME IInv, NEW w \in Windows, ~Known(w), life[w] # "unborn", up = "layout",
           UNCHANGED <<clients, x, out, events, up, scan, cwin, history>>,
           pc = Idle \/ At("load", w),
           pc' = Idle \/ \E p \in Places : pc' = Waiting("load", w, p)
    PROVE  IInv'
<1>1. /\ ~At("manage", w) /\ ~At("check", w) /\ ~At("check_load", w)
      /\ ~At("deinit", w) /\ ~ToManage(w)
      /\ ~At("manage", w)' /\ ~At("check", w)' /\ ~At("check_load", w)'
      /\ ~At("deinit", w)' /\ ~ToManage(w)'
      /\ pc.win = w \/ pc = Idle
      /\ pc'.win = w \/ pc' = Idle
      /\ pc'.op \in {"idle", "load"}
  BY DEF At, ToManage, Idle, Waiting
<1>2. /\ kind' = kind /\ life' = life /\ want' = want /\ asking' = asking /\ x' = x
      /\ out' = out /\ events' = events /\ up' = up /\ scan' = scan /\ cwin' = cwin
      /\ missed' = missed /\ unheard' = unheard /\ lost' = lost /\ refused' = refused
  BY DEF clients, history
<1>3. out \in Seq(Requests) /\ Extends(out, out, w)
  BY DEF IInv, Types, Extends
<1>4. ManagerStep(w)
  BY <1>1, <1>2, <1>3 DEF ManagerStep, clients
<1>5. Types'
  BY <1>2 DEF IInv, Types, Waiting
<1>6. Phases' /\ DownIsEmpty'
  BY <1>1, <1>2 DEF Phases, DownIsEmpty, Connected
<1>7. WInv(w)
  BY DEF IInv
<1>8. /\ \A f : Finally(w, f)' = Finally(w, f)
      /\ Alive(w)' <=> Alive(w)
      /\ Unwanted(w)' <=> Unwanted(w)
      /\ ~Known(w)'
  BY <1>2 DEF Finally, Alive, Unwanted, Known
<1>9. Untouched(w)' /\ WantAlive(w)' /\ Inside(w)'
  BY <1>2, <1>7, <1>8 DEF WInv, Untouched, WantAlive, Inside
<1>10. WaitsFor(w)' /\ Override(w)' /\ Unrequested(w)'
  BY <1>1, <1>2, <1>7, <1>8 DEF WInv, WaitsFor, Override, Unrequested
<1>11. Region(w)' /\ AtTheEnd(w)' /\ ShownAtTheEnd(w)' /\ Leaves(w)'
  BY <1>1, <1>2, <1>7, <1>8 DEF WInv, Region, AtTheEnd, ShownAtTheEnd, Leaves
<1>12. Destroys(w)' /\ UnmapThenMap(w)' /\ MapThenUnmap(w)'
  BY <1>1, <1>2, <1>7, <1>8 DEF WInv, Destroys, UnmapThenMap, MapThenUnmap
<1>13. StillMapped(w)' /\ Awaited(w)' /\ Promise(w)' /\ Asks(w)'
  BY <1>1, <1>2, <1>7, <1>8
     DEF WInv, StillMapped, Awaited, Promise, Asks, Connected
<1>14. WInv(w)'
  BY <1>9, <1>10, <1>11, <1>12, <1>13 DEF WInv
<1>. QED BY <1>4, <1>5, <1>6, <1>14, ManagerSteps

\* clientwin_load
LEMMA LoadStep ==
    ASSUME IInv, NEW w \in Windows, Load(w)
    PROVE  IInv'
BY LoadWaits DEF Load

\* The window of a reply
LEMMA ReplyAbout ==
    ASSUME IInv, NEW op, op # "idle", Replied(op)
    PROVE  \E w \in Windows : w = pc.win /\ At(op, w) /\ out = <<>> /\ life[w] # "unborn"
<1>1. pc.win \in Windows /\ pc.op = op /\ out = <<>>
  BY DEF IInv, Types, Replied, Idle
<1>2. WInv(pc.win)
  BY <1>1 DEF IInv
<1>. QED BY <1>1, <1>2 DEF At, WInv, Untouched

\* postmanage_check
LEMMA CheckStep ==
    ASSUME IInv, Check
    PROVE  IInv'
<1>1. PICK w \in Windows : w = pc.win /\ At("check", w) /\ out = <<>> /\ life[w] # "unborn"
  BY ReplyAbout DEF Check
<1>2. /\ UNCHANGED <<clients, x, events, up, scan, history>> /\ pc' = Idle
      /\ ~Alive(w) => Destroyed(w)
      /\ Alive(w) => out' = out /\ cwin' = cwin
  BY <1>1 DEF Check
<1>3. up \in {"scan", "normal"} /\ WInv(w) /\ Types
  BY <1>1 DEF IInv, Phases, At
<1>4. CASE ~Alive(w)
  <2>1. life[w] = "gone"
    BY <1>1, <1>3, <1>4 DEF Types, Alive
  <2>. QED BY <1>1, <1>2, <1>3, <1>4, <2>1, GoneStep
<1>5. CASE Alive(w)
  <2>1. out' = out /\ Extends(out, out', w) /\ out' \in Seq(Requests) /\ cwin' = cwin
    BY <1>2, <1>3, <1>5 DEF Extends, Types
  <2>2. Known(w) /\ Known(w)'
    BY <1>1, <1>3, <2>1 DEF WInv, WaitsFor, Known
  <2>3. ManagerStep(w)
    BY <1>1, <1>2, <2>1 DEF ManagerStep, history
  <2>4. \A op : ~At(op, w)'
    BY <1>2, Idles
  <2>5. ~At("deinit", w) /\ ~At("check_load", w)
    BY <1>1 DEF At
  <2>6. /\ x' = x /\ kind' = kind /\ missed' = missed /\ events' = events
        /\ Alive(w)' <=> Alive(w)
    BY <1>2 DEF clients, history, Alive
  <2>7. Sound(x, out, w) /\ Alive(w) => Sound(x', out', w)
    BY <2>1, <2>6
  <2>8. Region(w)' /\ AtTheEnd(w)' /\ ShownAtTheEnd(w)'
    BY <1>3, <2>1, <2>2, <2>4, <2>5, <2>6
       DEF WInv, Region, AtTheEnd, ShownAtTheEnd, Finally
  <2>9. WInv(w)'
    BY <1>2, <2>2, <2>3, <2>5, <2>7, <2>8, StaysKnown
  <2>10. Types' /\ Phases' /\ DownIsEmpty'
    BY <1>2, <1>3, <2>1 DEF Types, Phases, DownIsEmpty, Connected, clients, Idle
  <2>. QED BY <2>3, <2>9, <2>10, ManagerSteps
<1>. QED BY <1>4, <1>5

\* postmanage_check of clientwin_load
LEMMA CheckLoadStep ==
    ASSUME IInv, NEW shown \in BOOLEAN, CheckLoad(shown)
    PROVE  IInv'
<1>1. PICK w \in Windows :
         w = pc.win /\ At("check_load", w) /\ out = <<>> /\ life[w] # "unborn"
  BY ReplyAbout DEF CheckLoad
<1>2. /\ UNCHANGED <<clients, x, events, up, scan, history>> /\ pc' = Idle
      /\ ~Alive(w) => Destroyed(w)
      /\ Alive(w) => /\ cwin' = [cwin EXCEPT ![w] = Mapped(w, cwin[w], shown)]
                     /\ Ask(MapRequests(w, cwin[w].state, shown))
  BY <1>1 DEF CheckLoad
<1>3. up = "layout" /\ WInv(w) /\ Types
  BY <1>1 DEF IInv, Phases, At
<1>4. CASE ~Alive(w)
  <2>1. life[w] = "gone"
    BY <1>1, <1>3, <1>4 DEF Types, Alive
  <2>. QED BY <1>1, <1>2, <1>3, <1>4, <2>1, GoneStep
<1>5. CASE Alive(w)
  <2>1. cwin[w] \in ClientWins /\ Known(w)
    BY <1>1, <1>3 DEF WInv, WaitsFor, Types, Known
  <2>2. cwin[w].state \in States
    BY <2>1 DEF ClientWins, States
  <2>3. MapDone(x, out, out', w, cwin[w].state, shown)
    <3>1. out' = out \o MapRequests(w, cwin[w].state, shown)
      BY <1>2, <1>5 DEF Ask
    <3>2. MapDone(x, out, out \o MapRequests(w, cwin[w].state, shown), w,
                  cwin[w].state, shown)
      BY <1>3, <2>2, MapMore DEF Types
    <3>. QED BY <3>1, <3>2
  <2>4. out' \in Seq(Requests) /\ Extends(out, out', w)
    BY <2>3 DEF MapDone, Grows
  <2>5. Mapped(w, cwin[w], shown) \in ClientWins
    BY <2>1, MappedFields
  <2>6. /\ cwin'[w] = Mapped(w, cwin[w], shown)
        /\ \A u \in Windows \ {w} : cwin'[u] = cwin[u]
        /\ cwin' \in [Windows -> ClientWins \cup {None}]
    BY <1>2, <1>3, <1>5, <2>5 DEF Types
  <2>7. ManagerStep(w)
    BY <1>1, <1>2, <2>4, <2>6 DEF ManagerStep, history
  <2>8. ~At("deinit", w)
    BY <1>1 DEF At
  <2>9. events' = events
    BY <1>2
  <2>10. /\ Known(w)'
         /\ Region(w)' /\ AtTheEnd(w)' /\ ShownAtTheEnd(w)'
         /\ Sound(x, out, w) => Sound(x', out', w)
    BY <1>2, <2>1, <2>3, <2>6, <2>7, <2>8, <2>9, MapFits
  <2>11. WInv(w)'
    BY <1>2, <2>1, <2>7, <2>8, <2>9, <2>10, StaysKnown
  <2>12. Types' /\ Phases' /\ DownIsEmpty'
    BY <1>2, <1>3, <2>4, <2>6 DEF Types, Phases, DownIsEmpty, Connected, clients, Idle
  <2>. QED BY <2>7, <2>11, <2>12, ManagerSteps
<1>. QED BY <1>4, <1>5

-----------------------------------------------------------------------------
(* A window becomes managed.                                               *)

\* A place is found for a window.
LEMMA ManageStep ==
    ASSUME IInv, NEW d \in Places, NEW back \in Frames \cup {None},
           NEW shown \in BOOLEAN, Manage(d, back, shown)
    PROVE  IInv'
<1>1. PICK w \in Windows :
         w = pc.win /\ At("manage", w) /\ out = <<>> /\ life[w] # "unborn"
  BY ReplyAbout DEF Manage, ToBeManaged
<1>. DEFINE c == NewClientWin(d, back, FALSE)
            n == Put(w, c, d, shown)
<1>2. /\ UNCHANGED <<clients, x, events, up, scan, history>>
      /\ pc' = [pc EXCEPT !.op = "check"]
      /\ cwin' = [cwin EXCEPT ![w] = n]
      /\ out' = out \o (Create(w) \o PutRequests(w, c, d, shown))
      /\ Alive(w) /\ kind[w] # "override" /\ (pc.arg \/ x[w].mapped)
  BY <1>1 DEF Manage, ToBeManaged, Ask
<1>3. c \in ClientWins /\ c.state = "Withdrawn"
  <2>. DEFINE b == (d = Screen)
  <2>1. c = [place |-> d, back |-> back, mapped |-> FALSE, state |-> "Withdrawn",
             fs_rq |-> b, loaded |-> FALSE]
    BY DEF NewClientWin
  <2>2. b \in BOOLEAN
    OBVIOUS
  <2>. HIDE DEF b, c
  <2>. QED BY <2>1, <2>2 DEF ClientWins
<1>. HIDE DEF c
<1>4. IsPut(w, c, d, shown, n)
  BY <1>3, PutFields
<1>. HIDE DEF n
<1>5. WInv(w) /\ Types /\ Phases
  BY DEF IInv
<1>. DEFINE q == out \o Create(w)
            b == PutRequests(w, c, d, shown)
<1>6. Created(x, out, q, w)
  BY <1>5, CreateMore DEF Types
<1>7. q \in Seq(Requests) /\ c.state \in States
  BY <1>3, <1>6 DEF Created, States
<1>8. out' = q \o b
  BY <1>2, <1>1
<1>. HIDE DEF q
<1>9. PutDone(x, q, out', w, c, d, shown)
  BY <1>7, <1>8, PutMore
<1>10. out' \in Seq(Requests) /\ Extends(out, out', w)
  <2>1. Extends(out, q, w) /\ Extends(q, out', w) /\ out' \in Seq(Requests)
    BY <1>6, <1>9 DEF Created, PutDone
  <2>. QED BY <1>5, <1>7, <2>1, ExtendsTransitive DEF Types
<1>11. /\ n \in ClientWins /\ cwin'[w] = n
       /\ \A u \in Windows \ {w} : cwin'[u] = cwin[u]
       /\ cwin' \in [Windows -> ClientWins \cup {None}]
  BY <1>2, <1>4, <1>5 DEF Types, IsPut
<1>12. Known(w)'
  BY <1>11, ClientsAssumption DEF Known
<1>13. pc'.op = "check" /\ pc'.win = w
  BY <1>1, <1>2, <1>5 DEF Types, At, Idle
<1>14. ManagerStep(w)
  BY <1>1, <1>2, <1>10, <1>11, <1>13 DEF ManagerStep, history
<1>15. /\ At("check", w)' /\ ~At("check_load", w)' /\ ~At("deinit", w)'
  BY <1>13 DEF At
<1>16. /\ x' = x /\ kind' = kind /\ missed' = missed /\ events' = events
       /\ Alive(w)' <=> Alive(w)
  BY <1>2 DEF clients, history, Alive
<1>17. /\ Final(x, q, w, "saved")
       /\ Sound(x, out, w) => Sound(x, q, w)
  BY <1>6 DEF Created
<1>18. Region(w)'
  BY <1>3, <1>4, <1>11, <1>15, <1>16 DEF Region, IsPut, StateOnceMapped
<1>19. AtTheEnd(w)'
  BY <1>3, <1>4, <1>9, <1>11, <1>12, <1>15, <1>16, <1>17
     DEF AtTheEnd, Finally, PutDone, IsPut
<1>20. ShownAtTheEnd(w)'
  <2>1. SUFFICES ASSUME n.state # "Withdrawn"
                 PROVE  Final(x', out', w, "mapped") <=>
                           (kind[w] = "acrobatic" \/ n.mapped)
    BY <1>11, <1>16 DEF ShownAtTheEnd, Finally
  <2>2. kind[w] # "acrobatic" => (Final(x', out', w, "mapped") <=> shown)
    BY <1>9, <1>16 DEF PutDone
  <2>3. kind[w] = "acrobatic" => shown
    BY <1>3, <1>4, <2>1 DEF IsPut, StateOnceMapped
  <2>4. kind[w] = "acrobatic" => Final(x', out', w, "mapped")
    BY <1>3, <1>9, <1>16, <2>3 DEF PutDone
  <2>. QED BY <1>4, <2>2, <2>4 DEF IsPut
<1>21. Sound(x, out, w) => Sound(x', out', w)
  BY <1>9, <1>16, <1>17 DEF PutDone
<1>22. ToManage(w) \/ x[w].mapped
  BY <1>1, <1>2 DEF ToManage
<1>23. WInv(w)'
  BY <1>1, <1>2, <1>12, <1>14, <1>15, <1>16, <1>18, <1>19, <1>20, <1>21, <1>22, BecomesKnown
<1>24. Types'
  BY <1>2, <1>5, <1>10, <1>11, <1>13 DEF Types, clients
<1>25. Phases' /\ DownIsEmpty'
  BY <1>1, <1>2, <1>5, <1>13 DEF Phases, DownIsEmpty, Connected, At
<1>. QED BY <1>14, <1>23, <1>24, <1>25, ManagerSteps

\* A window of a saved layout is there.
LEMMA LoadReplyStep ==
    ASSUME IInv, LoadReply
    PROVE  IInv'
<1>1. PICK w \in Windows :
         w = pc.win /\ At("load", w) /\ out = <<>> /\ life[w] # "unborn"
  BY ReplyAbout DEF LoadReply
<1>2. WInv(w) /\ Types /\ up = "layout"
  BY <1>1 DEF IInv, Phases, At
<1>3. ~Known(w)
  BY <1>1, <1>2 DEF WInv, WaitsFor
<1>4. CASE ~(Alive(w) /\ kind[w] # "override" /\ x[w].mapped)
  <2>1. /\ pc' = Idle
        /\ UNCHANGED <<clients, x, out, events, up, scan, cwin, history>>
    BY <1>1, <1>4 DEF LoadReply
  <2>. QED BY <1>1, <1>2, <1>3, <2>1, LoadWaits
<1>5. CASE Alive(w) /\ kind[w] # "override" /\ x[w].mapped
  <2>. DEFINE d == pc.arg
              v == Xwindow(d)
              n == NewClientWin(d, None, TRUE)
              q == out \o Create(w)
  <2>1. /\ UNCHANGED <<clients, x, events, up, scan, history>>
        /\ pc' = [pc EXCEPT !.op = "check_load"]
        /\ cwin' = [cwin EXCEPT ![w] = n]
        /\ out' = out \o (Create(w) \o Unnoticed(w, "parent", v))
    BY <1>1, <1>5 DEF LoadReply, Ask
  <2>2. d \in Places
    BY <1>1, <1>2 DEF Types, At, Idle
  <2>. HIDE DEF d
  <2>3. n \in ClientWins /\ n.state = "Withdrawn" /\ n.loaded /\ ~n.mapped
        /\ n.place = d /\ ~n.fs_rq
    <3>. DEFINE b == (d = Screen /\ ~TRUE)
    <3>1. n = [place |-> d, back |-> None, mapped |-> FALSE, state |-> "Withdrawn",
               fs_rq |-> b, loaded |-> TRUE]
      BY DEF NewClientWin
    <3>2. b \in BOOLEAN /\ ~b
      OBVIOUS
    <3>. HIDE DEF b, n
    <3>. QED BY <2>2, <3>1, <3>2 DEF ClientWins
  <2>. HIDE DEF n
  <2>4. Created(x, out, q, w)
    BY <1>2, CreateMore DEF Types
  <2>5. q \in Seq(Requests)
    BY <2>4 DEF Created
  <2>6. out' = q \o Unnoticed(w, "parent", v)
    BY <1>1, <2>1
  <2>. HIDE DEF q
  <2>7. Request("parent", w, v) \in Requests
    BY <2>2, BlocksAreRequests
  <2>8. Changed(x, q, out', w, "parent", v)
    BY <2>5, <2>6, <2>7, UnnoticedMore
  <2>9. out' \in Seq(Requests) /\ Extends(out, out', w)
    <3>1. Extends(out, q, w) /\ Extends(q, out', w) /\ out' \in Seq(Requests)
      BY <2>4, <2>8 DEF Created, Changed
    <3>. QED BY <1>2, <2>5, <3>1, ExtendsTransitive DEF Types
  <2>10. /\ cwin'[w] = n
         /\ \A u \in Windows \ {w} : cwin'[u] = cwin[u]
         /\ cwin' \in [Windows -> ClientWins \cup {None}]
    BY <1>2, <2>1, <2>3 DEF Types
  <2>11. Known(w)'
    BY <2>3, <2>10, ClientsAssumption DEF Known
  <2>12. pc'.op = "check_load" /\ pc'.win = w
    BY <1>1, <1>2, <2>1 DEF Types, At, Idle
  <2>13. ManagerStep(w)
    BY <1>1, <2>1, <2>9, <2>10, <2>12 DEF ManagerStep, history
  <2>14. At("check_load", w)' /\ ~At("deinit", w)'
    BY <2>12 DEF At
  <2>15. /\ x' = x /\ kind' = kind /\ missed' = missed /\ events' = events
         /\ Alive(w)' <=> Alive(w)
    BY <2>1 DEF clients, history, Alive
  <2>16. /\ Final(x, out', w, "parent") = v
         /\ Final(x, out', w, "saved") /\ Final(x, out', w, "selected")
         /\ Sound(x, out, w) => Sound(x, out', w)
    BY <2>4, <2>8 DEF Created, Changed
  <2>17. Region(w)' /\ AtTheEnd(w)' /\ ShownAtTheEnd(w)'
    BY <2>3, <2>10, <2>11, <2>14, <2>15, <2>16
       DEF Region, AtTheEnd, ShownAtTheEnd, Finally
  <2>18. Sound(x, out, w) => Sound(x', out', w)
    BY <2>15, <2>16
  <2>19. WInv(w)'
    BY <1>1, <1>5, <2>11, <2>13, <2>14, <2>15, <2>17, <2>18, BecomesKnown
  <2>20. Types'
    BY <1>2, <2>1, <2>9, <2>10, <2>12 DEF Types, clients
  <2>21. Phases' /\ DownIsEmpty'
    BY <1>2, <2>1, <2>12 DEF Phases, DownIsEmpty, Connected
  <2>. QED BY <2>13, <2>19, <2>20, <2>21, ManagerSteps
<1>. QED BY <1>4, <1>5

-----------------------------------------------------------------------------
(* A window is refused, or left.                                           *)

\* No place is found for a window: it was in the save set in between.
LEMMA RefuseStep ==
    ASSUME IInv, Refuse
    PROVE  IInv'
<1>1. PICK w \in Windows :
         w = pc.win /\ At("manage", w) /\ out = <<>> /\ life[w] # "unborn"
  BY ReplyAbout DEF Refuse, ToBeManaged
<1>. DEFINE r1 == Request("saved", w, FALSE)
            r2 == Request("selected", w, FALSE)
            q == out \o Create(w)
<1>2. /\ UNCHANGED <<clients, x, events, up, scan, cwin, missed, unheard, lost>>
      /\ pc' = Idle /\ refused' = refused \cup {w}
      /\ out' = out \o (Create(w) \o <<r1, r2>>)
      /\ Alive(w) /\ kind[w] # "override"
  BY <1>1 DEF Refuse, ToBeManaged, Ask
<1>3. WInv(w) /\ Types /\ Phases
  BY DEF IInv
<1>4. Created(x, out, q, w) /\ q \in Seq(Requests)
  <2>1. Created(x, out, q, w)
    BY <1>3, CreateMore DEF Types
  <2>. QED BY <2>1 DEF Created
<1>5. out' = q \o <<r1, r2>>
  BY <1>1, <1>2
<1>. HIDE DEF q
<1>6. LetGo(x, q, out', w)
  BY <1>4, <1>5, LetGoMore
<1>7. out' \in Seq(Requests) /\ Extends(out, out', w)
  <2>1. Extends(out, q, w) /\ Extends(q, out', w) /\ out' \in Seq(Requests)
    BY <1>4, <1>6 DEF Created, LetGo
  <2>. QED BY <1>3, <1>4, <2>1, ExtendsTransitive DEF Types
<1>8. ~Known(w) /\ ~Known(w)'
  BY <1>1, <1>2, <1>3 DEF WInv, WaitsFor, Known
<1>9. ManagerStep(w)
  BY <1>1, <1>2, <1>7 DEF ManagerStep
<1>10. Types' /\ Phases' /\ DownIsEmpty'
  <2>1. up \in {"normal", "scan"}
    BY <1>1, <1>3 DEF Phases, At
  <2>. QED BY <1>2, <1>3, <1>7, <2>1
           DEF Types, Phases, DownIsEmpty, Connected, clients, Idle
<1>11. /\ Alive(w)' <=> Alive(w)
       /\ Unwanted(w)' <=> Unwanted(w)
       /\ kind' = kind /\ life' = life /\ want' = want /\ asking' = asking
       /\ x' = x /\ missed' = missed /\ unheard' = unheard /\ lost' = lost
       /\ \A f : Has(out, w, f) => Has(out', w, f)
  BY <1>9, OwnWindow
<1>12. \A op : ~At(op, w)' /\ ~ToManage(w)'
  BY <1>2, Idles
<1>13. /\ \A f : Finally(w, f) = x[w][f]
       /\ ~Has(out, w, "mapped")
  BY <1>1, NothingAsked
<1>14. /\ \A g : Final(x, out', w, g) = IF g \in {"selected", "saved"} THEN FALSE
                                        ELSE Final(x, out, w, g)
       /\ Sound(x, out, w) /\ Final(x, out, w, "parent") = None => Sound(x, out', w)
       /\ Has(out', w, "mapped") => Has(out, w, "mapped")
  BY <1>4, <1>6 DEF Created, LetGo
<1>15. Final(x, out, w, "parent") = None
  BY <1>2, <1>3, <1>8 DEF WInv, AtTheEnd, Finally
<1>16. events' = events /\ up' = up /\ scan' = scan /\ w \in refused'
  BY <1>2
<1>17. Untouched(w)' /\ WantAlive(w)' /\ Inside(w)'
  BY <1>1, <1>3, <1>11, <1>14, <1>15 DEF WInv, Untouched, WantAlive, Inside
<1>18. WaitsFor(w)' /\ Override(w)' /\ Unrequested(w)'
  BY <1>2, <1>11, <1>12, <1>13, <1>14 DEF WaitsFor, Override, Unrequested
<1>19. Region(w)' /\ AtTheEnd(w)' /\ ShownAtTheEnd(w)' /\ Leaves(w)'
  BY <1>8, <1>11, <1>12, <1>14, <1>15
     DEF Region, AtTheEnd, ShownAtTheEnd, Leaves, Finally
<1>20. Destroys(w)' /\ UnmapThenMap(w)' /\ MapThenUnmap(w)'
  BY <1>3, <1>11, <1>12, <1>16 DEF WInv, Destroys, UnmapThenMap, MapThenUnmap
<1>21. StillMapped(w)'
  BY <1>3, <1>8, <1>11, <1>14, <1>16 DEF WInv, StillMapped, Finally
<1>22. Awaited(w)' /\ Promise(w)' /\ Asks(w)'
  BY <1>3, <1>11, <1>16 DEF WInv, Awaited, Promise, Asks
<1>23. WInv(w)'
  BY <1>17, <1>18, <1>19, <1>20, <1>21, <1>22 DEF WInv
<1>. QED BY <1>9, <1>10, <1>23, ManagerSteps

\* clientwin_deinit puts the window back on the root window before it leaves
\* the save set.
LEMMA DeinitStep ==
    ASSUME IInv, Deinit
    PROVE  IInv'
<1>1. PICK w \in Windows :
         w = pc.win /\ At("deinit", w) /\ out = <<>> /\ life[w] # "unborn"
  BY ReplyAbout DEF Deinit
<1>. DEFINE r1 == Request("parent", w, None)
            r3 == Request("saved", w, FALSE)
<1>2. /\ UNCHANGED <<clients, x, events, up, scan, history>>
      /\ pc' = Idle /\ cwin' = [cwin EXCEPT ![w] = None]
      /\ Alive(w) => out' = out \o ((<<r1>> \o LeftTo(w)) \o <<r3>>)
      /\ ~Alive(w) => out' = out \o (<<>> \o <<r3>>)
  BY <1>1 DEF Deinit, Ask, LeftTo
<1>3. WInv(w) /\ Types /\ up \in {"normal", "deinit"}
  BY <1>1 DEF IInv, Phases, At
<1>4. Known(w) /\ cwin[w].state \in States
  BY <1>1, <1>3 DEF WInv, WaitsFor, Types, Known, ClientWins, States
<1>5. /\ Freed(x, out, out \o ((<<r1>> \o LeftTo(w)) \o <<r3>>), w)
      /\ out \o <<r3>> \in Seq(Requests)
      /\ Extends(out, out \o <<r3>>, w)
  BY <1>3, <1>4, DeinitMore DEF Types
<1>6. <<>> \o <<r3>> = <<r3>>
  <2>1. r3 \in Requests
    BY BlocksAreRequests
  <2>. HIDE DEF r3
  <2>. QED BY <2>1
<1>. HIDE DEF r1, r3
<1>7. out' \in Seq(Requests) /\ Extends(out, out', w)
  BY <1>2, <1>5, <1>6 DEF Freed
<1>8. /\ ~Known(w)' /\ \A u \in Windows \ {w} : cwin'[u] = cwin[u]
      /\ cwin' \in [Windows -> ClientWins \cup {None}]
  BY <1>2, <1>3 DEF Types, Known
<1>9. ManagerStep(w)
  BY <1>1, <1>2, <1>7, <1>8 DEF ManagerStep, history
<1>10. Types' /\ Phases' /\ DownIsEmpty'
  BY <1>2, <1>3, <1>7, <1>8
     DEF Types, Phases, DownIsEmpty, Connected, clients, Idle
<1>11. CASE ~Alive(w)
  <2>1. life[w] = "gone"
    BY <1>1, <1>3, <1>11 DEF Types, Alive
  <2>2. kind[w] # "override"
    BY <1>3, <1>4 DEF WInv, Override
  <2>3. WInv(w)'
    BY <1>2, <1>8, <1>9, <2>1, <2>2, StaysGone
  <2>. QED BY <1>9, <1>10, <2>3, ManagerSteps
<1>12. CASE Alive(w)
  <2>1. Freed(x, out, out', w)
    BY <1>2, <1>5, <1>12
  <2>2. /\ Alive(w)' /\ (Unwanted(w)' <=> Unwanted(w))
        /\ kind' = kind /\ life' = life /\ want' = want /\ asking' = asking
        /\ x' = x /\ missed' = missed /\ unheard' = unheard /\ lost' = lost
        /\ \A f : Has(out, w, f) => Has(out', w, f)
    BY <1>9, <1>12, OwnWindow
  <2>3. \A op : ~At(op, w)' /\ ~ToManage(w)'
    BY <1>2, Idles
  <2>4. events' = events /\ up' = up /\ scan' = scan /\ refused' = refused
    BY <1>2 DEF history
  <2>5. ~Final(x, out, w, "selected") /\ kind[w] # "override"
    BY <1>1, <1>3, <1>4, <1>12 DEF WInv, AtTheEnd, Finally, Override
  <2>6. Untouched(w)' /\ WantAlive(w)' /\ Inside(w)'
    BY <1>1, <1>3, <1>12, <2>1, <2>2, <2>5
       DEF WInv, Untouched, WantAlive, Inside, Freed
  <2>7. WaitsFor(w)' /\ Override(w)' /\ Unrequested(w)'
    BY <1>3, <2>2, <2>3, <2>4, <2>5 DEF WaitsFor, Override, Unrequested
  <2>8. Region(w)' /\ AtTheEnd(w)' /\ ShownAtTheEnd(w)' /\ Leaves(w)'
    BY <1>8, <2>1, <2>2, <2>3, <2>5
       DEF Region, AtTheEnd, ShownAtTheEnd, Leaves, Finally, Freed
  <2>9. Destroys(w)' /\ UnmapThenMap(w)' /\ MapThenUnmap(w)'
    BY <1>3, <2>2, <2>3, <2>4 DEF WInv, Destroys, UnmapThenMap, MapThenUnmap
  <2>10. StillMapped(w)' /\ Asks(w)'
    BY <1>3, <2>2, <2>4 DEF WInv, StillMapped, Asks
  <2>11. ~ToManage(w)
    BY <1>1 DEF ToManage, At
  <2>12. up = "normal" /\ w \in want => Comes(events, "map", w)
    BY <1>1, <1>3 DEF WInv, WaitsFor
  <2>13. Awaited(w)'
    BY <1>3, <2>2, <2>4, <2>12 DEF Awaited
  <2>14. Promise(w)'
    BY <1>3, <2>1, <2>2, <2>4, <2>11, <2>12 DEF WInv, Promise, Connected, Freed
  <2>15. WInv(w)'
    BY <2>6, <2>7, <2>8, <2>9, <2>10, <2>13, <2>14 DEF WInv
  <2>. QED BY <1>9, <1>10, <2>15, ManagerSteps
<1>. QED BY <1>11, <1>12

-----------------------------------------------------------------------------
(* Steps of the clients.                                                   *)

\* A step of the client of window w
ClientStep(w) ==
    /\ UNCHANGED <<kind, out, manager>>
    /\ \A u \in Windows \ {w} :
          /\ life'[u] = life[u] /\ x'[u] = x[u]
          /\ (u \in want' <=> u \in want) /\ (u \in asking' <=> u \in asking)
          /\ (u \in missed' <=> u \in missed) /\ (u \in unheard' <=> u \in unheard)
          /\ (u \in lost' <=> u \in lost) /\ (u \in refused' <=> u \in refused)
          /\ SameEvents(events, events', u)

\* To make IInv hold after such a step
LEMMA ClientSteps ==
    ASSUME IInv, NEW w \in Windows, ClientStep(w), Types', WInv(w)',
           ~Connected => events' = <<>>,
           ~Connected /\ w \in want' => x'[w].mapped \/ w \in lost' \cup refused'
    PROVE  IInv'
<1>1. /\ kind' = kind /\ out' = out /\ up' = up /\ pc' = pc /\ scan' = scan
      /\ cwin' = cwin
  BY DEF ClientStep, manager
<1>2. Phases'
  BY <1>1 DEF IInv, Phases
<1>3. DownIsEmpty'
  <2>1. SUFFICES ASSUME ~Connected
                 PROVE  \A u \in want' : x'[u].mapped \/ u \in lost' \cup refused'
    BY <1>1 DEF IInv, DownIsEmpty, Connected, Known
  <2>2. ASSUME NEW u \in want', u # w
        PROVE  x'[u].mapped \/ u \in lost' \cup refused'
    <3>1. u \in Windows \ {w}
      BY <2>2 DEF Types
    <3>2. u \in want /\ x'[u] = x[u] /\ (u \in lost' <=> u \in lost)
          /\ (u \in refused' <=> u \in refused)
      BY <3>1 DEF ClientStep
    <3>. QED BY <2>1, <3>2 DEF IInv, DownIsEmpty
  <2>. QED BY <2>1, <2>2
<1>4. ASSUME NEW u \in Windows, u # w PROVE WInv(u)'
  <2>1. Unaffected(x, out, x', out', u)
    <3>1. \A f : x'[u][f] = x[u][f]
      BY <1>4 DEF ClientStep
    <3>2. Unaffected(x, out, x', out, u)
      BY <3>1, ChangeUnaffected DEF IInv, Types
    <3>. QED BY <1>1, <3>2
  <2>2. LeftAlone(u)
    BY <1>1, <1>4, <2>1 DEF LeftAlone, ClientStep
  <2>. QED BY <2>2, Elsewhere DEF IInv
<1>. QED BY <1>2, <1>3, <1>4 DEF IInv

\* Events of w, of types ts and the last of type l, are added to es.
Later(es, p, w, ts, l) ==
    /\ p \in Seq(EventRecords)
    /\ \A t : Comes(p, t, w) <=> Comes(es, t, w) \/ t \in ts
    /\ \A t, s : Followed(es, t, s, w) /\ t \notin ts => Followed(p, t, s, w)
    /\ \A t : t # l => Followed(p, t, l, w)
    /\ \A u : u # w => SameEvents(es, p, u)

\* One event is added.
LEMMA OneLater ==
    ASSUME NEW es \in Seq(EventRecords), NEW w, NEW l, NEW a,
           Event(l, w, a) \in EventRecords
    PROVE  Later(es, es \o <<Event(l, w, a)>>, w, {l}, l)
<1>. DEFINE e == Event(l, w, a)
            p == Append(es, e)
<1>1. e.type = l /\ e.win = w /\ e \in EventRecords
  BY DEF Event
<1>. HIDE DEF e
<1>2. es \o <<e>> = p
  BY <1>1
<1>3. Added(es, p, e)
  BY <1>1, OneEventMore
<1>. HIDE DEF p
<1>4. \A t, u : Is(e, t, u) <=> t = l /\ u = w
  BY <1>1 DEF Is
<1>5. p \in Seq(EventRecords) /\ \A t : Comes(p, t, w) <=> Comes(es, t, w) \/ t \in {l}
  BY <1>3, <1>4 DEF Added
<1>6. /\ \A t, s : Followed(es, t, s, w) /\ t \notin {l} => Followed(p, t, s, w)
      /\ \A t : t # l => Followed(p, t, l, w)
  BY <1>3, <1>4 DEF Added
<1>7. ASSUME NEW u, u # w PROVE SameEvents(es, p, u)
  BY <1>1, <1>3, <1>7, OtherEvents
<1>8. Later(es, p, w, {l}, l)
  BY <1>5, <1>6, <1>7 DEF Later
<1>. QED BY <1>2, <1>8 DEF e

\* Two events are added.
LEMMA LaterAgain ==
    ASSUME NEW es \in Seq(EventRecords), NEW p, NEW s, NEW w, NEW k, NEW l,
           Later(es, p, w, {k}, k), Later(p, s, w, {l}, l)
    PROVE  Later(es, s, w, {k, l}, l)
<1>1. ASSUME NEW u, u # w PROVE SameEvents(es, s, u)
  BY <1>1 DEF Later, SameEvents
<1>. QED BY <1>1 DEF Later

\* The events of a window that is unmapped and then does what e tells
LEMMA UnmapAndLater ==
    ASSUME IInv, NEW w \in Windows, NEW l, Event(l, w, None) \in EventRecords
    PROVE  /\ Later(events, events \o <<Event(l, w, None)>>, w, {l}, l)
           /\ Later(events, events \o UnmapNotify(w) \o <<Event(l, w, None)>>, w,
                    {"unmap", l}, l)
              \/ Later(events, events \o UnmapNotify(w) \o <<Event(l, w, None)>>, w,
                       {l}, l)
           /\ x[w].mapped /\ x[w].selected =>
                 Later(events, events \o UnmapNotify(w), w, {"unmap"}, "unmap")
           /\ ~(x[w].mapped /\ x[w].selected) => events \o UnmapNotify(w) = events
<1>1. events \in Seq(EventRecords)
  BY DEF IInv, Types
<1>2. Event("unmap", w, None) \in EventRecords
  BY DEF Event, EventRecords
<1>. DEFINE e1 == Event("unmap", w, None)
            e2 == Event(l, w, None)
            p == events \o <<e1>>
<1>3. Later(events, p, w, {"unmap"}, "unmap")
  BY <1>1, <1>2, OneLater
<1>4. Later(events, events \o <<e2>>, w, {l}, l)
  BY <1>1, OneLater
<1>5. p \in Seq(EventRecords)
  BY <1>3 DEF Later
<1>6. Later(p, p \o <<e2>>, w, {l}, l)
  BY <1>5, OneLater
<1>7. Later(events, p \o <<e2>>, w, {"unmap", l}, l)
  <2>. HIDE DEF p, e2
  <2>. QED BY <1>1, <1>3, <1>6, LaterAgain
<1>8. CASE x[w].mapped /\ x[w].selected
  <2>1. UnmapNotify(w) = <<e1>>
    BY <1>8 DEF UnmapNotify
  <2>. QED BY <1>3, <1>4, <1>7, <1>8, <2>1
<1>9. CASE ~(x[w].mapped /\ x[w].selected)
  <2>1. UnmapNotify(w) = <<>>
    BY <1>9 DEF UnmapNotify
  <2>2. events \o <<>> = events
    BY <1>1
  <2>. QED BY <1>4, <1>9, <2>1, <2>2
<1>. QED BY <1>8, <1>9

\* What is so of a window that has not gone, whether it is there already or not
LEMMA ThereOrNew ==
    ASSUME IInv, NEW w \in Windows, life[w] # "gone"
    PROVE  /\ x[w].parent # None => x[w].saved
           /\ Sound(x, out, w)
           /\ Known(w) => life[w] = "alive"
           /\ Known(w) =>
                 /\ Finally(w, "parent") = Xwindow(cwin[w].place)
                 /\ Finally(w, "saved") /\ (Finally(w, "selected") <=> ~At("deinit", w))
                 /\ cwin[w].state # "Withdrawn" => Finally(w, "wm_state") = cwin[w].state
                 /\ cwin[w].loaded \/ (Finally(w, "net_fs") <=> cwin[w].place = Screen)
           /\ ~Known(w) =>
                 /\ Finally(w, "parent") = None /\ ~Finally(w, "saved")
                 /\ Finally(w, "selected") <=> At("manage", w)
           /\ up \in {"layout", "scan"} /\ ~Known(w) => ~Has(out, w, "mapped")
<1>1. WInv(w) /\ Types
  BY DEF IInv
<1>2. CASE life[w] = "alive"
  BY <1>1, <1>2 DEF WInv, Inside, AtTheEnd, Unrequested, Alive
<1>3. CASE life[w] = "unborn"
  <2>1. x[w] = Fresh /\ ~Known(w) /\ NoneOf(out, w) /\ pc.win # w
    BY <1>1, <1>3 DEF WInv, Untouched
  <2>2. Bare(x, out, w)
    BY <1>1, <2>1, NoRequests DEF Types
  <2>3. Sound(x, out, w) /\ ~Has(out, w, "mapped")
    BY <2>2 DEF Bare
  <2>4. /\ Final(x, out, w, "parent") = x[w]["parent"]
        /\ Final(x, out, w, "saved") = x[w]["saved"]
        /\ Final(x, out, w, "selected") = x[w]["selected"]
    BY <2>2 DEF Bare
  <2>5. x[w].parent = None /\ ~x[w].saved /\ ~x[w].selected
    BY <2>1 DEF Fresh
  <2>. QED BY <2>1, <2>3, <2>4, <2>5 DEF Finally, At
<1>. QED BY <1>1, <1>2, <1>3 DEF Types

\* Nothing but the mapping of a window changes.
LEMMA MappingOnly ==
    ASSUME IInv, NEW w \in Windows, NEW b \in BOOLEAN,
           x' = [x EXCEPT ![w].mapped = b]
    PROVE  /\ x' \in [Windows -> XWin]
           /\ \A u \in Windows \ {w} : x'[u] = x[u]
           /\ x'[w].mapped = b /\ x'[w].parent = x[w].parent /\ x'[w].saved = x[w].saved
           /\ \A f \in Fields \ {"mapped"} : x'[w][f] = x[w][f]
<1>1. x \in [Windows -> XWin]
  BY DEF IInv, Types
<1>. DEFINE r == x[w]
            n == [r EXCEPT !.mapped = b]
<1>2. n \in XWin /\ n.mapped = b /\ \A f \in Fields \ {"mapped"} : n[f] = r[f]
  BY <1>1 DEF XWin, Fields
<1>3. x' = [x EXCEPT ![w] = n]
  OBVIOUS
<1>4. n.parent = r.parent /\ n.saved = r.saved
  BY <1>1 DEF XWin
<1>. HIDE DEF n
<1>5. x' \in [Windows -> XWin] /\ x'[w] = n /\ \A u \in Windows \ {w} : x'[u] = x[u]
  BY <1>1, <1>2, <1>3
<1>. QED BY <1>2, <1>4, <1>5

\* XMapWindow that the window manager is asked for
LEMMA MapsRedirected ==
    ASSUME IInv, NEW w \in Windows, ClientMaps(w), Redirected(w)
    PROVE  IInv'
<1>. DEFINE e == Event("map", w, None)
<1>1. /\ life[w] # "gone" /\ life' = [life EXCEPT ![w] = "alive"]
      /\ want' = want \cup {w} /\ lost' = lost \ {w}
      /\ unheard' = unheard \ {w} /\ refused' = refused \ {w}
      /\ events' = Append(events, e) /\ x' = x
      /\ kind' = kind /\ asking' = asking /\ out' = out /\ missed' = missed
      /\ up' = up /\ pc' = pc /\ scan' = scan /\ cwin' = cwin
      /\ Connected /\ kind[w] # "override"
  BY DEF ClientMaps, Redirected, manager
<1>2. WInv(w) /\ Types
  BY DEF IInv
<1>3. e \in EventRecords
  BY DEF Event, EventRecords
<1>4. Later(events, events \o <<e>>, w, {"map"}, "map")
  BY <1>2, <1>3, OneLater DEF Types
<1>5. Later(events, events', w, {"map"}, "map")
  <2>. HIDE DEF e
  <2>1. events \o <<e>> = Append(events, e)
    BY <1>2, <1>3 DEF Types
  <2>. QED BY <1>1, <1>4, <2>1
<1>6. Types'
  BY <1>1, <1>2, <1>5 DEF Types, Later
<1>7. ClientStep(w)
  BY <1>1, <1>2, <1>5 DEF ClientStep, manager, Later, Types
<1>8. /\ Alive(w)' /\ ~Unwanted(w)' /\ (Known(w)' <=> Known(w))
      /\ \A f : Finally(w, f)' = Finally(w, f)
      /\ \A op : At(op, w)' <=> At(op, w)
      /\ w \in want' /\ w \notin unheard' /\ w \notin lost' /\ w \notin refused'
  BY <1>1, <1>2 DEF Types, Alive, Unwanted, Known, Finally, At
<1>9. /\ Comes(events', "map", w)
      /\ \A t : t # "map" => (Comes(events', t, w) <=> Comes(events, t, w))
      /\ Followed(events', "unmap", "map", w)
  BY <1>5 DEF Later
<1>10. Untouched(w)' /\ WantAlive(w)' /\ Inside(w)'
  BY <1>1, <1>8, ThereOrNew DEF Untouched, WantAlive, Inside, Alive
<1>11. WaitsFor(w)' /\ Override(w)'
  BY <1>1, <1>2, <1>8, <1>9 DEF WInv, WaitsFor, Override
<1>12. Unrequested(w)'
  BY <1>1, <1>8, ThereOrNew DEF Unrequested
<1>13. Region(w)'
  BY <1>1, <1>2, <1>8 DEF WInv, Region
<1>14. AtTheEnd(w)'
  BY <1>1, <1>8, ThereOrNew DEF AtTheEnd
<1>15. ShownAtTheEnd(w)'
  BY <1>1, <1>2, <1>8, <1>9, ThereOrNew DEF WInv, ShownAtTheEnd, Alive
<1>16. Destroys(w)'
  BY <1>1, <1>2, <1>9 DEF WInv, Destroys
<1>17. UnmapThenMap(w)' /\ MapThenUnmap(w)' /\ Leaves(w)' /\ StillMapped(w)'
  BY <1>8, <1>9 DEF UnmapThenMap, MapThenUnmap, Leaves, StillMapped
<1>18. Awaited(w)' /\ Promise(w)'
  BY <1>9 DEF Awaited, Promise
<1>19. Asks(w)'
  BY <1>1, <1>2, <1>9 DEF WInv, Asks
<1>20. WInv(w)'
  BY <1>10, <1>11, <1>12, <1>13, <1>14, <1>15, <1>16, <1>17, <1>18, <1>19 DEF WInv
<1>. QED BY <1>1, <1>6, <1>7, <1>20, ClientSteps

\* XMapWindow that is nothing to the window manager
LEMMA MapsItself ==
    ASSUME IInv, NEW w \in Windows, ClientMaps(w), ~Redirected(w)
    PROVE  IInv'
<1>. DEFINE b == TRUE
<1>1. /\ life[w] # "gone" /\ life' = [life EXCEPT ![w] = "alive"]
      /\ want' = want \cup {w} /\ lost' = lost \ {w}
      /\ unheard' = unheard \ {w} /\ refused' = refused \ {w}
      /\ events' = events /\ x' = [x EXCEPT ![w].mapped = b]
      /\ kind' = kind /\ asking' = asking /\ out' = out /\ missed' = missed
      /\ up' = up /\ pc' = pc /\ scan' = scan /\ cwin' = cwin
      /\ ~Connected \/ kind[w] = "override"
  BY DEF ClientMaps, Redirected, manager
<1>2. WInv(w) /\ Types /\ DownIsEmpty
  BY DEF IInv
<1>3. b \in BOOLEAN /\ b
  OBVIOUS
<1>. HIDE DEF b
<1>4. /\ x' \in [Windows -> XWin]
      /\ \A u \in Windows \ {w} : x'[u] = x[u]
      /\ x'[w].mapped /\ x'[w].parent = x[w].parent /\ x'[w].saved = x[w].saved
      /\ \A f \in Fields \ {"mapped"} : x'[w][f] = x[w][f]
  BY <1>1, <1>3, MappingOnly
<1>5. ~Known(w) /\ ~Has(out, w, "mapped")
  <2>1. CASE ~Connected
    BY <1>2, <2>1, NothingAsked DEF DownIsEmpty
  <2>2. CASE kind[w] = "override"
    BY <1>2, <2>2 DEF WInv, Override
  <2>. QED BY <1>1, <2>1, <2>2
<1>6. /\ \A f \in Fields \ {"mapped"} : Final(x', out, w, f) = Final(x, out, w, f)
      /\ Sound(x, out, w) => Sound(x', out, w)
      /\ Kept(x', out, w)
  <2>1. out \in Seq(Requests) /\ x'[w]["mapped"]
    BY <1>2, <1>4 DEF Types
  <2>2. MappingDone(x, x', out, w)
    BY <1>4, <2>1, MappedByClient
  <2>. QED BY <1>5, <2>1, <2>2 DEF MappingDone
<1>7. /\ Final(x', out', w, "parent") = Final(x, out, w, "parent")
      /\ Final(x', out', w, "saved") = Final(x, out, w, "saved")
      /\ Final(x', out', w, "selected") = Final(x, out, w, "selected")
  BY <1>1, <1>6 DEF Fields
<1>8. Types'
  BY <1>1, <1>2, <1>4 DEF Types
<1>9. ClientStep(w)
  BY <1>1, <1>2, <1>4 DEF ClientStep, manager, Types, SameEvents
<1>10. /\ Alive(w)' /\ ~Unwanted(w)' /\ ~Known(w)'
       /\ \A op : At(op, w)' <=> At(op, w)
       /\ w \in want' /\ w \notin unheard' /\ w \notin lost' /\ w \notin refused'
  BY <1>1, <1>2, <1>5 DEF Types, Alive, Unwanted, Known, At
<1>11. Untouched(w)' /\ WantAlive(w)' /\ Inside(w)'
  BY <1>1, <1>4, <1>6, <1>10, ThereOrNew DEF Untouched, WantAlive, Inside, Alive
<1>12. WaitsFor(w)' /\ Override(w)' /\ Unrequested(w)'
  BY <1>1, <1>2, <1>4, <1>5, <1>10 DEF WInv, WaitsFor, Override, Unrequested
<1>13. AtTheEnd(w)'
  BY <1>1, <1>5, <1>7, <1>10, ThereOrNew DEF AtTheEnd, Finally
<1>14. Region(w)' /\ ShownAtTheEnd(w)' /\ Leaves(w)' /\ StillMapped(w)'
       /\ MapThenUnmap(w)'
  BY <1>10 DEF Region, ShownAtTheEnd, Leaves, StillMapped, MapThenUnmap
<1>15. Destroys(w)' /\ Asks(w)'
  BY <1>1, <1>2 DEF WInv, Destroys, Asks
<1>16. UnmapThenMap(w)' /\ Awaited(w)'
  <2>1. CASE ~Connected
    <3>1. \A t, s : Followed(events', t, s, w)
      BY <1>1, <1>2, <2>1, NoEvents DEF DownIsEmpty
    <3>. QED BY <1>1, <2>1, <3>1 DEF UnmapThenMap, Awaited, Connected
  <2>2. CASE kind[w] = "override"
    BY <1>1, <2>2 DEF UnmapThenMap, Awaited
  <2>. QED BY <1>1, <2>1, <2>2
<1>17. Promise(w)'
  BY <1>1, <1>6 DEF Promise
<1>18. WInv(w)'
  BY <1>11, <1>12, <1>13, <1>14, <1>15, <1>16, <1>17 DEF WInv
<1>19. ~Connected => events' = <<>>
  BY <1>1, <1>2 DEF DownIsEmpty
<1>. QED BY <1>4, <1>8, <1>9, <1>18, <1>19, ClientSteps

\* XMapWindow
LEMMA ClientMapsStep ==
    ASSUME IInv, NEW w \in Windows, ClientMaps(w)
    PROVE  IInv'
BY MapsRedirected, MapsItself

\* The client of w unmaps it: what is told of that
ToldOfUnmap(w) ==
    /\ Connected /\ Later(events, events', w, {"unmap"}, "unmap")
    /\ unheard' = unheard /\ missed' = missed
UntoldOfUnmap(w) ==
    /\ Connected /\ events' = events /\ unheard' = unheard \cup {w}
    /\ \/ missed' = missed /\ (Known(w) => ~x[w].mapped)
       \/ missed' = missed \cup {w}
NobodyToTell ==
    /\ ~Connected /\ events' = events /\ unheard' = unheard /\ missed' = missed

\* However its client unmaps it, and whoever is told
LEMMA UnmappedStep ==
    ASSUME IInv, NEW w \in Windows, Alive(w), w \in want,
           want' = want \ {w}, x' = [x EXCEPT ![w].mapped = FALSE],
           lost' = lost \ {w}, refused' = refused, asking' = asking,
           UNCHANGED <<kind, life, out, manager>>,
           ToldOfUnmap(w) \/ UntoldOfUnmap(w) \/ NobodyToTell
    PROVE  IInv'
<1>1. /\ kind' = kind /\ life' = life /\ out' = out
      /\ up' = up /\ pc' = pc /\ scan' = scan /\ cwin' = cwin
  BY DEF manager
<1>2. WInv(w) /\ Types /\ DownIsEmpty /\ life[w] # "gone" /\ life[w] # "unborn"
  BY DEF IInv, Alive
<1>3. /\ x' \in [Windows -> XWin]
      /\ \A u \in Windows \ {w} : x'[u] = x[u]
      /\ ~x'[w].mapped /\ x'[w].parent = x[w].parent /\ x'[w].saved = x[w].saved
      /\ \A f \in Fields \ {"mapped"} : x'[w][f] = x[w][f]
  <2>. DEFINE b == FALSE
  <2>1. x' = [x EXCEPT ![w].mapped = b] /\ b \in BOOLEAN /\ ~b
    OBVIOUS
  <2>. HIDE DEF b
  <2>. QED BY <2>1, MappingOnly
<1>4. MappingDone(x, x', out, w)
  BY <1>2, <1>3, MappedByClient DEF Types
<1>5. /\ \A f \in Fields \ {"mapped"} : Final(x', out, w, f) = Final(x, out, w, f)
      /\ Sound(x, out, w) => Sound(x', out, w)
      /\ ~Has(out, w, "mapped") => ~Final(x', out, w, "mapped")
  <2>1. ~x'[w]["mapped"]
    BY <1>3
  <2>. QED BY <1>4, <2>1 DEF MappingDone
<1>6. /\ Finally(w, "parent")' = Finally(w, "parent")
      /\ Finally(w, "saved")' = Finally(w, "saved")
      /\ Finally(w, "selected")' = Finally(w, "selected")
      /\ Finally(w, "wm_state")' = Finally(w, "wm_state")
      /\ Finally(w, "net_fs")' = Finally(w, "net_fs")
  BY <1>1, <1>5 DEF Fields, Finally
<1>7. Types' /\ ClientStep(w)
  BY <1>1, <1>2, <1>3
     DEF Types, ClientStep, ToldOfUnmap, UntoldOfUnmap, NobodyToTell, Later, SameEvents
<1>8. /\ Alive(w)' /\ (Known(w)' <=> Known(w)) /\ w \notin want'
      /\ \A op : At(op, w)' <=> At(op, w)
      /\ ToManage(w)' <=> ToManage(w)
  BY <1>1 DEF Alive, Known, At, ToManage
<1>9. ~Connected => /\ events' = <<>> /\ out = <<>> /\ ~Known(w) /\ ~ToManage(w)
                    /\ NobodyToTell
  BY <1>2, Idles DEF DownIsEmpty, ToldOfUnmap, UntoldOfUnmap, NobodyToTell
<1>10. \A t : t # "unmap" => (Comes(events', t, w) <=> Comes(events, t, w))
  BY DEF ToldOfUnmap, UntoldOfUnmap, NobodyToTell, Later
<1>11. Untouched(w)' /\ WantAlive(w)' /\ Inside(w)'
  BY <1>1, <1>2, <1>3, <1>5, <1>8 DEF WInv, Untouched, WantAlive, Inside
<1>12. WaitsFor(w)' /\ Override(w)' /\ Unrequested(w)'
  BY <1>1, <1>2, <1>8 DEF WInv, WaitsFor, Override, Unrequested, Alive
<1>13. Region(w)' /\ AtTheEnd(w)'
  BY <1>1, <1>2, <1>6, <1>8 DEF WInv, Region, AtTheEnd
<1>14. ShownAtTheEnd(w)'
  <2>1. CASE ToldOfUnmap(w)
    BY <2>1 DEF ToldOfUnmap, Later, ShownAtTheEnd
  <2>2. CASE ~Connected
    BY <1>8, <1>9, <2>2 DEF ShownAtTheEnd
  <2>3. CASE UntoldOfUnmap(w) /\ Known(w) /\ w \notin missed'
    <3>1. x \in [Windows -> XWin] /\ x[w] \in XWin
      BY <1>2 DEF Types
    <3>2. ~x[w].mapped /\ events' = events /\ missed' = missed
      BY <2>3 DEF UntoldOfUnmap
    <3>3. [x[w] EXCEPT !.mapped = FALSE] = x[w]
      BY <3>1, <3>2 DEF XWin
    <3>4. x' = x
      BY <3>1, <3>3
    <3>5. Finally(w, "mapped")' = Finally(w, "mapped")
      BY <1>1, <3>4 DEF Finally
    <3>. QED BY <1>1, <1>2, <1>8, <3>2, <3>5 DEF WInv, ShownAtTheEnd
  <2>. QED BY <1>8, <2>1, <2>2, <2>3 DEF ShownAtTheEnd, NobodyToTell
<1>15. Destroys(w)' /\ UnmapThenMap(w)' /\ Awaited(w)' /\ Promise(w)'
  BY <1>1, <1>2, <1>8, <1>10 DEF WInv, Destroys, UnmapThenMap, Awaited, Promise
<1>16. MapThenUnmap(w)' /\ Leaves(w)'
  <2>1. CASE ToldOfUnmap(w)
    BY <2>1 DEF ToldOfUnmap, Later, MapThenUnmap, Leaves
  <2>2. CASE UntoldOfUnmap(w)
    BY <2>2 DEF UntoldOfUnmap, MapThenUnmap, Leaves, Unwanted
  <2>3. CASE ~Connected
    BY <1>8, <1>9, <2>3, NoEvents DEF MapThenUnmap, Leaves
  <2>. QED BY <2>1, <2>2, <2>3 DEF NobodyToTell
<1>17. StillMapped(w)'
  <2>1. SUFFICES ASSUME up \in {"down", "layout", "scan"}, ~Known(w)
                 PROVE  ~Finally(w, "mapped")'
    BY <1>1, <1>8 DEF StillMapped
  <2>2. ~Has(out, w, "mapped")
    <3>1. CASE Connected
      BY <1>2, <2>1, <3>1 DEF WInv, Unrequested, Connected
    <3>2. CASE ~Connected
      BY <1>9, <3>2, NothingAsked
    <3>. QED BY <3>1, <3>2
  <2>. QED BY <1>1, <1>5, <2>2 DEF Finally
<1>18. Asks(w)'
  BY <1>1, <1>2, <1>10 DEF WInv, Asks
<1>19. WInv(w)'
  BY <1>11, <1>12, <1>13, <1>14, <1>15, <1>16, <1>17, <1>18 DEF WInv
<1>. QED BY <1>7, <1>8, <1>9, <1>19, ClientSteps

\* XWithdrawWindow
LEMMA ClientWithdrawsStep ==
    ASSUME IInv, NEW w \in Windows, ClientWithdraws(w)
    PROVE  IInv'
<1>1. Event("unmap", w, None) \in EventRecords
  BY DEF Event, EventRecords
<1>2. Connected => ToldOfUnmap(w)
  <2>. DEFINE l == "unmap"
              p == events \o UnmapNotify(w) \o <<Event(l, w, None)>>
  <2>1. Event(l, w, None) \in EventRecords
    BY <1>1
  <2>. HIDE DEF l
  <2>2. Later(events, p, w, {"unmap", l}, l) \/ Later(events, p, w, {l}, l)
    BY <2>1, UnmapAndLater
  <2>. HIDE DEF p
  <2>3. {"unmap", "unmap"} = {"unmap"}
    OBVIOUS
  <2>4. Later(events, p, w, {"unmap"}, "unmap")
    BY <2>2, <2>3 DEF l
  <2>5. Connected => events' = p
    BY DEF ClientWithdraws, p, l
  <2>. QED BY <2>4, <2>5 DEF ToldOfUnmap, ClientWithdraws
<1>3. ~Connected => NobodyToTell
  BY DEF NobodyToTell, ClientWithdraws
<1>. QED BY <1>2, <1>3, UnmappedStep DEF ClientWithdraws

\* XUnmapWindow
LEMMA ClientUnmapsStep ==
    ASSUME IInv, NEW w \in Windows, ClientUnmaps(w)
    PROVE  IInv'
<1>1. Event("unmap", w, None) \in EventRecords
  BY DEF Event, EventRecords
<1>2. /\ x[w].mapped /\ x[w].selected =>
            Later(events, events \o UnmapNotify(w), w, {"unmap"}, "unmap")
      /\ ~(x[w].mapped /\ x[w].selected) => events \o UnmapNotify(w) = events
  BY <1>1, UnmapAndLater
<1>3. UnmapNotify(w) = <<>> <=> ~(x[w].mapped /\ x[w].selected)
  BY DEF UnmapNotify
<1>4. ~Connected => ~x[w].selected /\ ~Known(w)
  <2>1. SUFFICES ASSUME ~Connected PROVE ~x[w].selected /\ ~Known(w)
    OBVIOUS
  <2>2. ~Known(w) /\ out = <<>> /\ pc = Idle
    BY <2>1 DEF IInv, DownIsEmpty
  <2>3. ~Finally(w, "selected")
    BY <2>2, Idles DEF ClientUnmaps, IInv, WInv, AtTheEnd
  <2>4. Finally(w, "selected") = x[w]["selected"]
    BY <2>2, NothingAsked
  <2>. QED BY <2>2, <2>3, <2>4
<1>5. ToldOfUnmap(w) \/ UntoldOfUnmap(w) \/ NobodyToTell
  BY <1>2, <1>3, <1>4 DEF ClientUnmaps, ToldOfUnmap, UntoldOfUnmap, NobodyToTell
<1>. QED BY <1>5, UnmappedStep DEF ClientUnmaps

\* XDestroyWindow
LEMMA ClientDestroysStep ==
    ASSUME IInv, NEW w \in Windows, ClientDestroys(w)
    PROVE  IInv'
<1>1. /\ Alive(w) /\ life' = [life EXCEPT ![w] = "gone"]
      /\ want' = want \ {w} /\ asking' = asking \ {w}
      /\ x' = [x EXCEPT ![w] = Fresh]
      /\ lost' = lost \ {w} /\ unheard' = unheard \ {w} /\ refused' = refused
      /\ kind' = kind /\ out' = out
      /\ up' = up /\ pc' = pc /\ scan' = scan /\ cwin' = cwin
      /\ x[w].selected => missed' = missed
      /\ ~x[w].selected => events' = events /\ missed' = missed \cup {w}
  BY DEF ClientDestroys, manager
<1>2. WInv(w) /\ Types /\ DownIsEmpty
  BY DEF IInv
<1>3. Fresh \in XWin
  BY DEF Fresh, XWin, States
<1>4. /\ x' \in [Windows -> XWin] /\ \A u \in Windows \ {w} : x'[u] = x[u]
      /\ life' \in [Windows -> {"unborn", "alive", "gone"}]
      /\ life'[w] = "gone" /\ \A u \in Windows \ {w} : life'[u] = life[u]
  BY <1>1, <1>2, <1>3 DEF Types
<1>5. x[w].selected =>
         \/ Later(events, events', w, {"unmap", "destroy"}, "destroy")
         \/ Later(events, events', w, {"destroy"}, "destroy")
  <2>. DEFINE l == "destroy"
              p == events \o UnmapNotify(w) \o <<Event(l, w, None)>>
  <2>1. Event(l, w, None) \in EventRecords
    BY DEF Event, EventRecords
  <2>. HIDE DEF l
  <2>2. Later(events, p, w, {"unmap", l}, l) \/ Later(events, p, w, {l}, l)
    BY <2>1, UnmapAndLater
  <2>. HIDE DEF p
  <2>3. x[w].selected => events' = p
    BY DEF ClientDestroys, p, l
  <2>. QED BY <2>2, <2>3 DEF l
<1>6. /\ events' \in Seq(EventRecords)
      /\ \A u \in Windows \ {w} : SameEvents(events, events', u)
      /\ x[w].selected => Comes(events', "destroy", w)
  BY <1>1, <1>2, <1>5 DEF Later, SameEvents, Types
<1>7. Types'
  BY <1>1, <1>2, <1>4, <1>6 DEF Types
<1>8. ClientStep(w)
  BY <1>1, <1>4, <1>6 DEF ClientStep, manager
<1>9. ~Connected => events' = <<>>
  <2>1. SUFFICES ASSUME ~Connected PROVE events' = <<>>
    OBVIOUS
  <2>2. ~Known(w) /\ out = <<>> /\ events = <<>> /\ pc = Idle
    BY <1>2, <2>1 DEF DownIsEmpty
  <2>3. ~Finally(w, "selected")
    BY <1>1, <1>2, <2>2, Idles DEF WInv, AtTheEnd
  <2>4. Finally(w, "selected") = x[w]["selected"]
    BY <2>2, NothingAsked
  <2>. QED BY <1>1, <2>2, <2>3, <2>4
<1>10. /\ ~Alive(w)' /\ ~Unwanted(w)' /\ (Known(w)' <=> Known(w))
       /\ w \notin want' /\ w \notin asking'
       /\ \A op : At(op, w)' <=> At(op, w)
  BY <1>1, <1>4 DEF Alive, Unwanted, Known, At
<1>11. Untouched(w)' /\ WantAlive(w)' /\ Inside(w)'
  BY <1>4, <1>10 DEF Untouched, WantAlive, Inside
<1>12. WaitsFor(w)' /\ Override(w)' /\ Unrequested(w)'
  BY <1>1, <1>2, <1>10 DEF WInv, WaitsFor, Override, Unrequested
<1>13. Region(w)'
  BY <1>1, <1>2, <1>10 DEF WInv, Region
<1>14. AtTheEnd(w)' /\ ShownAtTheEnd(w)' /\ Destroys(w)'
  BY <1>4, <1>10 DEF AtTheEnd, ShownAtTheEnd, Destroys
<1>15. UnmapThenMap(w)' /\ MapThenUnmap(w)' /\ StillMapped(w)'
  BY <1>10 DEF UnmapThenMap, MapThenUnmap, StillMapped
<1>16. Leaves(w)'
  BY <1>1, <1>6 DEF Leaves
<1>17. Awaited(w)' /\ Promise(w)' /\ Asks(w)'
  BY <1>10 DEF Awaited, Promise, Asks
<1>18. WInv(w)'
  BY <1>11, <1>12, <1>13, <1>14, <1>15, <1>16, <1>17 DEF WInv
<1>. QED BY <1>7, <1>8, <1>9, <1>10, <1>18, ClientSteps

\* A client asks for something.
LEMMA AsksStep ==
    ASSUME IInv, NEW w \in Windows, Alive(w), Connected,
           UNCHANGED <<kind, life, want, x, out, manager, history>>,
           NEW l \in {"configure", "net_wm_state"}, NEW a,
           Event(l, w, a) \in EventRecords,
           events' = Append(events, Event(l, w, a)),
           asking' = asking \/ (l = "configure" /\ asking' = asking \cup {w})
    PROVE  IInv'
<1>1. /\ kind' = kind /\ life' = life /\ want' = want /\ x' = x /\ out' = out
      /\ missed' = missed /\ unheard' = unheard /\ lost' = lost /\ refused' = refused
      /\ up' = up /\ pc' = pc /\ scan' = scan /\ cwin' = cwin
  BY DEF manager, history
<1>2. WInv(w) /\ Types
  BY DEF IInv
<1>. DEFINE e == Event(l, w, a)
<1>3. Later(events, events \o <<e>>, w, {l}, l)
  BY <1>2, OneLater DEF Types
<1>4. Later(events, events', w, {l}, l)
  <2>. HIDE DEF e
  <2>1. events \o <<e>> = events'
    BY <1>2 DEF Types, e
  <2>. QED BY <1>3, <2>1
<1>5. Types'
  BY <1>1, <1>2, <1>4 DEF Types, Later
<1>6. ClientStep(w)
  BY <1>1, <1>4 DEF ClientStep, manager, Later
<1>7. /\ Alive(w)' /\ (Known(w)' <=> Known(w)) /\ (Unwanted(w)' <=> Unwanted(w))
      /\ \A op : At(op, w)' <=> At(op, w)
      /\ ToManage(w)' <=> ToManage(w)
      /\ \A f : Finally(w, f)' = Finally(w, f)
  BY <1>1 DEF Alive, Known, Unwanted, At, ToManage, Finally
<1>8. /\ \A t \in {"map", "unmap", "destroy"} : Comes(events', t, w) <=> Comes(events, t, w)
      /\ Comes(events, "configure", w) => Comes(events', "configure", w)
      /\ asking' # asking => Comes(events', "configure", w)
  BY <1>4 DEF Later
<1>9. /\ Followed(events, "map", "unmap", w) => Followed(events', "map", "unmap", w)
      /\ Followed(events, "unmap", "map", w) => Followed(events', "unmap", "map", w)
  BY <1>4 DEF Later
<1>10. Untouched(w)' /\ WantAlive(w)' /\ Inside(w)'
  BY <1>1, <1>2, <1>7 DEF WInv, Untouched, WantAlive, Inside, Alive
<1>11. WaitsFor(w)' /\ Override(w)' /\ Unrequested(w)'
  BY <1>1, <1>2, <1>7, <1>8 DEF WInv, WaitsFor, Override, Unrequested
<1>12. Region(w)' /\ AtTheEnd(w)' /\ ShownAtTheEnd(w)' /\ Leaves(w)'
  BY <1>1, <1>2, <1>7, <1>8 DEF WInv, Region, AtTheEnd, ShownAtTheEnd, Leaves
<1>13. Destroys(w)' /\ UnmapThenMap(w)' /\ MapThenUnmap(w)'
  BY <1>1, <1>2, <1>7, <1>8, <1>9 DEF WInv, Destroys, UnmapThenMap, MapThenUnmap
<1>14. StillMapped(w)' /\ Awaited(w)' /\ Promise(w)' /\ Asks(w)'
  BY <1>1, <1>2, <1>7, <1>8
     DEF WInv, StillMapped, Awaited, Promise, Asks, Connected
<1>15. WInv(w)'
  BY <1>10, <1>11, <1>12, <1>13, <1>14 DEF WInv
<1>. QED BY <1>5, <1>6, <1>15, ClientSteps

\* XConfigureWindow
LEMMA ClientConfiguresStep ==
    ASSUME IInv, NEW w \in Windows, ClientConfigures(w)
    PROVE  IInv'
<1>. DEFINE l == "configure"
<1>1. l \in {"configure", "net_wm_state"} /\ l = "configure"
  OBVIOUS
<1>2. Event(l, w, None) \in EventRecords
  BY DEF Event, EventRecords
<1>3. /\ events' = Append(events, Event(l, w, None))
      /\ Alive(w) /\ Connected /\ asking' = asking \cup {w}
      /\ UNCHANGED <<kind, life, want, x, out, manager, history>>
  BY DEF ClientConfigures, Redirected
<1>. HIDE DEF l
<1>. QED BY <1>1, <1>2, <1>3, AsksStep

\* _NET_WM_STATE
LEMMA ClientAsksFullscreenStep ==
    ASSUME IInv, NEW w \in Windows, NEW on \in BOOLEAN, ClientAsksFullscreen(w, on)
    PROVE  IInv'
<1>. DEFINE l == "net_wm_state"
<1>1. l \in {"configure", "net_wm_state"}
  OBVIOUS
<1>2. Event(l, w, on) \in EventRecords
  BY DEF Event, EventRecords
<1>3. /\ events' = Append(events, Event(l, w, on))
      /\ Alive(w) /\ Connected /\ asking' = asking
      /\ UNCHANGED <<kind, life, want, x, out, manager, history>>
  BY DEF ClientAsksFullscreen, clients
<1>. HIDE DEF l
<1>. QED BY <1>1, <1>2, <1>3, AsksStep

-----------------------------------------------------------------------------
(* Steps of the server.                                                    *)

\* For another window, requests without the first are what they were.
LEMMA OtherServed ==
    ASSUME NEW q \in Seq(Requests), NEW X, NEW Y, NEW u, q # <<>>,
           Head(q).win # u, \A f : Y[u][f] = X[u][f]
    PROVE  Unaffected(X, q, Y, Tail(q), u)
<1>. DEFINE p == Tail(q)
            n == Len(q) - 1
<1>1. /\ n \in Nat /\ Len(p) = n /\ Len(q) = n + 1 /\ q[1].win # u
      /\ \A k \in 1 .. n : p[k] = q[k + 1]
  OBVIOUS
<1>2. \A f : Y[u][f] = After(X, q, 1, u, f)
  <2>1. ASSUME NEW f PROVE Y[u][f] = After(X, q, 1, u, f)
    <3>1. After(X, q, 1, u, f) = After(X, q, 1 - 1, u, f)
      BY <1>1, AfterStep DEF Sets
    <3>2. 1 - 1 = 0
      OBVIOUS
    <3>. QED BY <3>1, <3>2, AfterZero
  <2>. QED BY <2>1
<1>3. ASSUME NEW f PROVE \A k \in 0 .. n : After(Y, p, k, u, f) = After(X, q, k + 1, u, f)
  <2>1. Y[u][f] = After(X, q, 1, u, f)
    BY <1>2
  <2>. QED BY <2>1, AfterServed
<1>4. \A f : Final(Y, p, u, f) = Final(X, q, u, f)
  <2>1. ASSUME NEW f PROVE Final(Y, p, u, f) = Final(X, q, u, f)
    <3>1. n \in 0 .. n
      BY <1>1
    <3>2. After(Y, p, n, u, f) = After(X, q, n + 1, u, f)
      BY <1>3, <3>1
    <3>. QED BY <1>1, <3>2 DEF Final
  <2>. QED BY <2>1
<1>5. /\ Sound(X, q, u) => Sound(Y, p, u)
      /\ Kept(X, q, u) => Kept(Y, p, u)
  <2>1. \A f \in Fields : Y[u][f] = After(X, q, 1, u, f)
    BY <1>2
  <2>. QED BY <2>1, ServedKeeps
<1>6. ASSUME NEW f PROVE Has(p, u, f) <=> Has(q, u, f)
  <2>1. ASSUME Has(p, u, f) PROVE Has(q, u, f)
    <3>1. PICK k \in 1 .. n : Sets(p[k], u, f)
      BY <1>1, <2>1 DEF Has
    <3>2. k + 1 \in 1 .. Len(q) /\ Sets(q[k + 1], u, f)
      BY <1>1, <3>1
    <3>. QED BY <3>2 DEF Has
  <2>2. ASSUME Has(q, u, f) PROVE Has(p, u, f)
    <3>1. PICK k \in 1 .. n + 1 : Sets(q[k], u, f)
      BY <1>1, <2>2 DEF Has
    <3>2. k # 1
      BY <1>1, <3>1 DEF Sets
    <3>3. k - 1 \in 1 .. n /\ q[(k - 1) + 1] = q[k]
      BY <1>1, <3>2
    <3>4. Sets(p[k - 1], u, f)
      BY <1>1, <3>1, <3>3
    <3>. QED BY <1>1, <3>3, <3>4 DEF Has
  <2>. QED BY <2>1, <2>2
<1>7. NoneOf(q, u) => NoneOf(p, u)
  <2>1. \A k \in 1 .. n : k + 1 \in 1 .. Len(q)
    BY <1>1
  <2>. QED BY <1>1, <2>1 DEF NoneOf
<1>8. Unaffected(X, q, Y, p, u)
  BY <1>4, <1>5, <1>6, <1>7 DEF Unaffected
<1>. QED BY <1>8

\* What remains of requests of the same window
LEMMA FirstServed ==
    ASSUME NEW q \in Seq(Requests), NEW w, q # <<>>
    PROVE  \A f : /\ Has(Tail(q), w, f) => Has(q, w, f)
                  /\ Has(q, w, f) => Has(Tail(q), w, f) \/ Sets(Head(q), w, f)
<1>. DEFINE p == Tail(q)
            n == Len(q) - 1
<1>1. /\ n \in Nat /\ Len(p) = n /\ Len(q) = n + 1 /\ q[1] = Head(q)
      /\ \A k \in 1 .. n : p[k] = q[k + 1]
  OBVIOUS
<1>2. ASSUME NEW f, Has(p, w, f) PROVE Has(q, w, f)
  <2>1. PICK k \in 1 .. n : Sets(p[k], w, f)
    BY <1>1, <1>2 DEF Has
  <2>2. k + 1 \in 1 .. Len(q) /\ Sets(q[k + 1], w, f)
    BY <1>1, <2>1
  <2>. QED BY <2>2 DEF Has
<1>3. ASSUME NEW f, Has(q, w, f), ~Sets(Head(q), w, f) PROVE Has(p, w, f)
  <2>1. PICK k \in 1 .. n + 1 : Sets(q[k], w, f)
    BY <1>1, <1>3 DEF Has
  <2>2. k # 1
    BY <1>1, <1>3, <2>1
  <2>3. k - 1 \in 1 .. n /\ q[(k - 1) + 1] = q[k]
    BY <1>1, <2>2
  <2>4. Sets(p[k - 1], w, f)
    BY <1>1, <2>1, <2>3
  <2>. QED BY <1>1, <2>3, <2>4 DEF Has
<1>. QED BY <1>2, <1>3

\* The server carries out a request of a window that is there: nothing of that
\* is told, and what it will know in the end is what it would have known.
LEMMA ServedWindow ==
    ASSUME IInv, NEW w \in Windows, out # <<>>, Alive(w), Head(out).win = w,
           Head(out).field # "configured",
           x' = [x EXCEPT ![w][Head(out).field] = Head(out).arg]
    PROVE  /\ x' \in [Windows -> XWin]
           /\ \A u \in Windows \ {w} : x'[u] = x[u]
           /\ Unmaps(Head(out)) => ~x[w].selected
           /\ x'[w].parent # None => x'[w].saved
           /\ Head(out).field # "mapped" => x'[w].mapped = x[w].mapped
           /\ \A f \in Fields : x'[w][f] = After(x, out, 1, w, f)
<1>. DEFINE r == Head(out)
            n == [x[w] EXCEPT ![r.field] = r.arg]
<1>1. WInv(w) /\ Types /\ x \in [Windows -> XWin] /\ out \in Seq(Requests)
  BY DEF IInv, Types
<1>2. r \in Requests /\ out[1] = r /\ 1 \in 1 .. Len(out) /\ x[w] \in XWin
  BY <1>1
<1>. HIDE DEF r
<1>3. n \in XWin /\ r.field \in Fields
      /\ \A f \in Fields : n[f] = IF f = r.field THEN r.arg ELSE x[w][f]
  BY <1>2 DEF Requests, XWin, Fields, r
<1>4. x' = [x EXCEPT ![w] = n]
  BY DEF r
<1>. HIDE DEF n
<1>5. x' \in [Windows -> XWin] /\ x'[w] = n /\ \A u \in Windows \ {w} : x'[u] = x[u]
  BY <1>1, <1>3, <1>4
<1>6. Allowed(x, out, 1, w)
  BY <1>1, <1>2 DEF WInv, Inside, Sound, r
<1>7. \A f : After(x, out, 1 - 1, w, f) = x[w][f]
  <2>1. 1 - 1 = 0
    OBVIOUS
  <2>. QED BY <2>1, AfterZero
<1>8. /\ Unmaps(r) => ~x[w]["selected"]
      /\ r.field = "parent" /\ r.arg # None => x[w]["saved"]
      /\ r.field = "saved" /\ ~r.arg => x[w]["parent"] = None
  BY <1>2, <1>6, <1>7 DEF Allowed
<1>9. "parent" \in Fields /\ "saved" \in Fields /\ "mapped" \in Fields
  BY DEF Fields
<1>10. /\ n["parent"] = IF r.field = "parent" THEN r.arg ELSE x[w]["parent"]
       /\ n["saved"] = IF r.field = "saved" THEN r.arg ELSE x[w]["saved"]
       /\ n["mapped"] = IF r.field = "mapped" THEN r.arg ELSE x[w]["mapped"]
  BY <1>3, <1>9
<1>11. x[w].parent # None => x[w].saved
  BY <1>1 DEF WInv, Inside
<1>12. n["parent"] # None => n["saved"]
  <2>1. CASE r.field = "parent"
    BY <1>8, <1>10, <2>1
  <2>2. CASE r.field = "saved"
    BY <1>8, <1>10, <2>2
  <2>3. CASE r.field # "parent" /\ r.field # "saved"
    BY <1>10, <1>11, <2>3
  <2>. QED BY <2>1, <2>2, <2>3
<1>13. \A f \in Fields : n[f] = After(x, out, 1, w, f)
  <2>1. ASSUME NEW f \in Fields PROVE n[f] = After(x, out, 1, w, f)
    <3>1. After(x, out, 1, w, f) = IF Sets(out[1], w, f) THEN out[1].arg
                                   ELSE After(x, out, 1 - 1, w, f)
      BY AfterStep
    <3>2. Sets(out[1], w, f) <=> f = r.field
      BY <1>2 DEF Sets, r
    <3>. QED BY <1>2, <1>3, <1>7, <3>1, <3>2
  <2>. QED BY <2>1
<1>14. /\ x'[w].parent # None => x'[w].saved
       /\ r.field # "mapped" => x'[w].mapped = x[w].mapped
  BY <1>5, <1>10, <1>12
<1>15. Unmaps(r) => ~x[w].selected
  BY <1>8
<1>. QED BY <1>5, <1>13, <1>14, <1>15 DEF r

\* The server carries out the first request: of a window that is there it is
\* known what comes of it, and it tells the window manager nothing.
LEMMA ServeStep ==
    ASSUME IInv, Serve
    PROVE  IInv'
<1>. DEFINE r == Head(out)
<1>1. out # <<>> /\ Types /\ DownIsEmpty /\ out \in Seq(Requests)
  BY DEF Serve, IInv, Types
<1>2. r \in Requests /\ r.win \in Windows
  BY <1>1 DEF Requests
<1>3. PICK w \in Windows : w = r.win
  BY <1>2
<1>4. /\ out' = Tail(out)
      /\ asking' = IF r.field = "configured" THEN asking \ {w} ELSE asking
      /\ Alive(w) /\ r.field # "configured" => x' = [x EXCEPT ![w][r.field] = r.arg]
      /\ ~(Alive(w) /\ r.field # "configured") => x' = x
      /\ ~(Alive(w) /\ Unmaps(r)) => events' = events
      /\ Alive(w) /\ Unmaps(r) => events' = events \o UnmapNotify(w)
      /\ kind' = kind /\ life' = life /\ want' = want
      /\ missed' = missed /\ unheard' = unheard /\ lost' = lost /\ refused' = refused
      /\ up' = up /\ pc' = pc /\ scan' = scan /\ cwin' = cwin
  BY <1>3 DEF Serve, Unmaps, manager, history
<1>5. WInv(w)
  BY DEF IInv
<1>6. Alive(w) /\ r.field # "configured" =>
         /\ x' \in [Windows -> XWin]
         /\ \A u \in Windows \ {w} : x'[u] = x[u]
         /\ Unmaps(r) => ~x[w].selected
         /\ x'[w].parent # None => x'[w].saved
         /\ r.field # "mapped" => x'[w].mapped = x[w].mapped
         /\ \A f \in Fields : x'[w][f] = After(x, out, 1, w, f)
  BY <1>1, <1>3, <1>4, ServedWindow
<1>7. /\ x' \in [Windows -> XWin]
      /\ \A u \in Windows \ {w} : x'[u] = x[u]
      /\ Alive(w) /\ x'[w].parent # None => x'[w].saved
      /\ ~Sets(r, w, "mapped") => x'[w].mapped = x[w].mapped
  BY <1>1, <1>3, <1>4, <1>5, <1>6 DEF Types, Sets, WInv, Inside
<1>8. Alive(w) => \A f \in Fields : x'[w][f] = After(x, out, 1, w, f)
  <2>1. SUFFICES ASSUME Alive(w), r.field = "configured", NEW f \in Fields
                 PROVE  x'[w][f] = After(x, out, 1, w, f)
    BY <1>6
  <2>2. ~Sets(out[1], w, f)
    BY <1>1, <2>1 DEF Sets, Fields
  <2>3. After(x, out, 1, w, f) = After(x, out, 1 - 1, w, f)
    BY <2>2, AfterStep
  <2>4. 1 - 1 = 0
    OBVIOUS
  <2>. QED BY <1>4, <2>1, <2>3, <2>4, AfterZero
<1>9. events' = events
  <2>1. SUFFICES ASSUME Alive(w), Unmaps(r) PROVE events' = events
    BY <1>4
  <2>2. ~x[w].selected
    BY <1>6, <2>1 DEF Unmaps
  <2>3. UnmapNotify(w) = <<>>
    BY <2>2 DEF UnmapNotify
  <2>. QED BY <1>1, <1>4, <2>1, <2>3 DEF Types
<1>10. out' \in Seq(Requests)
  BY <1>1, <1>4
<1>11. Types'
  BY <1>1, <1>4, <1>7, <1>9, <1>10 DEF Types
<1>12. Phases' /\ DownIsEmpty'
  BY <1>1, <1>4 DEF IInv, Phases, DownIsEmpty, Connected
<1>13. ASSUME NEW u \in Windows, u # w PROVE WInv(u)'
  <2>1. \A f : x'[u][f] = x[u][f]
    BY <1>7, <1>13
  <2>2. r.win # u
    BY <1>3, <1>13
  <2>3. Unaffected(x, out, x', Tail(out), u)
    BY <1>1, <2>1, <2>2, OtherServed
  <2>4. u \in asking' <=> u \in asking
    BY <1>4, <1>13
  <2>5. LeftAlone(u)
    BY <1>4, <1>7, <1>9, <1>13, <2>3, <2>4 DEF LeftAlone, SameEvents
  <2>. QED BY <2>5, Elsewhere DEF IInv
<1>14. WInv(w)'
  <2>1. /\ \A f : Has(out', w, f) => Has(out, w, f)
        /\ w \in asking' /\ Has(out, w, "configured") => Has(out', w, "configured")
    <3>1. \A f : /\ Has(out', w, f) => Has(out, w, f)
                 /\ Has(out, w, f) => Has(out', w, f) \/ Sets(r, w, f)
      BY <1>1, <1>4, FirstServed
    <3>. QED BY <1>4, <3>1 DEF Sets
  <2>2. /\ Alive(w)' <=> Alive(w)
        /\ Unwanted(w)' <=> Unwanted(w)
        /\ Known(w)' <=> Known(w)
        /\ ToManage(w)' <=> ToManage(w)
        /\ \A op : At(op, w)' <=> At(op, w)
        /\ w \in asking' => w \in asking
    BY <1>4 DEF Alive, Unwanted, Known, ToManage, At
  <2>3. Alive(w) =>
           /\ \A f \in Fields : Final(x', out', w, f) = Final(x, out, w, f)
           /\ Sound(x, out, w) => Sound(x', out', w)
           /\ Kept(x, out, w) => Kept(x', out', w)
    <3>1. SUFFICES ASSUME Alive(w)
                   PROVE  /\ \A f \in Fields : Final(x', Tail(out), w, f) = Final(x, out, w, f)
                          /\ Sound(x, out, w) => Sound(x', Tail(out), w)
                          /\ Kept(x, out, w) => Kept(x', Tail(out), w)
      BY <1>4
    <3>2. \A f \in Fields : x'[w][f] = After(x, out, 1, w, f)
      BY <1>8, <3>1
    <3>. QED BY <1>1, <3>2, ServedKeeps
  <2>4. Alive(w) =>
           /\ Finally(w, "parent")' = Finally(w, "parent")
           /\ Finally(w, "saved")' = Finally(w, "saved")
           /\ Finally(w, "selected")' = Finally(w, "selected")
           /\ Finally(w, "wm_state")' = Finally(w, "wm_state")
           /\ Finally(w, "net_fs")' = Finally(w, "net_fs")
           /\ Finally(w, "mapped")' = Finally(w, "mapped")
    BY <2>3 DEF Fields, Finally
  <2>5. life[w] # "unborn"
    <3>1. 1 \in 1 .. Len(out) /\ out[1].win = w
      BY <1>1, <1>3
    <3>. QED BY <1>5, <3>1 DEF WInv, Untouched, NoneOf
  <2>6. Untouched(w)' /\ WantAlive(w)' /\ Inside(w)'
    BY <1>4, <1>5, <1>7, <2>2, <2>3, <2>5 DEF WInv, Untouched, WantAlive, Inside
  <2>7. WaitsFor(w)' /\ Unrequested(w)'
    BY <1>4, <1>5, <1>9, <2>1, <2>2 DEF WInv, WaitsFor, Unrequested
  <2>8. Override(w)'
    <3>1. kind[w] = "override" => ~Sets(r, w, "mapped")
      <4>1. 1 \in 1 .. Len(out) /\ out[1] = r
        BY <1>1
      <4>. QED BY <1>5, <4>1 DEF WInv, Override, Has
    <3>. QED BY <1>4, <1>5, <1>7, <2>1, <2>2, <3>1 DEF WInv, Override
  <2>9. Region(w)' /\ AtTheEnd(w)'
    BY <1>4, <1>5, <2>2, <2>4 DEF WInv, Region, AtTheEnd
  <2>10. ShownAtTheEnd(w)' /\ Leaves(w)'
    BY <1>4, <1>5, <1>9, <2>2, <2>4 DEF WInv, ShownAtTheEnd, Leaves
  <2>11. Destroys(w)' /\ UnmapThenMap(w)' /\ MapThenUnmap(w)'
    BY <1>4, <1>5, <1>9, <2>2 DEF WInv, Destroys, UnmapThenMap, MapThenUnmap
  <2>12. StillMapped(w)'
    BY <1>4, <1>5, <2>2, <2>4 DEF WInv, StillMapped, Unwanted
  <2>13. w \in want => Alive(w)
    BY <1>5 DEF WInv, WantAlive
  <2>14. Awaited(w)'
    BY <1>4, <1>5, <1>9, <2>2, <2>4, <2>13 DEF WInv, Awaited
  <2>15. Promise(w)'
    BY <1>4, <1>5, <1>9, <2>2, <2>3, <2>13 DEF WInv, Promise, Connected
  <2>16. Asks(w)'
    BY <1>5, <1>9, <2>1, <2>2 DEF WInv, Asks
  <2>. QED BY <2>6, <2>7, <2>8, <2>9, <2>10, <2>11, <2>12, <2>14, <2>15, <2>16
           DEF WInv
<1>. QED BY <1>11, <1>12, <1>13, <1>14 DEF IInv

-----------------------------------------------------------------------------
(* The connection is closed.                                               *)

\* What the server knows of a window when the connection is closed
LEMMA Closed ==
    ASSUME IInv, Disconnect, NEW w \in Windows
    PROVE  /\ x'[w] \in XWin
           /\ x'[w].mapped <=> x[w].mapped \/ x[w].saved
           /\ x'[w].parent = None /\ ~x'[w].selected /\ ~x'[w].saved
           /\ x[w] = Fresh => x'[w] = Fresh
           /\ life'[w] = life[w]
<1>. DEFINE r == x[w]
            m == (r.mapped \/ r.saved)
            n == [r EXCEPT !.selected = FALSE, !.saved = FALSE,
                           !.parent = None, !.mapped = m]
<1>1. r \in XWin /\ WInv(w)
  BY DEF IInv, Types
<1>2. m \in BOOLEAN
  BY <1>1 DEF XWin
<1>3. x'[w] = n
  BY DEF Disconnect
<1>. HIDE DEF m, r
<1>4. n \in XWin
  BY <1>1, <1>2 DEF XWin
<1>5. /\ n.mapped = m /\ n.parent = None /\ ~n.selected /\ ~n.saved
      /\ n.wm_state = r.wm_state /\ n.net_fs = r.net_fs
  BY <1>1, <1>2 DEF XWin
<1>6. r = Fresh => n = Fresh
  <2>1. Fresh \in XWin
    BY DEF Fresh, XWin, States
  <2>2. r = Fresh => ~m /\ r.wm_state = Fresh.wm_state /\ r.net_fs = Fresh.net_fs
    BY DEF Fresh, m
  <2>3. Fresh.parent = None /\ ~Fresh.mapped /\ ~Fresh.selected /\ ~Fresh.saved
    BY DEF Fresh
  <2>. HIDE DEF n
  <2>4. r = Fresh => /\ n.parent = Fresh.parent /\ n.wm_state = Fresh.wm_state
                     /\ n.net_fs = Fresh.net_fs /\ n.mapped = Fresh.mapped
                     /\ n.selected = Fresh.selected /\ n.saved = Fresh.saved
    BY <1>2, <1>4, <1>5, <2>1, <2>2, <2>3 DEF XWin
  <2>. QED BY <1>4, <2>1, <2>4 DEF XWin
<1>7. life'[w] = life[w]
  BY <1>1 DEF Disconnect, WInv, Inside, r
<1>. HIDE DEF n
<1>8. x'[w].mapped <=> x[w].mapped \/ x[w].saved
  BY <1>3, <1>5 DEF m, r
<1>. QED BY <1>3, <1>4, <1>5, <1>6, <1>7, <1>8 DEF r

\* A window that is wanted and that the window manager was yet to show waits
\* to be managed.
LEMMA LostOrShown ==
    ASSUME IInv, Connected, NEW w \in want, w \notin refused \cup lost,
           ~x[w].mapped, ~x[w].saved
    PROVE  Unmanaged(w)
<1>1. WInv(w) /\ Types /\ w \in Windows
  BY DEF IInv, Types
<1>2. Kept(x, out, w) \/ Comes(events, "map", w) \/ ToManage(w)
  BY <1>1 DEF WInv, Promise
<1>3. CASE Comes(events, "map", w)
  <2>1. PICK i \in 1 .. Len(events) : Is(events[i], "map", w)
    BY <1>3 DEF Comes
  <2>2. events[i] \in EventRecords
    BY <1>1 DEF Types
  <2>3. events[i] = Event("map", w, None)
    BY <2>1, <2>2 DEF Is, Event, EventRecords
  <2>. QED BY <2>3 DEF Unmanaged, Contains
<1>4. CASE ToManage(w)
  <2>1. pc \in [op : {"manage"}, win : Windows, arg : BOOLEAN]
    BY <1>1, <1>4 DEF Types, ToManage, At, Idle
  <2>2. pc = Waiting("manage", w, TRUE)
    BY <1>4, <2>1 DEF ToManage, At, Waiting
  <2>. QED BY <2>2 DEF Unmanaged
<1>5. CASE Kept(x, out, w)
  <2>1. out \in Seq(Requests) /\ DOMAIN out = 1 .. Len(out)
    BY <1>1 DEF Types
  <2>2. 0 \in 0 .. Len(out)
    BY <2>1
  <2>3. After(x, out, 0, w, "mapped") = x[w]["mapped"]
        /\ After(x, out, 0, w, "saved") = x[w]["saved"]
    BY AfterZero
  <2>4. ~Safe(x, out, 0, w)
    BY <2>3 DEF Safe
  <2>5. PICK i \in 0 + 1 .. Len(out) : Saves(out[i], w)
    BY <1>5, <2>2, <2>4 DEF Kept
  <2>6. i \in DOMAIN out
    BY <2>1, <2>5
  <2>. QED BY <2>5, <2>6 DEF Unmanaged, Saves
<1>. QED BY <1>2, <1>3, <1>4, <1>5

\* The connection is closed.
LEMMA DisconnectStep ==
    ASSUME IInv, Connected, Disconnect, UNCHANGED <<kind, want, refused, missed>>
    PROVE  IInv'
<1>1. /\ up' = "down" /\ pc' = Idle /\ scan' = {} /\ out' = <<>> /\ events' = <<>>
      /\ asking' = {} /\ cwin' = [w \in Windows |-> None]
      /\ lost' = lost \cup {w \in want : ~x'[w].mapped /\ Unmanaged(w)}
      /\ unheard' = unheard \cup {w \in Windows \ want : x'[w].mapped}
      /\ kind' = kind /\ want' = want /\ refused' = refused /\ missed' = missed
  BY DEF Disconnect
<1>2. Types
  BY DEF IInv
<1>3. Types'
  <2>1. x' = [w \in Windows |-> x'[w]]
    BY DEF Disconnect
  <2>2. \A w \in Windows : x'[w] \in XWin
    BY Closed
  <2>3. x' \in [Windows -> XWin]
    BY <2>1, <2>2
  <2>4. life' = [w \in Windows |-> life'[w]]
    BY DEF Disconnect
  <2>5. \A w \in Windows : life'[w] \in {"unborn", "alive", "gone"}
    BY <1>2, Closed DEF Types
  <2>6. life' \in [Windows -> {"unborn", "alive", "gone"}]
    BY <2>4, <2>5
  <2>7. <<>> \in Seq(Requests) /\ <<>> \in Seq(EventRecords)
    OBVIOUS
  <2>. QED BY <1>1, <1>2, <2>3, <2>6, <2>7 DEF Types
<1>4. Phases'
  BY <1>1 DEF Phases, Idle
<1>5. DownIsEmpty'
  <2>1. ASSUME NEW w \in want
        PROVE  x'[w].mapped \/ w \in lost' \cup refused'
    <3>1. SUFFICES ASSUME ~x'[w].mapped, w \notin refused \cup lost
                   PROVE  w \in lost'
      BY <1>1
    <3>2. w \in Windows
      BY <1>2 DEF Types
    <3>3. ~x[w].mapped /\ ~x[w].saved
      BY <3>1, <3>2, Closed
    <3>4. Unmanaged(w)
      BY <3>1, <3>3, LostOrShown
    <3>. QED BY <1>1, <3>1, <3>4
  <2>. QED BY <1>1, <2>1 DEF DownIsEmpty, Connected, Known
<1>6. ASSUME NEW w \in Windows PROVE WInv(w)'
  <2>1. WInv(w)
    BY DEF IInv
  <2>2. /\ x'[w].mapped <=> x[w].mapped \/ x[w].saved
        /\ x'[w].parent = None /\ ~x'[w].selected /\ ~x'[w].saved
        /\ x[w] = Fresh => x'[w] = Fresh
        /\ life'[w] = life[w]
    BY Closed
  <2>3. /\ NoneOf(out', w) /\ NoneOf(events', w)
        /\ \A t : ~Comes(events', t, w)
        /\ \A t, s : Followed(events', t, s, w)
    BY <1>1, NoEvents
  <2>4. Bare(x', out', w)
    BY <1>3, <2>3, NoRequests DEF Types
  <2>5. /\ Sound(x', out', w) /\ ~Has(out', w, "mapped")
        /\ Final(x', out', w, "parent") = x'[w]["parent"]
        /\ Final(x', out', w, "saved") = x'[w]["saved"]
        /\ Final(x', out', w, "selected") = x'[w]["selected"]
        /\ Final(x', out', w, "mapped") = x'[w]["mapped"]
    BY <2>4 DEF Bare
  <2>6. /\ ~Known(w)' /\ (Alive(w)' <=> Alive(w)) /\ pc'.win # w
        /\ \A op : ~At(op, w)' /\ ~ToManage(w)'
    BY <1>1, <2>2, Idles, ClientsAssumption DEF Known, Alive, Idle
  <2>7. Untouched(w)'
    BY <1>1, <2>1, <2>2, <2>3, <2>6 DEF WInv, Untouched
  <2>8. WantAlive(w)' /\ Inside(w)'
    BY <1>1, <2>1, <2>2, <2>5, <2>6 DEF WInv, WantAlive, Inside
  <2>9. WaitsFor(w)' /\ Override(w)' /\ Unrequested(w)'
    BY <1>1, <2>1, <2>2, <2>5, <2>6 DEF WInv, WaitsFor, Override, Unrequested
  <2>10. Region(w)' /\ AtTheEnd(w)' /\ ShownAtTheEnd(w)' /\ Leaves(w)'
    BY <2>2, <2>5, <2>6 DEF Region, AtTheEnd, ShownAtTheEnd, Leaves, Finally
  <2>11. Destroys(w)' /\ UnmapThenMap(w)' /\ MapThenUnmap(w)'
    BY <2>3, <2>6 DEF Destroys, UnmapThenMap, MapThenUnmap
  <2>12. StillMapped(w)'
    BY <1>1, <2>5 DEF StillMapped, Unwanted, Finally
  <2>13. Awaited(w)' /\ Promise(w)' /\ Asks(w)'
    BY <1>1 DEF Awaited, Promise, Asks, Connected
  <2>. QED BY <2>7, <2>8, <2>9, <2>10, <2>11, <2>12, <2>13 DEF WInv
<1>. QED BY <1>3, <1>4, <1>5, <1>6 DEF IInv

\* The window manager crashes
LEMMA CrashStep ==
    ASSUME IInv, Crash
    PROVE  IInv'
BY DisconnectStep DEF Crash

\* or ends.
LEMMA ExitDoneStep ==
    ASSUME IInv, ExitDone
    PROVE  IInv'
BY DisconnectStep DEF ExitDone, Connected

-----------------------------------------------------------------------------
(* The phases of the window manager.                                       *)

\* Only the phase of the window manager changes.
LEMMA PhaseStep ==
    ASSUME IInv, pc = Idle, UNCHANGED <<clients, x, out, events, pc, cwin, history>>,
           up' \in {"layout", "normal", "deinit"},
           scan' \subseteq {w \in Windows : life[w] # "unborn"},
           \A w \in Windows : Unrequested(w)' /\ StillMapped(w)' /\ Awaited(w)'
                              /\ Promise(w)'
    PROVE  IInv'
<1>1. /\ kind' = kind /\ life' = life /\ want' = want /\ asking' = asking
      /\ x' = x /\ out' = out /\ events' = events /\ pc' = pc /\ cwin' = cwin
      /\ missed' = missed /\ unheard' = unheard /\ lost' = lost /\ refused' = refused
  BY DEF clients, history
<1>2. Types'
  BY <1>1 DEF IInv, Types
<1>3. Phases' /\ DownIsEmpty'
  BY <1>1 DEF Phases, DownIsEmpty, Connected, Idle
<1>4. ASSUME NEW w \in Windows PROVE WInv(w)'
  <2>1. WInv(w)
    BY DEF IInv
  <2>2. /\ Alive(w)' <=> Alive(w)
        /\ Unwanted(w)' <=> Unwanted(w)
        /\ Known(w)' <=> Known(w)
        /\ \A f : Finally(w, f)' = Finally(w, f)
        /\ \A op : At(op, w)' <=> At(op, w)
        /\ ToManage(w)' <=> ToManage(w)
    BY <1>1 DEF Alive, Unwanted, Known, Finally, At, ToManage
  <2>3. \A op : ~At(op, w)
    BY Idles
  <2>4. Untouched(w)' /\ WantAlive(w)' /\ Inside(w)' /\ WaitsFor(w)' /\ Override(w)'
    BY <1>1, <2>1, <2>2, <2>3
       DEF WInv, Untouched, WantAlive, Inside, WaitsFor, Override
  <2>5. Region(w)' /\ AtTheEnd(w)' /\ ShownAtTheEnd(w)' /\ Leaves(w)' /\ Asks(w)'
    BY <1>1, <2>1, <2>2 DEF WInv, Region, AtTheEnd, ShownAtTheEnd, Leaves, Asks
  <2>6. Destroys(w)' /\ UnmapThenMap(w)' /\ MapThenUnmap(w)'
    BY <1>1, <2>1, <2>2 DEF WInv, Destroys, UnmapThenMap, MapThenUnmap
  <2>. QED BY <2>4, <2>5, <2>6 DEF WInv
<1>. QED BY <1>2, <1>3, <1>4 DEF IInv

\* ioncore_deinit
LEMMA ExitStep ==
    ASSUME IInv, Exit
    PROVE  IInv'
<1>1. /\ up = "normal" /\ up' = "deinit" /\ pc = Idle /\ scan' = scan
      /\ UNCHANGED <<clients, x, out, events, pc, cwin, history>>
      /\ want' = want /\ refused' = refused /\ lost' = lost
  BY DEF Exit, clients, history
<1>2. ASSUME NEW w \in Windows
      PROVE  Unrequested(w)' /\ StillMapped(w)' /\ Awaited(w)' /\ Promise(w)'
  BY <1>1 DEF IInv, WInv, Unrequested, StillMapped, Awaited, Promise, Connected,
              ToManage, At
<1>3. scan' \subseteq {w \in Windows : life[w] # "unborn"}
  BY <1>1 DEF IInv, Types, WInv, Untouched
<1>. QED BY <1>1, <1>2, <1>3, PhaseStep

\* rootwin_init: windows that are wanted are mapped, and are scanned.
LEMMA StartStep ==
    ASSUME IInv, Start
    PROVE  IInv'
<1>1. /\ up = "down" /\ up' = "layout" /\ scan' = {w \in Windows : Alive(w)}
      /\ UNCHANGED <<clients, x, out, events, pc, cwin, history>>
      /\ want' = want /\ refused' = refused /\ lost' = lost /\ kind' = kind
      /\ x' = x /\ out' = out /\ cwin' = cwin
  BY DEF Start, clients, history
<1>2. DownIsEmpty /\ pc = Idle /\ out = <<>>
  BY <1>1 DEF IInv, DownIsEmpty, Connected
<1>3. ASSUME NEW w \in Windows
      PROVE  Unrequested(w)' /\ StillMapped(w)' /\ Awaited(w)' /\ Promise(w)'
  <2>1. WInv(w)
    BY DEF IInv
  <2>2. /\ ~Has(out, w, "mapped")
        /\ Finally(w, "mapped") = x[w]["mapped"]
        /\ x[w]["mapped"] => Kept(x, out, w)
    BY <1>2, NothingAsked
  <2>3. w \in want => x[w].mapped \/ w \in lost \cup refused
    BY <1>1, <1>2 DEF DownIsEmpty, Connected
  <2>4. w \in want => w \in scan'
    BY <1>1, <2>1 DEF WInv, WantAlive
  <2>5. Unrequested(w)'
    BY <1>1, <2>2 DEF Unrequested
  <2>6. StillMapped(w)'
    BY <1>1, <2>1 DEF WInv, StillMapped, Unwanted, Alive, Known, Finally, clients, history
  <2>7. Awaited(w)'
    BY <1>1, <2>2, <2>3, <2>4 DEF Awaited, Finally
  <2>8. Promise(w)'
    BY <1>1, <2>2, <2>3 DEF Promise
  <2>. QED BY <2>5, <2>6, <2>7, <2>8
<1>4. scan' \subseteq {w \in Windows : life[w] # "unborn"}
  BY <1>1 DEF Alive
<1>. QED BY <1>1, <1>2, <1>3, <1>4, PhaseStep

\* The main loop is entered.
LEMMA ScanDoneStep ==
    ASSUME IInv, ScanDone
    PROVE  IInv'
<1>1. /\ up \in {"layout", "scan"} /\ up' = "normal" /\ pc = Idle
      /\ scan = {} /\ scan' = {}
      /\ UNCHANGED <<clients, x, out, events, pc, cwin, history>>
      /\ want' = want /\ refused' = refused /\ lost' = lost /\ kind' = kind
      /\ x' = x /\ out' = out /\ cwin' = cwin /\ events' = events /\ pc' = pc
  BY DEF ScanDone, clients, history
<1>2. ASSUME NEW w \in Windows
      PROVE  Unrequested(w)' /\ StillMapped(w)' /\ Awaited(w)' /\ Promise(w)'
  <2>1. WInv(w)
    BY DEF IInv
  <2>2. \A op : ~At(op, w)
    BY <1>1, Idles
  <2>3. Unrequested(w)' /\ StillMapped(w)'
    BY <1>1 DEF Unrequested, StillMapped
  <2>4. Awaited(w)'
    BY <1>1, <2>1, <2>2 DEF WInv, Awaited, Known, ToManage, At
  <2>5. Promise(w)'
    BY <1>1, <2>1 DEF WInv, Promise, Connected, ToManage, At
  <2>. QED BY <2>3, <2>4, <2>5
<1>. QED BY <1>1, <1>2, PhaseStep

\* At first there is no window.
LEMMA InitHolds == Init => IInv
<1> SUFFICES ASSUME Init PROVE IInv
  OBVIOUS
<1>1. Fresh \in XWin
  BY DEF Fresh, XWin, States
<1>2. out = <<>> /\ events = <<>> /\ pc = Idle /\ up = "normal"
  BY DEF Init
<1>3. Types
  <2>1. <<>> \in Seq(Requests) /\ <<>> \in Seq(EventRecords)
    OBVIOUS
  <2>. QED BY <1>1, <2>1 DEF Init, Types
<1>4. Phases /\ DownIsEmpty
  BY <1>2 DEF Phases, DownIsEmpty, Connected, Idle
<1>5. ASSUME NEW w \in Windows PROVE WInv(w)
  <2>1. /\ life[w] = "unborn" /\ x[w] = Fresh /\ ~Known(w)
        /\ w \notin want \cup asking \cup scan /\ pc.win # w
    BY ClientsAssumption DEF Init, Known, Idle
  <2>2. ~Alive(w) /\ ~Unwanted(w)
    BY <2>1 DEF Alive, Unwanted
  <2>3. /\ NoneOf(out, w) /\ NoneOf(events, w)
        /\ \A t : ~Comes(events, t, w)
    BY <1>2, NoEvents
  <2>4. \A f : ~Has(out, w, f)
    BY <1>2, NothingAsked
  <2>5. \A op : ~At(op, w) /\ ~ToManage(w)
    BY <1>2, Idles
  <2>6. Untouched(w) /\ WantAlive(w) /\ Inside(w) /\ WaitsFor(w) /\ Override(w)
        /\ Unrequested(w)
    BY <2>1, <2>2, <2>3, <2>4, <2>5
       DEF Untouched, WantAlive, Inside, WaitsFor, Override, Unrequested
  <2>7. Region(w) /\ AtTheEnd(w) /\ ShownAtTheEnd(w) /\ Leaves(w)
    BY <2>1, <2>2 DEF Region, AtTheEnd, ShownAtTheEnd, Leaves
  <2>8. Destroys(w) /\ UnmapThenMap(w) /\ MapThenUnmap(w) /\ StillMapped(w)
    BY <2>1, <2>2, <2>3 DEF Destroys, UnmapThenMap, MapThenUnmap, StillMapped
  <2>9. Awaited(w) /\ Promise(w) /\ Asks(w)
    BY <2>1 DEF Awaited, Promise, Asks
  <2>. QED BY <2>6, <2>7, <2>8, <2>9 DEF WInv
<1>. QED BY <1>3, <1>4, <1>5 DEF IInv

\* Nothing happens.
LEMMA UnchangedStep ==
    ASSUME IInv, UNCHANGED vars
    PROVE  IInv'
<1>1. /\ kind' = kind /\ life' = life /\ want' = want /\ asking' = asking
      /\ x' = x /\ out' = out /\ events' = events /\ pc' = pc /\ cwin' = cwin
      /\ missed' = missed /\ unheard' = unheard /\ lost' = lost /\ refused' = refused
      /\ up' = up /\ scan' = scan
  BY DEF vars, clients, history, manager
<1>2. Types' /\ Phases' /\ DownIsEmpty'
  BY <1>1 DEF IInv, Types, Phases, DownIsEmpty, Connected, Known
<1>3. ASSUME NEW w \in Windows PROVE WInv(w)'
  <2>1. LeftAlone(w)
    BY <1>1 DEF LeftAlone, Unaffected, SameEvents
  <2>. QED BY <2>1, Elsewhere DEF IInv
<1>. QED BY <1>2, <1>3 DEF IInv

-----------------------------------------------------------------------------
(* The theorems.                                                           *)

\* Every step keeps the invariant.
LEMMA StepsHold ==
    ASSUME IInv, Next
    PROVE  IInv'
<1>1. CASE Serve
  BY <1>1, ServeStep
<1>2. ASSUME NEW w \in Windows,
             \/ ClientMaps(w) \/ ClientWithdraws(w) \/ ClientUnmaps(w)
             \/ ClientDestroys(w) \/ ClientConfigures(w)
             \/ \E on \in BOOLEAN : ClientAsksFullscreen(w, on)
      PROVE  IInv'
  BY <1>2, ClientMapsStep, ClientWithdrawsStep, ClientUnmapsStep, ClientDestroysStep,
     ClientConfiguresStep, ClientAsksFullscreenStep
<1>3. ASSUME NEW w \in Windows,
             \/ UserSwitches(w) \/ ExitNext(w) \/ Load(w) \/ ScanNext(w)
             \/ \E shown \in BOOLEAN : \/ UserTogglesFullscreen(w, shown)
                                       \/ \E p \in Frames : UserMoves(w, p, shown)
      PROVE  IInv'
  <2>1. Frames \subseteq Places
    BY DEF Places
  <2>. QED BY <1>3, <2>1, SwitchStep, ExitNextStep, LoadStep, ScanStep, ToggleStep, MoveStep
<1>4. CASE DoNotManage \/ Refuse \/ Check \/ Deinit
  BY <1>4, NotManagedStep, RefuseStep, CheckStep, DeinitStep
<1>5. CASE HandleMapRequest \/ HandleUnmapNotify \/ HandleDestroyNotify
  BY <1>5, MapRequestStep, UnmapNotifyStep, DestroyNotifyStep
<1>6. CASE ForwardConfigure \/ \E granted \in BOOLEAN : AnswerConfigure(granted)
  BY <1>6, ForwardStep, AnswerStep
<1>7. ASSUME NEW shown \in BOOLEAN,
             \/ \E p \in Places, back \in Frames \cup {None} : Manage(p, back, shown)
             \/ ConfigureFullscreen(shown) \/ HandleNetWmState(shown) \/ CheckLoad(shown)
      PROVE  IInv'
  BY <1>7, ManageStep, ConfigureFullscreenStep, NetWmStateStep, CheckLoadStep
<1>8. CASE Crash \/ Exit \/ ExitDone \/ Start \/ LoadReply \/ ScanDone
  BY <1>8, CrashStep, ExitStep, ExitDoneStep, StartStep, LoadReplyStep, ScanDoneStep
<1>. QED BY <1>1, <1>2, <1>3, <1>4, <1>5, <1>6, <1>7, <1>8 DEF Next

\* The invariant holds in every state, of any number of windows, requests
\* and events.
THEOREM Invariance == Spec => []IInv
<1>1. Init => IInv
  BY InitHolds
<1>2. IInv /\ [Next]_vars => IInv'
  BY StepsHold, UnchangedStep
<1>. QED BY <1>1, <1>2, PTL DEF Spec

\* When nothing is under way, the window manager manages the windows that
\* their clients want to be seen, but for those it could not hear of
\* (ioncore_manage_clientwin, clientwin_unmapped, clientwin_destroyed).
THEOREM ClientsAreKnown == Spec => []KnowsClients
<1>1. IInv => KnowsClients
  <2>1. ASSUME IInv PROVE TypeOK
    <3>1. /\ pc = Idle => pc.op = "idle"
          /\ pc.op \in {"idle", "manage", "load", "check", "check_load", "deinit"}
      BY <2>1 DEF IInv, Types, Idle
    <3>2. ~Connected => out = <<>> /\ events = <<>> /\ pc = Idle
      BY <2>1 DEF IInv, DownIsEmpty
    <3>. QED BY <2>1, <3>1, <3>2 DEF TypeOK, IInv, Types, XWin, States
  <2>2. ASSUME IInv, Quiet, NEW w \in Windows
        PROVE  /\ Known(w) => w \in want \cup missed \cup unheard
               /\ w \in want /\ kind[w] # "override" => Known(w) \/ w \in refused \cup lost
    <3>1. WInv(w) /\ up = "normal" /\ pc = Idle /\ events = <<>>
      BY <2>2 DEF IInv, Quiet
    <3>2. \A t : ~Comes(events, t, w)
      BY <3>1, NoEvents
    <3>3. \A op : ~At(op, w) /\ ~ToManage(w)
      BY <3>1, Idles
    <3>. QED BY <3>1, <3>2, <3>3 DEF WInv, Leaves, Awaited
  <2>. QED BY <2>1, <2>2 DEF KnowsClients
<1>. QED BY <1>1, Invariance, PTL

\* When nothing is under way, each window is where the window manager thinks
\* it is, shown, selected and saved as it thinks, and no client waits for an
\* answer (clientwin_fitrep, show_clientwin, hide_clientwin, clientwin_deinit).
THEOREM ServerIsAgreedWith == Spec => []ServerAgrees
<1>1. ASSUME IInv, Quiet PROVE asking = {}
  <2>1. ASSUME NEW w \in asking PROVE FALSE
    <3>1. w \in Windows
      BY <1>1 DEF IInv, Types
    <3>2. WInv(w) /\ out = <<>> /\ events = <<>>
      BY <1>1, <3>1 DEF IInv, Quiet
    <3>3. ~Comes(events, "configure", w)
      BY <3>2, NoEvents
    <3>4. ~Has(out, w, "configured")
      BY <3>2, NothingAsked
    <3>. QED BY <2>1, <3>2, <3>3, <3>4 DEF WInv, Asks
  <2>. QED BY <2>1
<1>2. ASSUME IInv, Quiet, NEW w \in Windows, Alive(w)
      PROVE  IF Known(w)
             THEN /\ x[w].parent = Xwindow(cwin[w].place)
                  /\ x[w].selected /\ x[w].saved
                  /\ w \in want \ missed /\ Shows(w) => (x[w].mapped <=> cwin[w].mapped)
                  /\ Shows(w) => x[w].wm_state = cwin[w].state
                  /\ cwin[w].loaded \/ (x[w].net_fs <=> cwin[w].place = Screen)
                  /\ cwin[w].fs_rq => cwin[w].place = Screen
             ELSE x[w].parent = None /\ ~x[w].selected /\ ~x[w].saved
  <2>1. WInv(w) /\ pc = Idle /\ out = <<>> /\ events = <<>>
    BY <1>2 DEF IInv, Quiet
  <2>2. /\ Finally(w, "parent") = x[w]["parent"]
        /\ Finally(w, "saved") = x[w]["saved"]
        /\ Finally(w, "selected") = x[w]["selected"]
        /\ Finally(w, "mapped") = x[w]["mapped"]
        /\ Finally(w, "wm_state") = x[w]["wm_state"]
        /\ Finally(w, "net_fs") = x[w]["net_fs"]
    BY <2>1, NothingAsked
  <2>3. \A t : ~Comes(events, t, w)
    BY <2>1, NoEvents
  <2>4. \A op : ~At(op, w)
    BY <2>1, Idles
  <2>5. CASE Known(w)
    <3>1. Shows(w) => cwin[w].state # "Withdrawn"
      BY <2>1, <2>4, <2>5 DEF WInv, Region, Shows
    <3>2. /\ x[w].parent = Xwindow(cwin[w].place)
          /\ x[w].selected /\ x[w].saved
          /\ cwin[w].loaded \/ (x[w].net_fs <=> cwin[w].place = Screen)
          /\ cwin[w].fs_rq => cwin[w].place = Screen
      BY <1>2, <2>1, <2>2, <2>4, <2>5 DEF WInv, AtTheEnd, Region
    <3>3. Shows(w) => x[w].wm_state = cwin[w].state
      BY <1>2, <2>1, <2>2, <2>5, <3>1 DEF WInv, AtTheEnd
    <3>4. w \in want \ missed /\ Shows(w) => (x[w].mapped <=> cwin[w].mapped)
      BY <1>2, <2>1, <2>2, <2>3, <2>4, <2>5, <3>1 DEF WInv, ShownAtTheEnd, Shows
    <3>. QED BY <2>5, <3>2, <3>3, <3>4
  <2>6. CASE ~Known(w)
    BY <1>2, <2>1, <2>2, <2>4, <2>6 DEF WInv, AtTheEnd
  <2>. QED BY <2>5, <2>6
<1>3. IInv => ServerAgrees
  BY <1>1, <1>2 DEF ServerAgrees
<1>. QED BY <1>3, Invariance, PTL

\* Closing the connection at any moment takes no window along, and leaves
\* those that are wanted mapped on the root window (clientwin_init and
\* clientwin_deinit, by the save set).
THEOREM NoneIsTaken == Spec => []NoneTakenAlong
<1>1. ASSUME IInv PROVE NoneTakenAlong
  BY <1>1 DEF NoneTakenAlong, IInv, WInv, Inside, DownIsEmpty
<1>. QED BY <1>1, Invariance, PTL
=============================================================================
