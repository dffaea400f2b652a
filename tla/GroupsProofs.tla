---------------------------- MODULE GroupsProofs ----------------------------
(***************************************************************************)
(* Proofs about Groups, for any groups, windows, regions and placeholders. *)
(* Every handler is taken as the operators it is made of: each of them is  *)
(* shown to keep Agree, which says how the lists, nodes, groups and        *)
(* placeholders belong together, also while placeholders wait to be        *)
(* destroyed (a handler may pass through many such states).  Between two   *)
(* handlers none waits (AtRest), and from that follow ListsAgree,          *)
(* ModalKeepsFocus and ReturnsAsLeft.                                      *)
(***************************************************************************)
EXTENDS Groups, ListLemmas

-----------------------------------------------------------------------------
(* Lists.                                                                  *)

\* Where what is inserted comes.
LEMMA InsertAtOrder ==
    ASSUME NEW T, NEW s \in Seq(T), IsInjective(s), NEW c \in T, c \notin ToSet(s),
           NEW at \in 1 .. Len(s) + 1
    PROVE  LET t == InsertAt(s, at, c)
           IN /\ t \in Seq(T) /\ IsInjective(t) /\ ToSet(t) = ToSet(s) \cup {c}
              /\ Len(t) = Len(s) + 1 /\ t[at] = c
              /\ \A x, y : x # c /\ y # c =>
                    (<<x, y>> \in Order(t) <=> <<x, y>> \in Order(s))
              /\ \A i \in 1 .. Len(s) :
                    /\ i < at => <<s[i], c>> \in Order(t) /\ <<c, s[i]>> \notin Order(t)
                    /\ i >= at => <<c, s[i]>> \in Order(t) /\ <<s[i], c>> \notin Order(t)
<1>. DEFINE t == InsertAt(s, at, c)
            to(i) == IF i < at THEN i ELSE i + 1
<1>1. /\ t \in Seq(T) /\ Len(t) = Len(s) + 1
      /\ \A i \in 1 .. Len(s) + 1 :
            t[i] = IF i < at THEN s[i] ELSE IF i = at THEN c ELSE s[i - 1]
  BY InsertAtElements
<1>2. /\ Len(s) \in Nat /\ DOMAIN s = 1 .. Len(s) /\ DOMAIN t = 1 .. Len(s) + 1
      /\ \A i, j \in 1 .. Len(s) : s[i] = s[j] => i = j
      /\ \A i \in 1 .. Len(s) : s[i] # c /\ s[i] \in ToSet(s)
  BY <1>1 DEF IsInjective, ToSet
<1>. HIDE DEF t
<1>3. /\ \A i \in 1 .. Len(s) : to(i) \in 1 .. Len(s) + 1 /\ to(i) # at /\ t[to(i)] = s[i]
      /\ \A i, j \in 1 .. Len(s) : to(i) <= to(j) <=> i <= j
      /\ \A k \in 1 .. Len(s) + 1 : k # at => \E i \in 1 .. Len(s) : k = to(i)
  <2>1. ASSUME NEW k \in 1 .. Len(s) + 1, k # at
        PROVE  \E i \in 1 .. Len(s) : k = to(i)
    <3>1. CASE k < at
      <4>1. k \in 1 .. Len(s) /\ to(k) = k
        BY <1>2, <3>1
      <4>. QED BY <4>1
    <3>2. CASE ~(k < at)
      <4>1. k - 1 \in 1 .. Len(s) /\ to(k - 1) = k
        BY <1>2, <2>1, <3>2
      <4>. QED BY <4>1
    <3>. QED BY <3>1, <3>2
  <2>. QED BY <1>1, <1>2, <2>1
<1>4. t[at] = c /\ at \in 1 .. Len(s) + 1
  BY <1>1, <1>2
<1>. HIDE DEF to
<1>5. ToSet(t) = ToSet(s) \cup {c}
  <2>1. ASSUME NEW x \in ToSet(t) PROVE x \in ToSet(s) \cup {c}
    <3>1. PICK k \in 1 .. Len(s) + 1 : x = t[k]
      BY <1>2 DEF ToSet
    <3>. QED BY <1>2, <1>3, <1>4, <3>1
  <2>2. ASSUME NEW x \in ToSet(s) PROVE x \in ToSet(t)
    <3>1. PICK i \in 1 .. Len(s) : x = s[i]
      BY <1>2 DEF ToSet
    <3>. QED BY <1>2, <1>3, <3>1 DEF ToSet
  <2>3. c \in ToSet(t)
    BY <1>2, <1>4 DEF ToSet
  <2>. QED BY <2>1, <2>2, <2>3
<1>6. ASSUME NEW k \in 1 .. Len(s) + 1, NEW n \in 1 .. Len(s) + 1, t[k] = t[n]
      PROVE  k = n
  <2>1. CASE k = at \/ n = at
    BY <1>2, <1>3, <1>4, <1>6, <2>1
  <2>2. CASE k # at /\ n # at
    <3>1. PICK i \in 1 .. Len(s), j \in 1 .. Len(s) : k = to(i) /\ n = to(j)
      BY <1>3, <2>2
    <3>. QED BY <1>2, <1>3, <1>6, <3>1
  <2>. QED BY <2>1, <2>2
<1>7. IsInjective(t)
  BY <1>2, <1>6 DEF IsInjective
<1>8. \A x, y : <<x, y>> \in Order(t) <=>
          \E k, n \in 1 .. Len(s) + 1 : k <= n /\ t[k] = x /\ t[n] = y
  <2>. SUFFICES ASSUME NEW x, NEW y
                PROVE  <<x, y>> \in Order(t) <=>
                       \E k, n \in 1 .. Len(s) + 1 : k <= n /\ t[k] = x /\ t[n] = y
    OBVIOUS
  <2>1. t \in Seq(T)
    BY <1>1
  <2>2. <<x, y>> \in Order(t) <=>
            \E i, j \in 1 .. Len(t) : i <= j /\ t[i] = x /\ t[j] = y
    BY <2>1, OrderOf
  <2>3. Len(t) = Len(s) + 1
    BY <1>1
  <2>. QED BY <2>2, <2>3
<1>9. ASSUME NEW x, NEW y, x # c, y # c
      PROVE  <<x, y>> \in Order(t) <=> <<x, y>> \in Order(s)
  <2>1. ASSUME <<x, y>> \in Order(t) PROVE <<x, y>> \in Order(s)
    <3>1. PICK k \in 1 .. Len(s) + 1, n \in 1 .. Len(s) + 1 :
                k <= n /\ t[k] = x /\ t[n] = y
      BY <1>8, <2>1
    <3>2. PICK i \in 1 .. Len(s), j \in 1 .. Len(s) : k = to(i) /\ n = to(j)
      BY <1>3, <1>4, <1>9, <3>1
    <3>3. i <= j /\ s[i] = x /\ s[j] = y
      BY <1>3, <3>1, <3>2
    <3>. QED BY <3>3, OrderOf
  <2>2. ASSUME <<x, y>> \in Order(s) PROVE <<x, y>> \in Order(t)
    <3>1. PICK i \in 1 .. Len(s), j \in 1 .. Len(s) : i <= j /\ s[i] = x /\ s[j] = y
      BY <2>2, OrderOf
    <3>. QED BY <1>3, <1>8, <3>1
  <2>. QED BY <2>1, <2>2
<1>10. ASSUME NEW i \in 1 .. Len(s)
       PROVE  /\ i < at => <<s[i], c>> \in Order(t)
              /\ i >= at => <<c, s[i]>> \in Order(t)
  <2>1. to(i) \in 1 .. Len(s) + 1 /\ t[to(i)] = s[i]
    BY <1>3
  <2>2. (i < at => to(i) <= at) /\ (i >= at => at <= to(i))
    BY <1>2 DEF to
  <2>. QED BY <1>4, <1>8, <2>1, <2>2
<1>11. \A x, y : <<x, y>> \in Order(t) /\ <<y, x>> \in Order(t) => x = y
  BY <1>1, <1>7, OrderIsTotal
<1>12. \A i \in 1 .. Len(s) : i < at \/ i >= at
  BY <1>2
<1>. QED BY <1>1, <1>2, <1>4, <1>5, <1>7, <1>9, <1>10, <1>11, <1>12 DEF t

\* Those that stay keep their order.
LEMMA UnlinkOrder ==
    ASSUME NEW T, NEW s \in Seq(T), IsInjective(s), NEW c \in ToSet(s), NEW x, NEW y
    PROVE  <<x, y>> \in Order(Unlink(s, c)) <=>
             <<x, y>> \in Order(s) /\ x # c /\ y # c
<1>. DEFINE at == CHOOSE i \in DOMAIN s : s[i] = c
            t == Unlink(s, c)
            to(i) == IF i < at THEN i ELSE i + 1
<1>1. at \in 1 .. Len(s) /\ s[at] = c /\ t = RemoveAt(s, at)
  BY DEF ToSet, Unlink
<1>. HIDE DEF at
<1>2. /\ t \in Seq(T) /\ Len(t) = Len(s) - 1
      /\ \A i \in 1 .. Len(s) - 1 : t[i] = IF i < at THEN s[i] ELSE s[i + 1]
  BY <1>1, RemoveAtElements
<1>3. /\ Len(s) \in Nat
      /\ \A i, j \in 1 .. Len(s) : s[i] = s[j] => i = j
  BY DEF IsInjective
<1>. HIDE DEF t
<1>4. /\ \A i \in 1 .. Len(s) - 1 : to(i) \in 1 .. Len(s) /\ to(i) # at /\ s[to(i)] = t[i]
      /\ \A i, j \in 1 .. Len(s) - 1 : to(i) <= to(j) <=> i <= j
      /\ \A k \in 1 .. Len(s) : k # at => \E i \in 1 .. Len(s) - 1 : k = to(i)
  <2>1. ASSUME NEW k \in 1 .. Len(s), k # at
        PROVE  \E i \in 1 .. Len(s) - 1 : k = to(i)
    <3>1. CASE k < at
      <4>1. k \in 1 .. Len(s) - 1 /\ to(k) = k
        BY <1>1, <1>3, <3>1
      <4>. QED BY <4>1
    <3>2. CASE ~(k < at)
      <4>1. k - 1 \in 1 .. Len(s) - 1 /\ to(k - 1) = k
        BY <1>1, <1>3, <2>1, <3>2
      <4>. QED BY <4>1
    <3>. QED BY <3>1, <3>2
  <2>. QED BY <1>1, <1>2, <1>3, <2>1
<1>. HIDE DEF to
<1>5. <<x, y>> \in Order(t) <=>
          \E i, j \in 1 .. Len(s) - 1 : i <= j /\ t[i] = x /\ t[j] = y
  <2>1. <<x, y>> \in Order(t) <=>
            \E i, j \in 1 .. Len(t) : i <= j /\ t[i] = x /\ t[j] = y
    <3>1. t \in Seq(T)
      BY <1>2
    <3>. QED BY <3>1, OrderOf
  <2>2. Len(t) = Len(s) - 1
    BY <1>2
  <2>. QED BY <2>1, <2>2
<1>6. <<x, y>> \in Order(s) <=>
          \E k, n \in 1 .. Len(s) : k <= n /\ s[k] = x /\ s[n] = y
  BY OrderOf
<1>7. ASSUME <<x, y>> \in Order(t) PROVE <<x, y>> \in Order(s) /\ x # c /\ y # c
  <2>1. PICK i \in 1 .. Len(s) - 1, j \in 1 .. Len(s) - 1 :
            i <= j /\ t[i] = x /\ t[j] = y
    BY <1>5, <1>7
  <2>2. /\ to(i) \in 1 .. Len(s) /\ to(i) # at /\ s[to(i)] = x
        /\ to(j) \in 1 .. Len(s) /\ to(j) # at /\ s[to(j)] = y /\ to(i) <= to(j)
    BY <1>4, <2>1
  <2>. QED BY <1>1, <1>3, <1>6, <2>2
<1>8. ASSUME <<x, y>> \in Order(s), x # c, y # c PROVE <<x, y>> \in Order(t)
  <2>1. PICK k \in 1 .. Len(s), n \in 1 .. Len(s) : k <= n /\ s[k] = x /\ s[n] = y
    BY <1>6, <1>8
  <2>2. PICK i \in 1 .. Len(s) - 1, j \in 1 .. Len(s) - 1 : k = to(i) /\ n = to(j)
    BY <1>1, <1>4, <1>8, <2>1
  <2>. QED BY <1>4, <1>5, <2>1, <2>2
<1>. QED BY <1>7, <1>8 DEF t

-----------------------------------------------------------------------------
(* Weaving: lists in the order of their levels.                            *)

\* The levels on a list do not fall.
Sorted(s, level) ==
    \A x, y : <<x, y>> \in Order(s) => level[x] <= level[y]

\* Nothing before the place is beyond it, and what is at it is.
LEMMA PlaceOnIs ==
    ASSUME NEW T, NEW s \in Seq(T), NEW ab \in 1 .. Len(s) + 1, NEW x,
           NEW level, NEW below
    PROVE  LET i == PlaceOn(s, ab, x, level, below)
               Beyond(k) == level[s[k]] > level[x]
                            \/ (below /\ level[s[k]] = level[x])
           IN /\ i \in ab .. Len(s) + 1
              /\ \A k \in ab .. i - 1 : ~Beyond(k)
              /\ i <= Len(s) => Beyond(i)
<1>. DEFINE Beyond(k) == level[s[k]] > level[x] \/ (below /\ level[s[k]] = level[x])
            over == {i \in ab .. Len(s) : Beyond(i)}
            i == PlaceOn(s, ab, x, level, below)
<1>1. i = IF over = {} THEN Len(s) + 1 ELSE Min(over)
  BY DEF PlaceOn
<1>2. Len(s) \in Nat /\ ab \in Nat
  OBVIOUS
<1>3. \A k : k \in over <=> k \in ab .. Len(s) /\ Beyond(k)
  OBVIOUS
<1>4. over \in SUBSET Int /\ IsFiniteSet(over)
  <2>1. IsFiniteSet(ab .. Len(s)) /\ over \subseteq ab .. Len(s)
    BY <1>2, FS_Interval
  <2>. HIDE DEF over
  <2>2. IsFiniteSet(over)
    BY <2>1, FS_Subset
  <2>. QED BY <1>2, <2>1, <2>2
<1>. HIDE DEF i, Beyond, over
<1>5. CASE over = {}
  BY <1>1, <1>2, <1>3, <1>5 DEF i, Beyond
<1>6. CASE over # {}
  <2>1. PICK m \in over : \A y \in over : m <= y
    BY <1>4, <1>6, LeastInt
  <2>2. Min(over) \in over /\ \A y \in over : Min(over) <= y
    BY <2>1 DEF Min
  <2>3. i \in over /\ \A y \in over : i <= y
    BY <1>1, <1>6, <2>2
  <2>4. i \in ab .. Len(s) /\ Beyond(i)
    BY <1>3, <2>3
  <2>5. ASSUME NEW k \in ab .. i - 1 PROVE ~Beyond(k)
    <3>1. k \in ab .. Len(s) /\ ~(i <= k)
      BY <1>2, <2>4
    <3>. QED BY <1>3, <2>3, <3>1
  <2>6. i \in ab .. Len(s) + 1
    BY <1>2, <2>4
  <2>. QED BY <2>4, <2>5, <2>6 DEF i, Beyond
<1>. QED BY <1>5, <1>6

\* Weave, one node at a time.
Weaving(woven, s, nodes, level, below) ==
    /\ woven[0] = [s |-> s, ab |-> 1]
    /\ Weave(s, nodes, level, below) = woven[Len(nodes)].s
    /\ \A n \in 1 .. Len(nodes) :
          woven[n] = Woven(woven[n - 1], nodes[n], level, below)
LEMMA WeaveRecurs ==
    ASSUME NEW T, NEW s \in Seq(T), NEW nodes \in Seq(T), NEW level, NEW below
    PROVE  \E woven : Weaving(woven, s, nodes, level, below)
<1>. DEFINE N == Len(nodes)
            base == [s |-> s, ab |-> 1]
            S == {q \in [s : Seq(T), ab : Nat] : q.ab \in 1 .. Len(q.s) + 1}
            next(n, q) == Woven(q, nodes[n], level, below)
            step == [n \in 1 .. N |-> [q \in S |-> next(n, q)]]
            Body(f) == [n \in 0 .. N |-> IF n = 0 THEN base ELSE next(n, f[n - 1])]
            woven == CHOOSE f : f = Body(f)
<1>1. N \in Nat /\ base \in S /\ \A n \in 1 .. N : nodes[n] \in T
  OBVIOUS
<1>2. Weave(s, nodes, level, below) = woven[N].s
  BY DEF Weave
<1>3. step \in [1 .. N -> [S -> S]]
  <2>1. ASSUME NEW n \in 1 .. N, NEW q \in S PROVE next(n, q) \in S
    <3>. DEFINE i == PlaceOn(q.s, q.ab, nodes[n], level, below)
    <3>1. q.s \in Seq(T) /\ q.ab \in 1 .. Len(q.s) + 1 /\ nodes[n] \in T
      BY <1>1
    <3>2. i \in q.ab .. Len(q.s) + 1
      BY <3>1, PlaceOnIs
    <3>. HIDE DEF i
    <3>3. i \in 1 .. Len(q.s) + 1 /\ i + 1 \in Nat
      BY <3>1, <3>2
    <3>4. /\ InsertAt(q.s, i, nodes[n]) \in Seq(T)
          /\ Len(InsertAt(q.s, i, nodes[n])) = Len(q.s) + 1
      BY <3>1, <3>3, InsertAtElements
    <3>5. next(n, q) = [s |-> InsertAt(q.s, i, nodes[n]), ab |-> i + 1]
      BY DEF Woven, i
    <3>6. i + 1 \in 1 .. (Len(q.s) + 1) + 1
      BY <3>3
    <3>. HIDE DEF next
    <3>. QED BY <3>3, <3>4, <3>5, <3>6
  <2>. HIDE DEF next, S
  <2>. QED BY <2>1
<1>. HIDE DEF S, base
<1>4. PICK f \in [0 .. N -> S] : Recurs(f, N, base, step)
  <2>. HIDE DEF step
  <2>. QED BY <1>1, <1>3, RecursionExists
<1>5. f = Body(f)
  <2>1. ASSUME NEW n \in 1 .. N PROVE f[n] = next(n, f[n - 1])
    <3>1. f[n - 1] \in S /\ f[n] = step[n][f[n - 1]]
      <4>. HIDE DEF step
      <4>. QED BY <1>1, <1>4 DEF Recurs
    <3>. HIDE DEF next
    <3>. QED BY <3>1
  <2>2. f[0] = base
    BY <1>4 DEF Recurs
  <2>. HIDE DEF next
  <2>3. \A n \in 0 .. N : f[n] = Body(f)[n]
    BY <1>1, <2>1, <2>2
  <2>. QED BY <2>3
<1>6. woven = Body(woven)
  <2>. HIDE DEF Body
  <2>. QED BY <1>5
<1>7. woven[0] = base /\ \A n \in 1 .. N : woven[n] = next(n, woven[n - 1])
  <2>. HIDE DEF woven, next
  <2>1. \A n \in 0 .. N : woven[n] = IF n = 0 THEN base ELSE next(n, woven[n - 1])
    BY <1>6
  <2>. HIDE DEF Body
  <2>2. woven[0] = base
    BY <1>1, <2>1
  <2>3. ASSUME NEW n \in 1 .. N PROVE woven[n] = next(n, woven[n - 1])
    <3>1. n \in 0 .. N /\ n # 0
      BY <1>1
    <3>. QED BY <2>1, <3>1
  <2>. QED BY <2>2, <2>3
<1>8. Weaving(woven, s, nodes, level, below)
  BY <1>2, <1>7 DEF Weaving, base
<1>. HIDE DEF woven
<1>. QED BY <1>8

\* What is woven in comes on top of its level, or under it, in its order.
LEMMA WeaveIs ==
    ASSUME NEW T, NEW s \in Seq(T), NEW nodes \in Seq(T), IsInjective(s),
           IsInjective(nodes), ToSet(s) \cap ToSet(nodes) = {},
           NEW level, \A x \in T : level[x] \in Nat, NEW below \in BOOLEAN,
           Sorted(s, level), Sorted(nodes, level)
    PROVE  LET t == Weave(s, nodes, level, below)
           IN /\ t \in Seq(T) /\ IsInjective(t) /\ ToSet(t) = ToSet(s) \cup ToSet(nodes)
              /\ Sorted(t, level)
              /\ \A x, y \in ToSet(s) : <<x, y>> \in Order(t) <=> <<x, y>> \in Order(s)
              /\ \A x, y \in ToSet(nodes) :
                    <<x, y>> \in Order(nodes) => <<x, y>> \in Order(t)
              /\ \A x \in ToSet(nodes), y \in ToSet(s) :
                    /\ ~below /\ level[y] <= level[x] => <<y, x>> \in Order(t)
                    /\ below /\ level[x] <= level[y] => <<x, y>> \in Order(t)
<1>. DEFINE N == Len(nodes)
            come(n) == {nodes[k] : k \in 1 .. n}
            Good(n, q) ==
                /\ q.s \in Seq(T) /\ IsInjective(q.s)
                /\ ToSet(q.s) = ToSet(s) \cup come(n) /\ Sorted(q.s, level)
                /\ q.ab \in 1 .. Len(q.s) + 1
                /\ n = 0 => q.ab = 1
                /\ n # 0 => q.ab > 1 /\ q.s[q.ab - 1] = nodes[n]
                /\ \A x, y \in ToSet(s) :
                      <<x, y>> \in Order(q.s) <=> <<x, y>> \in Order(s)
                /\ \A k, i \in 1 .. n : k <= i => <<nodes[k], nodes[i]>> \in Order(q.s)
                /\ \A k \in 1 .. n, y \in ToSet(s) :
                      /\ ~below /\ level[y] <= level[nodes[k]] =>
                            <<y, nodes[k]>> \in Order(q.s)
                      /\ below /\ level[nodes[k]] <= level[y] =>
                            <<nodes[k], y>> \in Order(q.s)
<1>0. PICK woven : Weaving(woven, s, nodes, level, below)
  <2>. HIDE DEF N, come, Good
  <2>. QED BY WeaveRecurs
<1>1. /\ woven[0] = [s |-> s, ab |-> 1]
      /\ Weave(s, nodes, level, below) = woven[Len(nodes)].s
      /\ \A n \in 1 .. Len(nodes) :
            woven[n] = Woven(woven[n - 1], nodes[n], level, below)
  <2>. HIDE DEF N, come, Good
  <2>. QED BY <1>0 DEF Weaving
<1>2. /\ N \in Nat /\ DOMAIN nodes = 1 .. N
      /\ \A n \in 1 .. N : nodes[n] \in T /\ nodes[n] \in ToSet(nodes)
      /\ \A k, n \in 1 .. N : nodes[k] = nodes[n] => k = n
  BY DEF IsInjective, ToSet
<1>3. Good(0, woven[0])
  <2>1. woven[0].s = s /\ woven[0].ab = 1
    BY <1>1
  <2>2. come(0) = {} /\ 1 .. 0 = {} /\ Len(s) \in Nat
    OBVIOUS
  <2>. HIDE DEF come
  <2>. QED BY <2>1, <2>2
<1>4. ASSUME NEW n \in 1 .. N, Good(n - 1, woven[n - 1]) PROVE Good(n, woven[n])
  <2>. DEFINE q == woven[n - 1]
              u == q.s
              ab == q.ab
              x == nodes[n]
              i == PlaceOn(u, ab, x, level, below)
              t == InsertAt(u, i, x)
  <2>1. /\ u \in Seq(T) /\ IsInjective(u)
        /\ ToSet(u) = ToSet(s) \cup come(n - 1) /\ Sorted(u, level)
        /\ ab \in 1 .. Len(u) + 1
        /\ n - 1 = 0 => ab = 1
        /\ n - 1 # 0 => ab > 1 /\ u[ab - 1] = nodes[n - 1]
    BY <1>4
  <2>2. /\ \A y, z \in ToSet(s) : <<y, z>> \in Order(u) <=> <<y, z>> \in Order(s)
        /\ \A k, j \in 1 .. n - 1 : k <= j => <<nodes[k], nodes[j]>> \in Order(u)
        /\ \A k \in 1 .. n - 1, y \in ToSet(s) :
              /\ ~below /\ level[y] <= level[nodes[k]] => <<y, nodes[k]>> \in Order(u)
              /\ below /\ level[nodes[k]] <= level[y] => <<nodes[k], y>> \in Order(u)
    BY <1>4
  <2>3. woven[n].s = t /\ woven[n].ab = i + 1
    <3>1. woven[n] = Woven(q, x, level, below)
      BY <1>1
    <3>2. Woven(q, x, level, below) = [s |-> t, ab |-> i + 1]
      BY DEF Woven
    <3>. HIDE DEF t, i, q, x
    <3>. QED BY <3>1, <3>2
  <2>4. /\ i \in ab .. Len(u) + 1 /\ i \in 1 .. Len(u) + 1
        /\ \A k \in ab .. i - 1 : level[u[k]] <= level[x] /\ (below => level[u[k]] # level[x])
        /\ i <= Len(u) => level[u[i]] > level[x] \/ (below /\ level[u[i]] = level[x])
    <3>1. /\ i \in ab .. Len(u) + 1
          /\ \A k \in ab .. i - 1 :
                ~(level[u[k]] > level[x] \/ (below /\ level[u[k]] = level[x]))
          /\ i <= Len(u) => level[u[i]] > level[x] \/ (below /\ level[u[i]] = level[x])
      <4>. HIDE DEF u, ab, x
      <4>. QED BY <2>1, PlaceOnIs
    <3>2. Len(u) \in Nat /\ ab \in Nat /\ ab >= 1
      BY <2>1
    <3>. HIDE DEF i
    <3>3. i \in 1 .. Len(u) + 1
      BY <3>1, <3>2
    <3>4. ASSUME NEW k \in ab .. i - 1
          PROVE  level[u[k]] <= level[x] /\ (below => level[u[k]] # level[x])
      <4>1. k \in 1 .. Len(u)
        BY <3>1, <3>2, SMTT(60)
      <4>2. u[k] \in T /\ x \in T
        BY <1>2, <2>1, <4>1
      <4>3. level[u[k]] \in Nat /\ level[x] \in Nat
        BY <4>2
      <4>. QED BY <3>1, <4>3
    <3>. QED BY <3>1, <3>3, <3>4
  <2>. HIDE DEF i
  <2>5. x \in T /\ x \notin ToSet(s) /\ x \notin come(n - 1) /\ x \notin ToSet(u)
    <3>1. \A k \in 1 .. n - 1 : nodes[k] # x
      BY <1>2
    <3>. QED BY <1>2, <2>1, <3>1
  <2>6. come(n) = come(n - 1) \cup {x}
    <3>1. 1 .. n = (1 .. n - 1) \cup {n}
      BY <1>2
    <3>. QED BY <3>1
  <2>7. \A k \in 1 .. n - 1 : nodes[k] \in come(n - 1) /\ nodes[k] # x
    BY <1>2
  <2>. HIDE DEF come, q, u, ab, x
  <2>8. /\ t \in Seq(T) /\ IsInjective(t) /\ ToSet(t) = ToSet(u) \cup {x}
        /\ Len(t) = Len(u) + 1 /\ t[i] = x
        /\ \A y, z : y # x /\ z # x => (<<y, z>> \in Order(t) <=> <<y, z>> \in Order(u))
        /\ \A k \in 1 .. Len(u) :
              /\ k < i => <<u[k], x>> \in Order(t) /\ <<x, u[k]>> \notin Order(t)
              /\ k >= i => <<x, u[k]>> \in Order(t) /\ <<u[k], x>> \notin Order(t)
    BY <2>1, <2>4, <2>5, InsertAtOrder
  <2>. HIDE DEF t
  <2>9. /\ Len(u) \in Nat /\ ab \in Nat /\ i \in Nat /\ ab <= i /\ i <= Len(u) + 1 /\ ab >= 1
        /\ \A k \in 1 .. Len(u) : u[k] \in ToSet(u) /\ u[k] \in T /\ level[u[k]] \in Nat
        /\ \A y \in ToSet(u) : \E k \in 1 .. Len(u) : y = u[k]
        /\ level[x] \in Nat
        /\ \A k, j \in 1 .. Len(u) : <<u[k], u[j]>> \in Order(u) => k <= j
    <3>1. ASSUME NEW k \in 1 .. Len(u), NEW j \in 1 .. Len(u), <<u[k], u[j]>> \in Order(u)
          PROVE  k <= j
      <4>1. PICK g \in 1 .. Len(u), h \in 1 .. Len(u) : g <= h /\ u[g] = u[k] /\ u[h] = u[j]
        BY <2>1, <3>1, OrderOf, SMTT(60)
      <4>2. g = k /\ h = j
        BY <2>1, <4>1 DEF IsInjective
      <4>. QED BY <4>1, <4>2
    <3>2. Len(u) \in Nat /\ ab \in Nat /\ i \in Nat /\ ab <= i /\ i <= Len(u) + 1 /\ ab >= 1
      BY <2>1, <2>4
    <3>3. /\ \A k \in 1 .. Len(u) : u[k] \in ToSet(u) /\ u[k] \in T
          /\ \A y \in ToSet(u) : \E k \in 1 .. Len(u) : y = u[k]
      BY <2>1 DEF ToSet
    <3>. QED BY <2>5, <3>1, <3>2, <3>3
  <2>10. ASSUME NEW k \in 1 .. Len(u), k < ab
         PROVE  /\ n - 1 # 0 /\ n - 1 \in 1 .. N /\ level[nodes[n - 1]] <= level[x]
                /\ level[u[k]] <= level[nodes[n - 1]]
                /\ u[ab - 1] = nodes[n - 1] /\ ab - 1 \in 1 .. Len(u)
    <3>1. n - 1 # 0 /\ n - 1 \in 1 .. N
      BY <1>2, <2>1, <2>9, <2>10
    <3>2. u[ab - 1] = nodes[n - 1] /\ ab - 1 \in 1 .. Len(u) /\ k <= ab - 1
      BY <2>1, <2>9, <2>10, <3>1
    <3>3. <<u[k], u[ab - 1]>> \in Order(u)
      BY <2>1, <3>2, OrderOf
    <3>4. <<nodes[n - 1], nodes[n]>> \in Order(nodes)
      <4>1. n - 1 <= n
        BY <1>2
      <4>. QED BY <3>1, <4>1, OrderOf
    <3>. QED BY <2>1, <3>1, <3>2, <3>3, <3>4 DEF Sorted, x
  <2>11. ASSUME NEW k \in 1 .. Len(u), k < i PROVE level[u[k]] <= level[x]
    <3>1. CASE k < ab
      <4>1. level[nodes[n - 1]] \in Nat
        BY <1>2, <2>10, <3>1
      <4>2. level[u[k]] \in Nat /\ level[x] \in Nat
        BY <2>9
      <4>3. /\ level[u[k]] <= level[nodes[n - 1]]
            /\ level[nodes[n - 1]] <= level[x]
        BY <2>10, <3>1
      <4>. QED BY <4>1, <4>2, <4>3
    <3>2. CASE ~(k < ab)
      <4>1. k \in ab .. i - 1
        BY <2>9, <2>11, <3>2
      <4>. QED BY <2>4, <4>1
    <3>. QED BY <3>1, <3>2
  <2>12. ASSUME NEW k \in 1 .. Len(u), k >= i
         PROVE  level[x] <= level[u[k]] /\ (~below => level[x] < level[u[k]])
    <3>1. i \in 1 .. Len(u) /\ i <= Len(u)
      BY <2>9, <2>12
    <3>2. <<u[i], u[k]>> \in Order(u)
      BY <2>1, <2>9, <2>12, <3>1, OrderOf
    <3>3. level[u[i]] <= level[u[k]]
      BY <2>1, <3>2 DEF Sorted
    <3>4. level[u[i]] > level[x] \/ (below /\ level[u[i]] = level[x])
      BY <2>4, <3>1
    <3>. QED BY <2>9, <3>1, <3>3, <3>4
  <2>13. Sorted(t, level)
    <3>. SUFFICES ASSUME NEW y, NEW z, <<y, z>> \in Order(t) PROVE level[y] <= level[z]
      BY DEF Sorted
    <3>1. y \in ToSet(u) \cup {x} /\ z \in ToSet(u) \cup {x}
      BY <2>8, OrderIsTotal
    <3>2. CASE y = x /\ z = x
      BY <2>9, <3>2
    <3>3. CASE y # x /\ z # x
      BY <2>1, <2>8, <3>3 DEF Sorted
    <3>4. CASE y = x /\ z # x
      <4>1. PICK k \in 1 .. Len(u) : z = u[k]
        BY <2>9, <3>1, <3>4
      <4>2. ~(k < i)
        BY <2>8, <3>4, <4>1
      <4>. QED BY <2>9, <2>12, <3>4, <4>1, <4>2
    <3>5. CASE y # x /\ z = x
      <4>1. PICK k \in 1 .. Len(u) : y = u[k]
        BY <2>9, <3>1, <3>5
      <4>2. ~(k >= i)
        BY <2>8, <3>5, <4>1
      <4>. QED BY <2>9, <2>11, <3>5, <4>1, <4>2
    <3>. QED BY <3>2, <3>3, <3>4, <3>5
  <2>14. ASSUME NEW k \in 1 .. n - 1 PROVE <<nodes[k], x>> \in Order(t)
    <3>1. n - 1 \in 1 .. n - 1 /\ n - 1 # 0 /\ k <= n - 1
      BY <1>2
    <3>2. <<nodes[k], nodes[n - 1]>> \in Order(u)
      BY <2>2, <3>1
    <3>3. nodes[k] \in ToSet(u)
      BY <2>1, <2>7
    <3>4. PICK j \in 1 .. Len(u) : nodes[k] = u[j]
      BY <2>9, <3>3
    <3>5. u[ab - 1] = nodes[n - 1] /\ ab - 1 \in 1 .. Len(u)
      BY <2>1, <2>9, <3>1
    <3>6. j <= ab - 1
      BY <2>9, <3>2, <3>4, <3>5
    <3>7. j < i
      BY <2>9, <3>6
    <3>. QED BY <2>8, <3>4, <3>7
  <2>15. ASSUME NEW y \in ToSet(s)
         PROVE  /\ ~below /\ level[y] <= level[x] => <<y, x>> \in Order(t)
                /\ below /\ level[x] <= level[y] => <<x, y>> \in Order(t)
    <3>1. PICK k \in 1 .. Len(u) : y = u[k]
      BY <2>1, <2>9
    <3>2. level[u[k]] \in Nat /\ level[x] \in Nat
      BY <2>9
    <3>3. ASSUME ~below, level[y] <= level[x] PROVE <<y, x>> \in Order(t)
      <4>1. ~(k >= i)
        BY <2>12, <3>1, <3>2, <3>3
      <4>2. k < i
        BY <2>9, <4>1
      <4>. QED BY <2>8, <3>1, <4>2
    <3>4. ASSUME below, level[x] <= level[y] PROVE <<x, y>> \in Order(t)
      <4>1. CASE k < ab
        <5>1. n - 1 \in 1 .. n - 1 /\ n - 1 \in 1 .. N
          BY <1>2, <2>10, <4>1
        <5>2. level[nodes[n - 1]] \in Nat
          BY <1>2, <5>1
        <5>3. level[nodes[n - 1]] <= level[y]
          BY <2>10, <3>1, <3>2, <3>4, <4>1, <5>2
        <5>4. <<u[ab - 1], u[k]>> \in Order(u)
          BY <2>2, <2>10, <3>1, <3>4, <4>1, <5>1, <5>3
        <5>5. ab - 1 <= k
          BY <2>9, <2>10, <4>1, <5>4
        <5>6. k = ab - 1
          BY <2>9, <4>1, <5>5
        <5>7. y = nodes[n - 1]
          BY <2>10, <3>1, <4>1, <5>6
        <5>8. nodes[n - 1] \in ToSet(nodes)
          BY <1>2, <5>1
        <5>. QED BY <5>7, <5>8
      <4>2. CASE ~(k < ab)
        <5>1. ~(k < i)
          <6>1. k < i => k \in ab .. i - 1
            BY <2>9, <4>2
          <6>. QED BY <2>4, <3>1, <3>2, <3>4, <6>1
        <5>2. k >= i
          BY <2>9, <5>1
        <5>. QED BY <2>8, <3>1, <5>2
      <4>. QED BY <4>1, <4>2
    <3>. QED BY <3>3, <3>4
  <2>16. ASSUME NEW k \in 1 .. n, NEW j \in 1 .. n, k <= j
         PROVE  <<nodes[k], nodes[j]>> \in Order(t)
    <3>1. CASE j = n /\ k = n
      <4>1. x \in ToSet(t)
        BY <2>8
      <4>. QED BY <2>8, <3>1, <4>1, OrderIsTotal DEF x
    <3>2. CASE j = n /\ k # n
      <4>1. k \in 1 .. n - 1
        BY <1>2, <3>2
      <4>. QED BY <2>14, <3>2, <4>1 DEF x
    <3>3. CASE j # n
      <4>1. k \in 1 .. n - 1 /\ j \in 1 .. n - 1
        BY <1>2, <2>16, <3>3
      <4>. QED BY <2>2, <2>7, <2>8, <2>16, <4>1
    <3>. QED BY <3>1, <3>2, <3>3
  <2>17. ASSUME NEW k \in 1 .. n, NEW y \in ToSet(s)
         PROVE  /\ ~below /\ level[y] <= level[nodes[k]] => <<y, nodes[k]>> \in Order(t)
                /\ below /\ level[nodes[k]] <= level[y] => <<nodes[k], y>> \in Order(t)
    <3>1. CASE k = n
      BY <2>15, <3>1 DEF x
    <3>2. CASE k # n
      <4>1. k \in 1 .. n - 1 /\ y # x
        BY <1>2, <2>5, <3>2
      <4>. QED BY <2>2, <2>7, <2>8, <4>1
    <3>. QED BY <3>1, <3>2
  <2>18. \A y, z \in ToSet(s) : <<y, z>> \in Order(t) <=> <<y, z>> \in Order(s)
    BY <2>2, <2>5, <2>8
  <2>19. i + 1 \in 1 .. Len(t) + 1 /\ i + 1 > 1 /\ t[(i + 1) - 1] = nodes[n] /\ n # 0
    <3>1. (i + 1) - 1 = i
      BY <2>9
    <3>. QED BY <1>2, <2>8, <2>9, <3>1 DEF x
  <2>20. ToSet(t) = ToSet(s) \cup come(n)
    BY <2>1, <2>6, <2>8
  <2>. QED BY <2>3, <2>8, <2>13, <2>16, <2>17, <2>18, <2>19, <2>20
<1>5. Good(N, woven[N])
  <2>. DEFINE S == {n \in 0 .. N : Good(n, woven[n])}
  <2>. HIDE DEF Good
  <2>1. 0 \in S /\ \A n \in 1 .. N : n - 1 \in S => n \in S
    BY <1>2, <1>3, <1>4
  <2>. HIDE DEF S
  <2>2. \A n \in 0 .. N : n \in S
    BY <1>2, <2>1, Induction
  <2>. QED BY <1>2, <2>2 DEF S
<1>6. come(N) = ToSet(nodes)
  BY <1>2 DEF ToSet
<1>. DEFINE t == Weave(s, nodes, level, below)
<1>7. /\ t \in Seq(T) /\ IsInjective(t) /\ ToSet(t) = ToSet(s) \cup ToSet(nodes)
      /\ Sorted(t, level)
      /\ \A x, y \in ToSet(s) : <<x, y>> \in Order(t) <=> <<x, y>> \in Order(s)
  BY <1>1, <1>5, <1>6
<1>8. /\ \A k, i \in 1 .. N : k <= i => <<nodes[k], nodes[i]>> \in Order(t)
      /\ \A k \in 1 .. N, y \in ToSet(s) :
            /\ ~below /\ level[y] <= level[nodes[k]] => <<y, nodes[k]>> \in Order(t)
            /\ below /\ level[nodes[k]] <= level[y] => <<nodes[k], y>> \in Order(t)
  BY <1>1, <1>5
<1>. HIDE DEF t, Good
<1>9. ASSUME NEW x, NEW y, <<x, y>> \in Order(nodes) PROVE <<x, y>> \in Order(t)
  <2>1. PICK k \in 1 .. N, i \in 1 .. N : k <= i /\ nodes[k] = x /\ nodes[i] = y
    BY <1>9, OrderOf
  <2>. QED BY <1>8, <2>1
<1>10. ASSUME NEW x \in ToSet(nodes) PROVE \E k \in 1 .. N : x = nodes[k]
  BY <1>2 DEF ToSet
<1>. QED BY <1>7, <1>8, <1>9, <1>10 DEF t

-----------------------------------------------------------------------------
(* What is stacked above what.                                             *)

\* What is stacked above one of S is in S.
Closed(above, S) == \A x \in DOMAIN above : above[x] \in S => x \in S

\* WithAbove is the least closed set S is in.
LEMMA WithAboveIs ==
    ASSUME NEW above, NEW S, IsFiniteSet(DOMAIN above)
    PROVE  /\ S \subseteq WithAbove(above, S)
           /\ Closed(above, WithAbove(above, S))
           /\ \A T : S \subseteq T /\ Closed(above, T) => WithAbove(above, S) \subseteq T
           /\ WithAbove(above, S) \subseteq S \cup DOMAIN above
           /\ \A x \in WithAbove(above, S) : x \in S \/ above[x] \in WithAbove(above, S)
<1>. DEFINE D == DOMAIN above
            N == Cardinality(DOMAIN above)
            U == SUBSET (S \cup D)
            next(Q) == Q \cup {x \in D : above[x] \in Q}
            Body(f) == [n \in 0 .. N |-> IF n = 0 THEN S ELSE next(f[n - 1])]
            step == [n \in 1 .. N |-> [Q \in U |-> next(Q)]]
            grown == CHOOSE f : f = Body(f)
<1>1. N \in Nat /\ S \in U
  BY FS_CardinalityType
<1>2. WithAbove(above, S) = grown[N]
  BY DEF WithAbove
<1>3. \A Q \in U : next(Q) \in U
  OBVIOUS
<1>4. grown[0] = S /\ \A n \in 1 .. N : grown[n] = next(grown[n - 1])
  <2>. HIDE DEF U, next, N
  <2>1. step \in [1 .. N -> [U -> U]]
    BY <1>3
  <2>2. PICK f \in [0 .. N -> U] : Recurs(f, N, S, step)
    <3>. HIDE DEF step
    <3>. QED BY <1>1, <2>1, RecursionExists
  <2>3. ASSUME NEW n \in 1 .. N PROVE f[n] = next(f[n - 1])
    <3>1. f[n - 1] \in U /\ f[n] = step[n][f[n - 1]]
      <4>. HIDE DEF step
      <4>. QED BY <1>1, <2>2 DEF Recurs
    <3>. QED BY <3>1
  <2>4. f[0] = S
    BY <2>2 DEF Recurs
  <2>5. f = Body(f)
    <3>1. \A n \in 0 .. N : f[n] = Body(f)[n]
      BY <1>1, <2>3, <2>4
    <3>. QED BY <3>1
  <2>6. grown = Body(grown)
    <3>. HIDE DEF Body
    <3>. QED BY <2>5
  <2>. HIDE DEF grown
  <2>. QED BY <1>1, <2>6
<1>. HIDE DEF grown
<1>5. ASSUME NEW T, S \subseteq T, Closed(above, T) PROVE grown[N] \subseteq T
  <2>. DEFINE I == {n \in 0 .. N : grown[n] \subseteq T}
  <2>1. 0 \in I
    BY <1>1, <1>4, <1>5
  <2>2. ASSUME NEW n \in 1 .. N, n - 1 \in I PROVE n \in I
    <3>1. grown[n] = next(grown[n - 1]) /\ grown[n - 1] \subseteq T
      BY <1>4, <2>2
    <3>2. next(grown[n - 1]) \subseteq T
      BY <1>5, <3>1 DEF Closed
    <3>. QED BY <1>1, <3>1, <3>2
  <2>. HIDE DEF I, N
  <2>3. N \in I
    BY <1>1, <2>1, <2>2, Induction
  <2>. QED BY <2>3 DEF I
<1>6. S \subseteq grown[N]
  <2>. DEFINE I == {n \in 0 .. N : S \subseteq grown[n]}
  <2>1. 0 \in I
    BY <1>1, <1>4
  <2>2. ASSUME NEW n \in 1 .. N, n - 1 \in I PROVE n \in I
    BY <1>1, <1>4, <2>2
  <2>. HIDE DEF I, N
  <2>3. N \in I
    BY <1>1, <2>1, <2>2, Induction
  <2>. QED BY <2>3 DEF I
<1>7. Closed(above, grown[N])
  <2>. DEFINE I == {n \in 0 .. N :
                      \/ Closed(above, grown[n])
                      \/ Cardinality(grown[n] \cap D) >= n}
  <2>. DEFINE c(n) == grown[n] \cap D
  <2>0. \A n : IsFiniteSet(c(n)) /\ Cardinality(c(n)) \in Nat /\ Cardinality(c(n)) <= N
    <3>. SUFFICES ASSUME NEW n
                  PROVE  IsFiniteSet(c(n)) /\ Cardinality(c(n)) \in Nat
                         /\ Cardinality(c(n)) <= N
      OBVIOUS
    <3>1. c(n) \in SUBSET D
      OBVIOUS
    <3>. HIDE DEF c
    <3>2. IsFiniteSet(c(n)) /\ Cardinality(c(n)) <= Cardinality(D)
      BY <3>1, FS_Subset
    <3>. QED BY <3>2, FS_CardinalityType
  <2>1. 0 \in I
    BY <1>1, <2>0
  <2>2. ASSUME NEW n \in 1 .. N, n - 1 \in I PROVE n \in I
    <3>. DEFINE Q == grown[n - 1]
    <3>1. grown[n] = next(Q)
      BY <1>4
    <3>2. CASE Closed(above, Q)
      <4>1. next(Q) = Q
        BY <3>2 DEF Closed
      <4>2. Closed(above, grown[n]) /\ n \in 0 .. N
        <5>. HIDE DEF next, N
        <5>. QED BY <1>1, <3>1, <3>2, <4>1
      <4>. QED BY <4>2
    <3>3. CASE ~Closed(above, Q)
      <4>1. Cardinality(c(n - 1)) >= n - 1
        BY <2>2, <3>3
      <4>2. PICK x \in D : above[x] \in Q /\ x \notin Q
        BY <3>3 DEF Closed
      <4>3. c(n - 1) \in SUBSET c(n) /\ x \in c(n) /\ x \notin c(n - 1)
        BY <3>1, <4>2
      <4>. HIDE DEF c
      <4>4. IsFiniteSet(c(n)) /\ IsFiniteSet(c(n - 1))
        BY <2>0
      <4>5. /\ Cardinality(c(n - 1)) <= Cardinality(c(n))
            /\ Cardinality(c(n)) # Cardinality(c(n - 1))
        <5>1. /\ Cardinality(c(n - 1)) <= Cardinality(c(n))
              /\ Cardinality(c(n)) = Cardinality(c(n - 1)) => c(n) = c(n - 1)
          BY <4>3, <4>4, FS_Subset
        <5>. QED BY <4>3, <5>1
      <4>6. Cardinality(c(n)) >= n
        <5>1. Cardinality(c(n)) \in Nat /\ Cardinality(c(n - 1)) \in Nat
          BY <2>0
        <5>. QED BY <1>1, <4>1, <4>5, <5>1
      <4>. QED BY <1>1, <4>6 DEF c
    <3>. QED BY <3>2, <3>3
  <2>3. N \in I
    <3>. HIDE DEF I, N
    <3>. QED BY <1>1, <2>1, <2>2, Induction
  <2>4. CASE Cardinality(c(N)) >= N
    <3>1. c(N) \in SUBSET D
      OBVIOUS
    <3>2. Cardinality(c(N)) = Cardinality(D)
      BY <1>1, <2>0, <2>4
    <3>3. c(N) = D
      <4>. HIDE DEF c
      <4>. QED BY <3>1, <3>2, FS_Subset
    <3>. QED BY <3>3 DEF Closed
  <2>. QED BY <2>3, <2>4
<1>8. /\ S \subseteq WithAbove(above, S)
      /\ Closed(above, WithAbove(above, S))
      /\ \A T : S \subseteq T /\ Closed(above, T) => WithAbove(above, S) \subseteq T
  BY <1>2, <1>5, <1>6, <1>7
<1>. DEFINE W == WithAbove(above, S)
            C == {x \in W : x \in S \/ above[x] \in W}
<1>. HIDE DEF W
<1>9. W \subseteq S \cup D
  <2>1. S \subseteq S \cup D /\ Closed(above, S \cup D)
    BY DEF Closed
  <2>. QED BY <1>8, <2>1 DEF W
<1>10. W \subseteq C
  <2>1. S \subseteq C
    BY <1>8 DEF W
  <2>2. Closed(above, C)
    BY <1>8 DEF W, Closed
  <2>. HIDE DEF C
  <2>. QED BY <1>8, <2>1, <2>2 DEF W
<1>. QED BY <1>8, <1>9, <1>10 DEF W

\* What is above what is above x is above x.
LEMMA AboveAbove ==
    ASSUME NEW above, NEW x, NEW y, IsFiniteSet(DOMAIN above),
           y \in WithAbove(above, {x})
    PROVE  WithAbove(above, {y}) \subseteq WithAbove(above, {x})
<1>1. {y} \subseteq WithAbove(above, {x}) /\ Closed(above, WithAbove(above, {x}))
  BY WithAboveIs
<1>. QED BY <1>1, WithAboveIs

-----------------------------------------------------------------------------
(* The list of a window.                                                   *)

\* The list s holds S, once, the lowest level first, and what is stacked
\* above another comes after it.
Stacked(s, S, level, above) ==
    /\ s \in Seq(Regions) /\ IsInjective(s) /\ ToSet(s) = S
    /\ Sorted(s, level)
    /\ \A x \in S : above[x] # None => <<above[x], x>> \in Order(s)

\* What a node is stacked above is another one of its level.
LevelTrees(level, above) ==
    /\ level \in [Regions -> Nat] /\ above \in [Regions -> Regions \cup {None}]
    /\ \A x \in Regions : above[x] # None =>
           above[x] # x /\ level[above[x]] = level[x]

\* What is stacked above a node is on the list, at its level and above it.
LEMMA AboveIn ==
    ASSUME NEW S, NEW s, NEW level, NEW above, LevelTrees(level, above),
           Stacked(s, S, level, above),
           \A x \in Regions : above[x] \in S => x \in S, NEW p \in S
    PROVE  \A y \in WithAbove(above, {p}) :
              y \in S /\ level[y] = level[p] /\ <<p, y>> \in Order(s)
<1>. DEFINE T == {y \in S : level[y] = level[p] /\ <<p, y>> \in Order(s)}
<1>1. s \in Seq(Regions) /\ IsInjective(s) /\ ToSet(s) = S /\ S \subseteq Regions
  <2>1. s \in Seq(Regions) /\ IsInjective(s) /\ ToSet(s) = S
    BY DEF Stacked
  <2>. QED BY <2>1 DEF ToSet
<1>2. {p} \subseteq T
  BY <1>1, OrderIsTotal
<1>3. ASSUME NEW y \in DOMAIN above, above[y] \in T PROVE y \in T
  <2>1. y \in S /\ above[y] # None /\ y \in Regions
    BY <1>1, <1>3, GroupsAssumption DEF LevelTrees
  <2>2. level[above[y]] = level[y] /\ <<above[y], y>> \in Order(s)
    BY <2>1 DEF LevelTrees, Stacked
  <2>3. <<p, y>> \in Order(s)
    BY <1>1, <1>3, <2>2, OrderIsTotal
  <2>. QED BY <1>3, <2>1, <2>2, <2>3
<1>4. IsFiniteSet(DOMAIN above)
  BY GroupsAssumption DEF LevelTrees
<1>5. Closed(above, T)
  <2>. HIDE DEF T
  <2>. QED BY <1>3 DEF Closed
<1>6. WithAbove(above, {p}) \subseteq T
  <2>. HIDE DEF T
  <2>. QED BY <1>2, <1>4, <1>5, WithAboveIs
<1>. QED BY <1>6

\* A list that is restacked is still in order.
LEMMA RestackIs ==
    ASSUME NEW S, NEW s, NEW level, NEW above, LevelTrees(level, above),
           Stacked(s, S, level, above),
           \A x \in Regions : above[x] \in S => x \in S, NEW x \in S,
           NEW lower \in BOOLEAN
    PROVE  Stacked(Restack(s, x, level, above, lower), S, level, above)
<1>. DEFINE A(p) == WithAbove(above, {p})
            over == A(x) \ {x}
            under == IF lower THEN WithBelow(above, x) ELSE {x}
            moved == over \cup under
            rest == Dropping(s, moved)
            nodes == Only(s, under) \o Only(s, over)
            t == Restack(s, x, level, above, lower)
<1>1. /\ s \in Seq(Regions) /\ IsInjective(s) /\ ToSet(s) = S /\ S \subseteq Regions
      /\ Sorted(s, level) /\ \A y \in S : above[y] # None => <<above[y], y>> \in Order(s)
  <2>1. s \in Seq(Regions) /\ IsInjective(s) /\ ToSet(s) = S
    BY DEF Stacked
  <2>. QED BY <2>1 DEF ToSet, Stacked
<1>2. /\ DOMAIN above = Regions /\ IsFiniteSet(DOMAIN above)
      /\ \A y \in Regions : above[y] \in Regions \cup {None} /\ level[y] \in Nat
      /\ \A y \in Regions : above[y] # None =>
             above[y] # y /\ level[above[y]] = level[y]
      /\ None \notin Regions
  BY GroupsAssumption DEF LevelTrees
<1>3. \A p \in S : \A y \in A(p) :
          y \in S /\ level[y] = level[p] /\ <<p, y>> \in Order(s)
  BY AboveIn
<1>4. ASSUME NEW p \in Regions, p \notin S PROVE x \notin A(p)
  <2>. DEFINE T == Regions \ S
  <2>1. ASSUME NEW y \in DOMAIN above, above[y] \in T PROVE y \in T
    <3>1. above[y] # None /\ y \in Regions
      BY <1>2, <2>1
    <3>2. y \in S => above[y] \in S
      <4>1. ASSUME y \in S PROVE above[y] \in ToSet(s)
        <5>1. <<above[y], y>> \in Order(s)
          BY <1>1, <3>1, <4>1
        <5>. QED BY <1>1, <5>1, OrderIsTotal
      <4>. QED BY <1>1, <4>1
    <3>. QED BY <2>1, <3>1, <3>2
  <2>2. Closed(above, T)
    <3>. HIDE DEF T
    <3>. QED BY <2>1 DEF Closed
  <2>3. A(p) \subseteq T
    BY <1>2, <1>4, <2>2, WithAboveIs
  <2>. QED BY <2>3
<1>5. /\ x \in under /\ under \subseteq S
      /\ \A p \in under : level[p] = level[x] /\ <<p, x>> \in Order(s)
      /\ lower => \A p \in Regions : p \in under <=> x \in A(p)
      /\ ~lower => under = {x}
  <2>1. x \in A(x)
    BY <1>2, WithAboveIs
  <2>2. <<x, x>> \in Order(s)
    BY <1>1, OrderIsTotal
  <2>3. CASE ~lower
    BY <2>2, <2>3
  <2>4. CASE lower
    <3>1. under = {p \in Regions : x \in A(p)}
      BY <1>2, <2>4 DEF WithBelow
    <3>. HIDE DEF A, under
    <3>. QED BY <1>1, <1>3, <1>4, <2>1, <2>4, <3>1
  <2>. QED BY <2>3, <2>4
<1>6. /\ over \subseteq S /\ x \notin over
      /\ \A y \in over : level[y] = level[x] /\ <<x, y>> \in Order(s)
      /\ \A y \in over : above[y] \in over \cup {x}
      /\ \A y \in Regions : above[y] \in over \cup {x} => y \in over
  <2>1. \A y \in A(x) : y = x \/ above[y] \in A(x)
    BY <1>2, WithAboveIs
  <2>2. \A y \in Regions : above[y] \in A(x) => y \in A(x)
    BY <1>2, WithAboveIs DEF Closed
  <2>3. x \in A(x)
    BY <1>2, WithAboveIs
  <2>4. \A y \in Regions : above[y] \in A(x) => y # x
    <3>1. ASSUME above[x] \in A(x) PROVE FALSE
      <4>1. above[x] \in S /\ <<x, above[x]>> \in Order(s)
        BY <1>3, <3>1
      <4>2. above[x] # None /\ <<above[x], x>> \in Order(s)
        BY <1>1, <1>2, <4>1
      <4>. QED BY <1>1, <1>2, <4>1, <4>2, OrderIsTotal
    <3>. QED BY <3>1
  <2>. HIDE DEF A
  <2>. QED BY <1>3, <2>1, <2>2, <2>3, <2>4
<1>7. \A y \in under : lower /\ above[y] # None => above[y] \in under
  <2>. SUFFICES ASSUME NEW y \in under, lower, above[y] # None
                PROVE  above[y] \in under
    OBVIOUS
  <2>1. y \in S /\ y \in Regions /\ above[y] \in Regions
    BY <1>1, <1>2, <1>5
  <2>2. y \in A(above[y])
    <3>1. above[y] \in A(above[y])
      BY <1>2, WithAboveIs
    <3>. QED BY <1>2, <2>1, <3>1, WithAboveIs DEF Closed
  <2>3. A(y) \subseteq A(above[y])
    BY <1>2, <2>2, AboveAbove
  <2>4. x \in A(y)
    BY <1>5, <2>1
  <2>. HIDE DEF under, A
  <2>. QED BY <1>5, <2>1, <2>3, <2>4
<1>. HIDE DEF A, over, under
<1>8. over \cap under = {}
  <2>1. ASSUME NEW y \in over, y \in under PROVE FALSE
    <3>1. <<x, y>> \in Order(s) /\ <<y, x>> \in Order(s) /\ x # y
      BY <1>5, <1>6, <2>1
    <3>. QED BY <1>1, <3>1, OrderIsTotal
  <2>. QED BY <2>1
<1>9. /\ rest \in Seq(Regions) /\ IsInjective(rest) /\ ToSet(rest) = S \ moved
      /\ \A y, z : <<y, z>> \in Order(rest)
                     <=> <<y, z>> \in Order(s) /\ y \notin moved /\ z \notin moved
  <2>. HIDE DEF moved
  <2>. QED BY <1>1, DroppingElements, DroppingOrder
<1>10. Sorted(rest, level)
  BY <1>1, <1>9 DEF Sorted
<1>11. /\ nodes \in Seq(Regions) /\ IsInjective(nodes) /\ ToSet(nodes) = moved
       /\ \A y, z : <<y, z>> \in Order(nodes) <=>
             \/ <<y, z>> \in Order(s) /\ y \in under /\ z \in under
             \/ <<y, z>> \in Order(s) /\ y \in over /\ z \in over
             \/ y \in under /\ z \in over
  <2>1. /\ Only(s, under) \in Seq(Regions) /\ Only(s, over) \in Seq(Regions)
        /\ IsInjective(Only(s, under)) /\ IsInjective(Only(s, over))
        /\ ToSet(Only(s, under)) = under /\ ToSet(Only(s, over)) = over
    <3>1. S \cap under = under /\ S \cap over = over
      BY <1>5, <1>6
    <3>. QED BY <1>1, <3>1, OnlyElements
  <2>2. \A y, z : <<y, z>> \in Order(Only(s, under))
                    <=> <<y, z>> \in Order(s) /\ y \in under /\ z \in under
    BY <1>1, OnlyOrder
  <2>3. \A y, z : <<y, z>> \in Order(Only(s, over))
                    <=> <<y, z>> \in Order(s) /\ y \in over /\ z \in over
    BY <1>1, OnlyOrder
  <2>4. /\ nodes \in Seq(Regions) /\ IsInjective(nodes) /\ ToSet(nodes) = under \cup over
        /\ \A y, z : <<y, z>> \in Order(nodes) <=>
              \/ <<y, z>> \in Order(Only(s, under)) \/ <<y, z>> \in Order(Only(s, over))
              \/ y \in under /\ z \in over
    BY <1>8, <2>1, ConcatElements
  <2>. QED BY <2>2, <2>3, <2>4
<1>12. \A y \in moved : y \in S /\ level[y] = level[x]
  BY <1>5, <1>6
<1>13. Sorted(nodes, level)
  <2>1. ASSUME NEW y, NEW z, <<y, z>> \in Order(nodes) PROVE level[y] <= level[z]
    <3>1. y \in moved /\ z \in moved
      BY <1>11, <2>1, OrderIsTotal
    <3>. HIDE DEF moved
    <3>. QED BY <1>1, <1>2, <1>12, <3>1
  <2>. QED BY <2>1 DEF Sorted
<1>14. t = Weave(rest, nodes, level, lower)
  BY DEF Restack, A, over, under
<1>15. (S \ moved) \cup moved = S /\ (S \ moved) \cap moved = {}
  <2>. HIDE DEF moved
  <2>. QED BY <1>12
<1>. HIDE DEF nodes, rest, t
<1>16. /\ t \in Seq(Regions) /\ IsInjective(t) /\ ToSet(t) = S /\ Sorted(t, level)
       /\ \A y, z \in S \ moved : <<y, z>> \in Order(t) <=> <<y, z>> \in Order(rest)
       /\ \A y, z \in moved : <<y, z>> \in Order(nodes) => <<y, z>> \in Order(t)
       /\ \A y \in moved, z \in S \ moved :
             /\ ~lower /\ level[z] <= level[y] => <<z, y>> \in Order(t)
             /\ lower /\ level[y] <= level[z] => <<y, z>> \in Order(t)
  <2>. HIDE DEF moved
  <2>1. \A y \in Regions : level[y] \in Nat
    BY <1>2
  <2>2. /\ rest \in Seq(Regions) /\ IsInjective(rest) /\ nodes \in Seq(Regions)
        /\ IsInjective(nodes) /\ ToSet(rest) \cap ToSet(nodes) = {}
        /\ ToSet(rest) = S \ moved /\ ToSet(nodes) = moved
        /\ ToSet(rest) \cup ToSet(nodes) = S
    BY <1>9, <1>11, <1>15
  <2>3. /\ t \in Seq(Regions) /\ IsInjective(t)
        /\ ToSet(t) = ToSet(rest) \cup ToSet(nodes) /\ Sorted(t, level)
        /\ \A y, z \in ToSet(rest) : <<y, z>> \in Order(t) <=> <<y, z>> \in Order(rest)
        /\ \A y, z \in ToSet(nodes) : <<y, z>> \in Order(nodes) => <<y, z>> \in Order(t)
        /\ \A y \in ToSet(nodes), z \in ToSet(rest) :
              /\ ~lower /\ level[z] <= level[y] => <<z, y>> \in Order(t)
              /\ lower /\ level[y] <= level[z] => <<y, z>> \in Order(t)
    BY <1>10, <1>13, <1>14, <2>1, <2>2, WeaveIs
  <2>. QED BY <2>2, <2>3
<1>17. ASSUME NEW y \in S, above[y] # None PROVE <<above[y], y>> \in Order(t)
  <2>. DEFINE a == above[y]
  <2>1. /\ <<a, y>> \in Order(s) /\ a \in S /\ y \in Regions /\ a \in Regions
        /\ level[a] = level[y] /\ a # y
    <3>1. <<a, y>> \in Order(s)
      BY <1>1, <1>17
    <3>2. a \in ToSet(s)
      BY <1>1, <3>1, OrderIsTotal
    <3>. QED BY <1>1, <1>2, <1>17, <3>1, <3>2
  <2>2. a \in over \cup {x} <=> y \in over
    BY <1>6, <2>1
  <2>. HIDE DEF a
  <2>3. lower => (y \in under => a \in under)
    BY <1>7, <1>17 DEF a
  <2>4. level[a] \in Nat /\ level[y] \in Nat
    BY <1>2, <2>1
  <2>5. CASE y \in moved /\ a \in moved
    <3>1. <<a, y>> \in Order(nodes)
      <4>1. y \in over => a \in over \/ a \in under
        BY <1>5, <2>2
      <4>2. y \in under => a \notin over
        BY <1>8, <2>2
      <4>. QED BY <1>11, <2>1, <2>5, <4>1, <4>2
    <3>. QED BY <1>16, <2>5, <3>1 DEF a
  <2>6. CASE y \notin moved /\ a \notin moved
    <3>1. <<a, y>> \in Order(rest)
      BY <1>9, <2>1, <2>6
    <3>. QED BY <1>16, <2>1, <2>6, <3>1 DEF a
  <2>7. CASE y \in moved /\ a \notin moved
    <3>1. ~lower
      BY <1>5, <2>2, <2>3, <2>7
    <3>2. a \in S \ moved /\ level[a] <= level[y]
      BY <2>1, <2>4, <2>7
    <3>. HIDE DEF moved
    <3>3. <<a, y>> \in Order(t)
      BY <1>16, <2>7, <3>1, <3>2
    <3>. QED BY <3>3 DEF a
  <2>8. CASE y \notin moved /\ a \in moved
    <3>1. lower
      BY <1>5, <2>2, <2>8
    <3>. QED BY <1>16, <2>1, <2>4, <2>8, <3>1 DEF a
  <2>. QED BY <2>5, <2>6, <2>7, <2>8
<1>. QED BY <1>16, <1>17 DEF Stacked, t

\* Only what the list holds matters, and a node may be stacked above another
\* no more.
LEMMA StackedSame ==
    ASSUME NEW s, NEW S, NEW level, NEW above, NEW level2, NEW above2,
           Stacked(s, S, level, above), \A x \in S : level2[x] = level[x],
           \A x \in S : above2[x] = above[x] \/ above2[x] = None
    PROVE  Stacked(s, S, level2, above2)
<1>1. /\ s \in Seq(Regions) /\ IsInjective(s) /\ ToSet(s) = S
      /\ Sorted(s, level) /\ \A x \in S : above[x] # None => <<above[x], x>> \in Order(s)
  BY DEF Stacked
<1>2. ASSUME NEW x, NEW y, <<x, y>> \in Order(s) PROVE level2[x] <= level2[y]
  <2>1. x \in S /\ y \in S /\ level[x] <= level[y]
    BY <1>1, <1>2, OrderIsTotal DEF Sorted
  <2>. QED BY <2>1
<1>3. Sorted(s, level2)
  BY <1>2 DEF Sorted
<1>4. \A x \in S : above2[x] # None => <<above2[x], x>> \in Order(s)
  BY <1>1
<1>. QED BY <1>1, <1>3, <1>4 DEF Stacked

\* Some are taken off a list.
LEMMA DroppingStacked ==
    ASSUME NEW s, NEW S, NEW level, NEW above, Stacked(s, S, level, above), NEW M,
           \A x \in S \ M : above[x] \notin M
    PROVE  Stacked(Dropping(s, M), S \ M, level, above)
<1>1. /\ s \in Seq(Regions) /\ IsInjective(s) /\ ToSet(s) = S
      /\ Sorted(s, level) /\ \A x \in S : above[x] # None => <<above[x], x>> \in Order(s)
  BY DEF Stacked
<1>. DEFINE t == Dropping(s, M)
<1>2. /\ t \in Seq(Regions) /\ IsInjective(t) /\ ToSet(t) = S \ M
      /\ \A x, y : <<x, y>> \in Order(t) <=> <<x, y>> \in Order(s) /\ x \notin M /\ y \notin M
  BY <1>1, DroppingElements, DroppingOrder
<1>. HIDE DEF t
<1>3. Sorted(t, level)
  BY <1>1, <1>2 DEF Sorted
<1>4. \A x \in S \ M : above[x] # None => <<above[x], x>> \in Order(t)
  BY <1>1, <1>2
<1>. QED BY <1>2, <1>3, <1>4 DEF Stacked, t

\* One is taken off, and what was stacked above it no more is.
LEMMA UnlinkStacked ==
    ASSUME NEW s, NEW S, NEW level, NEW above, Stacked(s, S, level, above), NEW r \in S,
           \A x \in S : above[x] # r
    PROVE  Stacked(Unlink(s, r), S \ {r}, level, above)
<1>1. /\ s \in Seq(Regions) /\ IsInjective(s) /\ ToSet(s) = S
      /\ Sorted(s, level) /\ \A x \in S : above[x] # None => <<above[x], x>> \in Order(s)
  BY DEF Stacked
<1>. DEFINE t == Unlink(s, r)
<1>2. /\ t \in Seq(Regions) /\ IsInjective(t) /\ ToSet(t) = S \ {r}
      /\ \A x, y : <<x, y>> \in Order(t) <=> <<x, y>> \in Order(s) /\ x # r /\ y # r
  <2>1. r \in ToSet(s)
    BY <1>1
  <2>. QED BY <1>1, <2>1, UnlinkElements, UnlinkOrder
<1>. HIDE DEF t
<1>3. Sorted(t, level)
  BY <1>1, <1>2 DEF Sorted
<1>4. \A x \in S \ {r} : above[x] # None => <<above[x], x>> \in Order(t)
  BY <1>1, <1>2
<1>. QED BY <1>2, <1>3, <1>4 DEF Stacked, t

\* On top of its level.
LEMMA WeaveOnTop ==
    ASSUME NEW s \in Seq(Regions), NEW nodes \in Seq(Regions), IsInjective(s),
           IsInjective(nodes), ToSet(s) \cap ToSet(nodes) = {},
           NEW level, \A x \in Regions : level[x] \in Nat,
           Sorted(s, level), Sorted(nodes, level)
    PROVE  LET t == Weave(s, nodes, level, FALSE)
           IN /\ t \in Seq(Regions) /\ IsInjective(t)
              /\ ToSet(t) = ToSet(s) \cup ToSet(nodes)
              /\ Sorted(t, level)
              /\ \A x, y \in ToSet(s) : <<x, y>> \in Order(t) <=> <<x, y>> \in Order(s)
              /\ \A x, y \in ToSet(nodes) :
                    <<x, y>> \in Order(nodes) => <<x, y>> \in Order(t)
              /\ \A x \in ToSet(nodes), y \in ToSet(s) :
                    level[y] <= level[x] => <<y, x>> \in Order(t)
<1>1. PICK no \in BOOLEAN : no = FALSE
  OBVIOUS
<1>. DEFINE t == Weave(s, nodes, level, no)
<1>2. /\ t \in Seq(Regions) /\ IsInjective(t) /\ ToSet(t) = ToSet(s) \cup ToSet(nodes)
      /\ Sorted(t, level)
      /\ \A x, y \in ToSet(s) : <<x, y>> \in Order(t) <=> <<x, y>> \in Order(s)
      /\ \A x, y \in ToSet(nodes) : <<x, y>> \in Order(nodes) => <<x, y>> \in Order(t)
      /\ \A x \in ToSet(nodes), y \in ToSet(s) :
            /\ ~no /\ level[y] <= level[x] => <<y, x>> \in Order(t)
            /\ no /\ level[x] <= level[y] => <<x, y>> \in Order(t)
  BY WeaveIs
<1>3. t = Weave(s, nodes, level, FALSE)
  BY <1>1, Zenon
<1>. HIDE DEF t
<1>. QED BY <1>1, <1>2, <1>3

\* A list is woven into another.
LEMMA WeaveStacked ==
    ASSUME NEW s, NEW S, NEW level, NEW above, Stacked(s, S, level, above),
           \A x \in Regions : level[x] \in Nat,
           NEW nodes \in Seq(Regions), IsInjective(nodes), Sorted(nodes, level),
           S \cap ToSet(nodes) = {},
           \A x \in ToSet(nodes) : above[x] # None =>
              \/ <<above[x], x>> \in Order(nodes)
              \/ above[x] \in S /\ level[above[x]] = level[x]
    PROVE  Stacked(Weave(s, nodes, level, FALSE), S \cup ToSet(nodes), level, above)
<1>1. /\ s \in Seq(Regions) /\ IsInjective(s) /\ ToSet(s) = S
      /\ Sorted(s, level) /\ \A x \in S : above[x] # None => <<above[x], x>> \in Order(s)
  BY DEF Stacked
<1>. DEFINE t == Weave(s, nodes, level, FALSE)
<1>2. FALSE \in BOOLEAN /\ ToSet(s) \cap ToSet(nodes) = {}
  BY <1>1
<1>3. /\ t \in Seq(Regions) /\ IsInjective(t) /\ ToSet(t) = ToSet(s) \cup ToSet(nodes)
      /\ Sorted(t, level)
      /\ \A x, y \in ToSet(s) : <<x, y>> \in Order(t) <=> <<x, y>> \in Order(s)
      /\ \A x, y \in ToSet(nodes) : <<x, y>> \in Order(nodes) => <<x, y>> \in Order(t)
      /\ \A x \in ToSet(nodes), y \in ToSet(s) :
            level[y] <= level[x] => <<y, x>> \in Order(t)
  <2>1. s \in Seq(Regions) /\ IsInjective(s) /\ Sorted(s, level)
    BY <1>1
  <2>. QED BY <1>2, <2>1, WeaveOnTop
<1>. HIDE DEF t
<1>4. ASSUME NEW x \in S \cup ToSet(nodes), above[x] # None
      PROVE  <<above[x], x>> \in Order(t)
  <2>1. CASE x \in S
    <3>1. <<above[x], x>> \in Order(s) /\ above[x] \in ToSet(s) /\ x \in ToSet(s)
      BY <1>1, <1>4, <2>1, OrderIsTotal
    <3>. QED BY <1>3, <3>1
  <2>2. CASE x \in ToSet(nodes) /\ <<above[x], x>> \in Order(nodes)
    <3>1. above[x] \in ToSet(nodes)
      BY <2>2, OrderIsTotal
    <3>. QED BY <1>3, <2>2, <3>1
  <2>3. CASE x \in ToSet(nodes) /\ above[x] \in S /\ level[above[x]] = level[x]
    <3>1. x \in Regions
      BY <2>3 DEF ToSet
    <3>2. level[above[x]] <= level[x]
      BY <2>3, <3>1
    <3>. QED BY <1>1, <1>3, <2>3, <3>2
  <2>. QED BY <1>4, <2>1, <2>2, <2>3
<1>. QED BY <1>1, <1>3, <1>4 DEF Stacked, t

\* All members of a group are moved with those that are not stacked above
\* another.
LEMMA UnweavedIs ==
    ASSUME NEW s, NEW S, NEW level, NEW above, Stacked(s, S, level, above),
           LevelTrees(level, above), NEW M \in SUBSET S,
           \A x \in M : above[x] # None => above[x] \in M,
           \A x \in Regions : above[x] \in M => x \in M
    PROVE  Unweaved(above, M) = M
<1>1. /\ s \in Seq(Regions) /\ IsInjective(s) /\ ToSet(s) = S
      /\ \A x \in S : above[x] # None => <<above[x], x>> \in Order(s)
  BY DEF Stacked
<1>2. DOMAIN above = Regions /\ IsFiniteSet(DOMAIN above)
  BY GroupsAssumption DEF LevelTrees
<1>. DEFINE R == {x \in M : above[x] = None}
            W == WithAbove(above, R)
<1>3. Unweaved(above, M) = W
  BY DEF Unweaved
<1>4. R \subseteq W /\ Closed(above, W)
  BY <1>2, WithAboveIs
<1>5. W \subseteq M
  <2>1. R \subseteq M /\ Closed(above, M)
    BY <1>2 DEF Closed
  <2>. QED BY <1>2, <2>1, WithAboveIs
<1>6. ASSUME M \ W # {} PROVE FALSE
  <2>. DEFINE I == {i \in 1 .. Len(s) : s[i] \in M \ W}
  <2>. HIDE DEF W
  <2>1. Len(s) \in Nat /\ DOMAIN s = 1 .. Len(s)
    BY <1>1
  <2>2. I # {}
    BY <1>1, <1>6, <2>1 DEF ToSet
  <2>3. I \in SUBSET Int /\ IsFiniteSet(I)
    <3>1. IsFiniteSet(1 .. Len(s)) /\ I \in SUBSET (1 .. Len(s))
      BY <2>1, FS_Interval
    <3>. HIDE DEF I
    <3>2. IsFiniteSet(I)
      BY <3>1, FS_Subset
    <3>. QED BY <2>1, <3>1, <3>2
  <2>4. PICK i \in I : \A j \in I : i <= j
    <3>. HIDE DEF I
    <3>. QED BY <2>2, <2>3, LeastInt
  <2>. DEFINE x == s[i]
  <2>5. i \in 1 .. Len(s) /\ x \in M /\ x \notin W /\ x \in S
    BY <2>4
  <2>6. above[x] # None
    BY <1>4, <2>5
  <2>7. above[x] \in M /\ <<above[x], x>> \in Order(s)
    BY <1>1, <2>5, <2>6
  <2>8. PICK j \in 1 .. Len(s), k \in 1 .. Len(s) : j <= k /\ s[j] = above[x] /\ s[k] = x
    BY <1>1, <2>7, OrderOf
  <2>9. k = i
    BY <1>1, <2>1, <2>5, <2>8 DEF IsInjective
  <2>10. above[x] \notin W
    <3>1. x \in DOMAIN above
      BY <1>1, <1>2, <2>5 DEF ToSet
    <3>. QED BY <1>4, <2>5, <3>1 DEF Closed
  <2>11. j \in I
    BY <2>7, <2>8, <2>10
  <2>12. j = i
    BY <2>4, <2>5, <2>8, <2>9, <2>11
  <2>13. above[x] = x /\ x \in Regions
    BY <1>1, <2>5, <2>8, <2>12 DEF ToSet
  <2>. QED BY <2>6, <2>13 DEF LevelTrees
<1>. QED BY <1>3, <1>5, <1>6

-----------------------------------------------------------------------------
(* The invariant, of any state of the groups that a handler passes through. *)

Nodes == [mgr : Groups \cup {None}, level : Nat, above : Regions \cup {None}]
GroupStates ==
    [win : Windows \cup {None}, bottom : Regions \cup {None}, phs : Seq(PHolders)]
Places == [level : Nat, above : Regions \cup {None}, bottom : BOOLEAN]
Worlds ==
    [stack : [Windows -> Seq(Regions)], node : [Regions -> Nodes],
     mapped : SUBSET Regions, group : [Groups -> GroupStates], up : SUBSET Groups,
     phs : SUBSET PHolders, place : [PHolders -> Places],
     rings : SUBSET Seq(PHolders), ret : [Regions -> PHolders \cup {None}],
     lost : SUBSET PHolders, dead : Seq(PHolders),
     failed : {"no", "loop", "assertion"}]

\* Whose nodes are on the list of the window v.
Shows(q, v) ==
    {r \in Regions : q.node[r].mgr # None /\ q.group[q.node[r].mgr].win = v}
\* What is stacked above another is a member of the same group, at its level.
TreesAgree(q) ==
    \A r \in Regions : q.node[r].above # None =>
        /\ q.node[r].above # r /\ q.node[r].mgr # None
        /\ q.node[q.node[r].above].mgr = q.node[r].mgr
        /\ q.node[q.node[r].above].level = q.node[r].level
MembersAgree(q) ==
    /\ \A r \in Regions : q.node[r].mgr # None => q.node[r].mgr \in Alive(q)
    /\ TreesAgree(q)
    /\ \A v \in Windows : Stacked(q.stack[v], Shows(q, v), Level(q), Above(q))
    /\ \A g \in Groups : q.group[g].bottom # None =>
           q.node[q.group[g].bottom].mgr = g
    /\ q.up \subseteq Alive(q)

\* A placeholder is on one list at most, once, and it is one there is.
ListsApart(q) ==
    /\ \A g \in Groups :
        /\ IsInjective(q.group[g].phs) /\ ToSet(q.group[g].phs) \subseteq q.phs
        /\ g \notin Alive(q) => q.group[g].phs = <<>>
        /\ \A h \in Groups \ {g} : ToSet(q.group[g].phs) \cap ToSet(q.group[h].phs) = {}
        /\ \A s \in q.rings : ToSet(q.group[g].phs) \cap ToSet(s) = {}
    /\ \A s \in q.rings :
        /\ IsInjective(s) /\ ToSet(s) \subseteq q.phs
        /\ \A t \in q.rings \ {s} : ToSet(s) \cap ToSet(t) = {}
\* The placeholder of a region that is to return is no other's, and is neither
\* lost nor to be destroyed.
ReturnsApart(q) ==
    /\ q.lost \subseteq q.phs
    /\ \A r \in Regions : q.ret[r] # None =>
        /\ q.ret[r] \in q.phs \ (q.lost \cup ToSet(q.dead))
        /\ \A x \in Regions : q.ret[x] = q.ret[r] => x = r

Agree(q) == q \in Worlds /\ MembersAgree(q) /\ ListsApart(q) /\ ReturnsApart(q)

-----------------------------------------------------------------------------
(* What does not matter to the parts of it. *)

\* The types of the fields.
LEMMA WorldFields ==
    ASSUME NEW q \in Worlds
    PROVE  /\ q.stack \in [Windows -> Seq(Regions)] /\ q.node \in [Regions -> Nodes]
           /\ q.mapped \subseteq Regions /\ q.group \in [Groups -> GroupStates]
           /\ q.up \subseteq Groups /\ q.phs \subseteq PHolders
           /\ q.place \in [PHolders -> Places] /\ q.rings \subseteq Seq(PHolders)
           /\ q.ret \in [Regions -> PHolders \cup {None}]
           /\ q.lost \subseteq PHolders /\ q.dead \in Seq(PHolders)
           /\ q.failed \in {"no", "loop", "assertion"}
           /\ \A r \in Regions :
                 /\ q.node[r].mgr \in Groups \cup {None} /\ q.node[r].level \in Nat
                 /\ q.node[r].above \in Regions \cup {None}
           /\ \A g \in Groups :
                 /\ q.group[g].win \in Windows \cup {None}
                 /\ q.group[g].bottom \in Regions \cup {None}
                 /\ q.group[g].phs \in Seq(PHolders)
           /\ \A p \in PHolders :
                 /\ q.place[p].level \in Nat /\ q.place[p].above \in Regions \cup {None}
                 /\ q.place[p].bottom \in BOOLEAN
BY DEF Worlds, Nodes, GroupStates, Places

LEMMA MembersFrame ==
    ASSUME NEW q \in Worlds, NEW u \in Worlds, MembersAgree(q),
           u.stack = q.stack, u.node = q.node, u.up \subseteq Alive(q),
           \A g \in Groups : u.group[g].win = q.group[g].win
                             /\ u.group[g].bottom = q.group[g].bottom
    PROVE  MembersAgree(u)
<1>1. Level(u) = Level(q) /\ Above(u) = Above(q) /\ Alive(u) = Alive(q)
  BY DEF Level, Above, Alive
<1>2. \A v : Shows(u, v) = Shows(q, v)
  BY WorldFields DEF Shows
<1>3. TreesAgree(u)
  BY DEF TreesAgree, MembersAgree
<1>. QED BY <1>1, <1>2, <1>3 DEF MembersAgree

LEMMA ListsFrame ==
    ASSUME NEW q, NEW u, ListsApart(q),
           u.phs = q.phs, u.rings = q.rings, Alive(q) \subseteq Alive(u),
           \A g \in Groups : u.group[g].phs = q.group[g].phs
    PROVE  ListsApart(u)
BY DEF ListsApart

LEMMA ReturnsFrame ==
    ASSUME NEW q, NEW u, ReturnsApart(q), q.phs \subseteq u.phs, u.lost = q.lost,
           u.ret = q.ret, u.dead = q.dead
    PROVE  ReturnsApart(u)
BY DEF ReturnsApart

\* region_unset_return: nothing else changes.
LEMMA UnsetReturnIs ==
    ASSUME NEW q \in Worlds, NEW r \in Regions
    PROVE  LET u == UnsetReturn(q, r)
           IN /\ u \in Worlds
              /\ u.stack = q.stack /\ u.node = q.node /\ u.mapped = q.mapped
              /\ u.group = q.group /\ u.up = q.up /\ u.phs = q.phs
              /\ u.place = q.place /\ u.rings = q.rings /\ u.lost = q.lost
              /\ u.failed = q.failed
              /\ u.ret = [q.ret EXCEPT ![r] = None]
              /\ u.dead = IF q.ret[r] = None THEN q.dead
                          ELSE Append(q.dead, q.ret[r])
<1>. DEFINE u == UnsetReturn(q, r)
<1>0. q.ret \in [Regions -> PHolders \cup {None}] /\ q.dead \in Seq(PHolders)
  BY WorldFields
<1>1. CASE q.ret[r] = None
  <2>1. u = q
    BY <1>1 DEF UnsetReturn
  <2>2. q.ret = [q.ret EXCEPT ![r] = None]
    BY <1>0, <1>1
  <2>. QED BY <1>1, <2>1, <2>2
<1>2. CASE q.ret[r] # None
  <2>1. u = [q EXCEPT !.ret[r] = None, !.dead = Append(@, q.ret[r])]
    BY <1>2 DEF UnsetReturn
  <2>2. Append(q.dead, q.ret[r]) \in Seq(PHolders)
        /\ [q.ret EXCEPT ![r] = None] \in [Regions -> PHolders \cup {None}]
    BY <1>0, <1>2
  <2>. QED BY <1>2, <2>1, <2>2 DEF Worlds
<1>. QED BY <1>1, <1>2

\* The placeholder that is forgotten is one to be destroyed.
LEMMA UnsetReturnAgrees ==
    ASSUME NEW q, Agree(q), NEW r \in Regions
    PROVE  Agree(UnsetReturn(q, r))
<1>. DEFINE u == UnsetReturn(q, r)
<1>1. q \in Worlds /\ MembersAgree(q) /\ ListsApart(q) /\ ReturnsApart(q)
  BY DEF Agree
<1>2. /\ u \in Worlds /\ u.stack = q.stack /\ u.node = q.node
      /\ u.group = q.group /\ u.up = q.up /\ u.phs = q.phs
      /\ u.rings = q.rings /\ u.lost = q.lost
      /\ u.ret = [q.ret EXCEPT ![r] = None]
      /\ u.dead = IF q.ret[r] = None THEN q.dead ELSE Append(q.dead, q.ret[r])
  BY <1>1, UnsetReturnIs
<1>. HIDE DEF u
<1>3. MembersAgree(u)
  <2>1. u.up \subseteq Alive(q)
    BY <1>1, <1>2 DEF MembersAgree
  <2>. QED BY <1>1, <1>2, <2>1, MembersFrame
<1>4. ListsApart(u)
  <2>1. Alive(u) = Alive(q)
    BY <1>2 DEF Alive
  <2>. QED BY <1>1, <1>2, <2>1, ListsFrame
<1>5. ReturnsApart(u)
  <2>1. q.ret \in [Regions -> PHolders \cup {None}] /\ q.dead \in Seq(PHolders)
    BY <1>1, WorldFields
  <2>2. ToSet(u.dead) = IF q.ret[r] = None THEN ToSet(q.dead)
                        ELSE ToSet(q.dead) \cup {q.ret[r]}
    <3>1. CASE q.ret[r] = None
      BY <1>2, <3>1
    <3>2. CASE q.ret[r] # None
      <4>1. q.ret[r] \in PHolders /\ u.dead = Append(q.dead, q.ret[r])
        BY <1>2, <2>1, <3>2
      <4>2. ToSet(Append(q.dead, q.ret[r])) = ToSet(q.dead) \cup {q.ret[r]}
        BY <2>1, <4>1, AppendElements
      <4>. QED BY <3>2, <4>1, <4>2
    <3>. QED BY <3>1, <3>2
  <2>3. \A x \in Regions : u.ret[x] = IF x = r THEN None ELSE q.ret[x]
    BY <1>2, <2>1
  <2>. QED BY <1>1, <1>2, <2>2, <2>3 DEF ReturnsApart
<1>. QED BY <1>2, <1>3, <1>4, <1>5 DEF Agree, u

-----------------------------------------------------------------------------
(* Members that leave and come.                                            *)

\* A node is on the list of its group's window, and on no other.
LEMMA MemberIsOnList ==
    ASSUME NEW q \in Worlds, MembersAgree(q), NEW r \in Regions, q.node[r].mgr # None
    PROVE  LET g == q.node[r].mgr
               v == q.group[g].win
           IN /\ g \in Groups /\ g \in Alive(q) /\ v \in Windows
              /\ r \in Shows(q, v) /\ r \in ToSet(q.stack[v])
<1>1. /\ q.node[r].mgr \in Groups
      /\ q.group[q.node[r].mgr].win \in Windows \cup {None}
  BY WorldFields
<1>2. q.node[r].mgr \in Alive(q)
  BY DEF MembersAgree
<1>3. q.group[q.node[r].mgr].win \in Windows
  BY <1>1, <1>2 DEF Alive
<1>4. r \in Shows(q, q.group[q.node[r].mgr].win)
  BY DEF Shows
<1>. QED BY <1>1, <1>2, <1>3, <1>4 DEF MembersAgree, Stacked

\* group_managed_remove
LEMMA RemovedIs ==
    ASSUME NEW q \in Worlds, MembersAgree(q), NEW r \in Regions, q.node[r].mgr # None
    PROVE  LET u == Removed(q, r)
               g == q.node[r].mgr
               v == q.group[g].win
           IN /\ u \in Worlds
              /\ \A z \in Windows : u.stack[z] = IF z = v THEN Unlink(q.stack[z], r)
                                               ELSE q.stack[z]
              /\ u.node[r] = NoNode
              /\ \A x \in Regions \ {r} :
                    /\ u.node[x].mgr = q.node[x].mgr
                    /\ u.node[x].level = q.node[x].level
                    /\ u.node[x].above = IF q.node[x].above = r THEN None
                                         ELSE q.node[x].above
              /\ u.mapped = q.mapped \ {r}
              /\ \A h \in Groups :
                    /\ u.group[h].win = q.group[h].win
                    /\ u.group[h].phs = q.group[h].phs
                    /\ u.group[h].bottom =
                         IF h = g /\ q.group[h].bottom = r THEN None
                         ELSE q.group[h].bottom
              /\ u.up = q.up /\ u.phs = q.phs /\ u.place = q.place
              /\ u.rings = q.rings /\ u.lost = q.lost /\ u.failed = q.failed
              /\ u.ret = [q.ret EXCEPT ![r] = None]
              /\ u.dead = IF q.ret[r] = None THEN q.dead
                          ELSE Append(q.dead, q.ret[r])
<1>. DEFINE g == q.node[r].mgr
            v == q.group[g].win
            above == Unstacked(Above(q), r)
            stack == [q.stack EXCEPT ![v] = Unlink(@, r)]
            node == [x \in Regions |-> IF x = r THEN NoNode
                                       ELSE [q.node[x] EXCEPT !.above = above[x]]]
            group == [q.group EXCEPT ![g].bottom = IF @ = r THEN None ELSE @]
            b == [q EXCEPT !.stack = stack, !.node = node, !.mapped = @ \ {r},
                           !.group = group]
<1>1. /\ g \in Groups /\ v \in Windows /\ r \in ToSet(q.stack[v])
      /\ q.stack[v] \in Seq(Regions) /\ IsInjective(q.stack[v])
  <2>1. g \in Groups /\ v \in Windows /\ r \in ToSet(q.stack[v])
    BY MemberIsOnList
  <2>. QED BY <2>1 DEF MembersAgree, Stacked
<1>2. \A x \in Regions : above[x] = IF r \in {x, q.node[x].above} THEN None
                                    ELSE q.node[x].above
  BY DEF Above, Unstacked
<1>3. /\ Removed(q, r) = UnsetReturn(b, r)
  BY DEF Removed
<1>4. stack \in [Windows -> Seq(Regions)]
  <2>1. Unlink(q.stack[v], r) \in Seq(Regions)
    BY <1>1, UnlinkElements
  <2>. QED BY <1>1, <2>1, WorldFields
<1>5. node \in [Regions -> Nodes]
  <2>. SUFFICES ASSUME NEW x \in Regions
                PROVE  (IF x = r THEN NoNode
                        ELSE [q.node[x] EXCEPT !.above = above[x]]) \in Nodes
    OBVIOUS
  <2>1. above[x] \in Regions \cup {None}
    BY <1>2, WorldFields
  <2>2. q.node[x] \in Nodes
    BY WorldFields
  <2>3. NoNode \in Nodes
    BY DEF NoNode, Nodes, Normal
  <2>. HIDE DEF above
  <2>. QED BY <2>1, <2>2, <2>3 DEF Nodes
<1>6. group \in [Groups -> GroupStates]
  <2>1. q.group \in [Groups -> GroupStates]
    BY WorldFields
  <2>2. q.group[g] \in GroupStates
    BY <1>1, <2>1
  <2>3. [q.group[g] EXCEPT !.bottom = IF @ = r THEN None ELSE @] \in GroupStates
    BY <2>2 DEF GroupStates
  <2>. QED BY <1>1, <2>1, <2>3
<1>7. \A x \in Regions \ {r} :
        /\ node[x].mgr = q.node[x].mgr /\ node[x].level = q.node[x].level
        /\ node[x].above = IF q.node[x].above = r THEN None ELSE q.node[x].above
  <2>. SUFFICES ASSUME NEW x \in Regions \ {r}
                PROVE  /\ node[x].mgr = q.node[x].mgr
                       /\ node[x].level = q.node[x].level
                       /\ node[x].above = IF q.node[x].above = r THEN None
                                          ELSE q.node[x].above
    OBVIOUS
  <2>1. above[x] = IF q.node[x].above = r THEN None ELSE q.node[x].above
    BY <1>2
  <2>2. q.node[x] \in Nodes
    BY WorldFields
  <2>. HIDE DEF above
  <2>3. node[x] = [q.node[x] EXCEPT !.above = above[x]]
    OBVIOUS
  <2>. HIDE DEF node
  <2>. QED BY <2>1, <2>2, <2>3 DEF Nodes
<1>8. node[r] = NoNode
  OBVIOUS
<1>12. \A h \in Groups :
         /\ group[h].win = q.group[h].win /\ group[h].phs = q.group[h].phs
         /\ group[h].bottom = IF h = g /\ q.group[h].bottom = r THEN None
                              ELSE q.group[h].bottom
  <2>. SUFFICES ASSUME NEW h \in Groups
                PROVE  /\ group[h].win = q.group[h].win
                       /\ group[h].phs = q.group[h].phs
                       /\ group[h].bottom =
                            IF h = g /\ q.group[h].bottom = r THEN None
                            ELSE q.group[h].bottom
    OBVIOUS
  <2>1. q.group \in [Groups -> GroupStates] /\ q.group[h] \in GroupStates
    BY WorldFields
  <2>. HIDE DEF g
  <2>2. group[h] = IF h = g
                   THEN [q.group[h] EXCEPT !.bottom = IF @ = r THEN None ELSE @]
                   ELSE q.group[h]
    BY <1>1, <2>1
  <2>. HIDE DEF group
  <2>. QED BY <2>1, <2>2 DEF GroupStates
<1>13. \A z \in Windows : stack[z] = IF z = v THEN Unlink(q.stack[z], r) ELSE q.stack[z]
  BY <1>1, WorldFields
<1>. HIDE DEF stack, node, group
<1>9. /\ b \in Worlds /\ b.stack = stack /\ b.node = node
      /\ b.mapped = q.mapped \ {r} /\ b.group = group
      /\ b.up = q.up /\ b.phs = q.phs /\ b.place = q.place /\ b.rings = q.rings
      /\ b.lost = q.lost /\ b.failed = q.failed /\ b.ret = q.ret /\ b.dead = q.dead
  BY <1>4, <1>5, <1>6 DEF Worlds
<1>. HIDE DEF b
<1>. DEFINE u == UnsetReturn(b, r)
<1>10. /\ u \in Worlds
       /\ u.stack = b.stack /\ u.node = b.node /\ u.mapped = b.mapped
       /\ u.group = b.group /\ u.up = b.up /\ u.phs = b.phs
       /\ u.place = b.place /\ u.rings = b.rings /\ u.lost = b.lost
       /\ u.failed = b.failed
       /\ u.ret = [b.ret EXCEPT ![r] = None]
       /\ u.dead = IF b.ret[r] = None THEN b.dead ELSE Append(b.dead, b.ret[r])
  BY <1>9, UnsetReturnIs
<1>. HIDE DEF u
<1>11. Removed(q, r) = u
  BY <1>3 DEF u
<1>. QED BY <1>7, <1>8, <1>9, <1>10, <1>11, <1>12, <1>13

\* What was stacked above the one that leaves no more is.
LEMMA RemovedAgrees ==
    ASSUME NEW q, Agree(q), NEW r \in Regions, q.node[r].mgr # None
    PROVE  Agree(Removed(q, r))
<1>. DEFINE u == Removed(q, r)
            g == q.node[r].mgr
            v == q.group[g].win
<1>1. q \in Worlds /\ MembersAgree(q) /\ ListsApart(q) /\ ReturnsApart(q)
  BY DEF Agree
<1>2. /\ u \in Worlds
      /\ \A z \in Windows : u.stack[z] = IF z = v THEN Unlink(q.stack[z], r)
                                       ELSE q.stack[z]
      /\ u.node[r] = NoNode
      /\ \A x \in Regions \ {r} :
            /\ u.node[x].mgr = q.node[x].mgr
            /\ u.node[x].level = q.node[x].level
            /\ u.node[x].above = IF q.node[x].above = r THEN None
                                 ELSE q.node[x].above
      /\ \A h \in Groups :
            /\ u.group[h].win = q.group[h].win
            /\ u.group[h].phs = q.group[h].phs
            /\ u.group[h].bottom =
                 IF h = g /\ q.group[h].bottom = r THEN None
                 ELSE q.group[h].bottom
      /\ u.up = q.up /\ u.phs = q.phs /\ u.rings = q.rings /\ u.lost = q.lost
      /\ u.ret = [q.ret EXCEPT ![r] = None]
      /\ u.dead = IF q.ret[r] = None THEN q.dead ELSE Append(q.dead, q.ret[r])
  BY <1>1, RemovedIs
<1>. HIDE DEF u
<1>3. /\ g \in Groups /\ g \in Alive(q) /\ v \in Windows /\ r \in Shows(q, v)
  BY <1>1, MemberIsOnList
<1>. HIDE DEF g, v
<1>4. \A h \in Groups : /\ u.group[h].win = q.group[h].win
                        /\ u.group[h].phs = q.group[h].phs
                        /\ u.group[h].bottom =
                             IF h = g /\ q.group[h].bottom = r THEN None
                             ELSE q.group[h].bottom
  BY <1>2
<1>5. \A x \in Regions \ {r} :
        /\ u.node[x].mgr = q.node[x].mgr /\ u.node[x].level = q.node[x].level
        /\ u.node[x].above = IF q.node[x].above = r THEN None ELSE q.node[x].above
  BY <1>2
<1>6. u.node[r].mgr = None /\ u.node[r].above = None /\ u.node[r].level \in Nat
  BY <1>2 DEF NoNode, Normal
<1>7. Alive(u) = Alive(q)
  BY <1>4 DEF Alive
<1>8. \A x \in Regions : q.node[x].above \in Regions \cup {None}
                         /\ q.node[x].mgr \in Groups \cup {None}
  BY <1>1, WorldFields
<1>9. \A x \in Regions : q.node[x].above # None =>
          /\ q.node[x].above # x /\ q.node[x].mgr # None
          /\ q.node[q.node[x].above].mgr = q.node[x].mgr
          /\ q.node[q.node[x].above].level = q.node[x].level
  BY <1>1 DEF MembersAgree, TreesAgree
<1>10. TreesAgree(u)
  <2>. SUFFICES ASSUME NEW x \in Regions, u.node[x].above # None
                PROVE  /\ u.node[x].above # x /\ u.node[x].mgr # None
                       /\ u.node[u.node[x].above].mgr = u.node[x].mgr
                       /\ u.node[u.node[x].above].level = u.node[x].level
    BY DEF TreesAgree
  <2>1. x # r
    BY <1>6
  <2>2. q.node[x].above # r /\ u.node[x].above = q.node[x].above
    BY <1>5, <2>1
  <2>. DEFINE a == q.node[x].above
  <2>3. a \in Regions \ {r} /\ a # None
    BY <1>8, <2>2
  <2>4. a # x /\ q.node[x].mgr # None /\ q.node[a].mgr = q.node[x].mgr
        /\ q.node[a].level = q.node[x].level
    BY <1>9, <2>2
  <2>5. u.node[a].mgr = q.node[a].mgr /\ u.node[a].level = q.node[a].level
    BY <1>5, <2>3
  <2>. HIDE DEF a
  <2>6. u.node[x].above = a
    BY <2>2 DEF a
  <2>. QED BY <1>5, <2>1, <2>4, <2>5, <2>6
<1>11. \A z \in Windows : Shows(u, z) = Shows(q, z) \ {r}
  <2>. SUFFICES ASSUME NEW z \in Windows, NEW x \in Regions
                PROVE  x \in Shows(u, z) <=> x \in Shows(q, z) \ {r}
    BY DEF Shows
  <2>1. CASE x = r
    BY <1>6, <2>1 DEF Shows
  <2>2. CASE x # r
    <3>1. u.node[x].mgr = q.node[x].mgr
      BY <1>5, <2>2
    <3>2. q.node[x].mgr # None =>
             u.group[q.node[x].mgr].win = q.group[q.node[x].mgr].win
      BY <1>4, <1>8
    <3>. QED BY <2>2, <3>1, <3>2 DEF Shows
  <2>. QED BY <2>1, <2>2
<1>12. \A x \in Regions :
         /\ x # r => Level(u)[x] = Level(q)[x]
         /\ Above(u)[x] = IF x = r \/ q.node[x].above = r THEN None ELSE Above(q)[x]
         /\ Above(q)[x] = q.node[x].above
  BY <1>5, <1>6 DEF Level, Above
<1>13. ASSUME NEW z \in Windows
       PROVE  Stacked(u.stack[z], Shows(u, z), Level(u), Above(u))
  <2>1. Stacked(q.stack[z], Shows(q, z), Level(q), Above(q))
    BY <1>1 DEF MembersAgree
  <2>2. Shows(q, z) \subseteq Regions
    BY DEF Shows
  <2>3. q.stack \in [Windows -> Seq(Regions)]
    BY <1>1, WorldFields
  <2>. DEFINE gone == [x \in Regions |->
                         IF x = r \/ q.node[x].above = r THEN None ELSE Above(q)[x]]
  <2>4. CASE z = v
    <3>1. u.stack[z] = Unlink(q.stack[z], r) /\ r \in Shows(q, z)
      BY <1>2, <1>3, <2>3, <2>4
    <3>2. Stacked(q.stack[z], Shows(q, z), Level(q), gone)
      <4>1. \A x \in Shows(q, z) : gone[x] = Above(q)[x] \/ gone[x] = None
        BY <2>2
      <4>. HIDE DEF gone
      <4>. QED BY <2>1, <4>1, StackedSame
    <3>3. \A x \in Shows(q, z) : gone[x] # r
      <4>1. r # None
        BY GroupsAssumption
      <4>. QED BY <1>12, <2>2, <4>1
    <3>4. Stacked(u.stack[z], Shows(u, z), Level(q), gone)
      <4>. HIDE DEF gone
      <4>. QED BY <1>11, <3>1, <3>2, <3>3, UnlinkStacked
    <3>5. \A x \in Shows(u, z) : /\ Level(u)[x] = Level(q)[x]
                                 /\ Above(u)[x] = gone[x]
      BY <1>11, <1>12, <2>2
    <3>. HIDE DEF gone
    <3>. QED BY <3>4, <3>5, StackedSame
  <2>5. CASE z # v
    <3>1. u.stack[z] = q.stack[z]
      BY <1>2, <1>3, <2>3, <2>5
    <3>2. r \notin Shows(q, z)
      BY <1>3, <2>5 DEF Shows
    <3>3. Shows(u, z) = Shows(q, z)
      BY <1>11, <3>2
    <3>4. \A x \in Shows(q, z) :
             /\ Level(u)[x] = Level(q)[x]
             /\ Above(u)[x] = Above(q)[x] \/ Above(u)[x] = None
      BY <1>12, <2>2, <3>2
    <3>. QED BY <2>1, <3>1, <3>3, <3>4, StackedSame
  <2>. QED BY <2>4, <2>5
<1>14. \A h \in Groups : u.group[h].bottom # None => u.node[u.group[h].bottom].mgr = h
  <2>. SUFFICES ASSUME NEW h \in Groups, u.group[h].bottom # None
                PROVE  u.node[u.group[h].bottom].mgr = h
    OBVIOUS
  <2>. DEFINE b == q.group[h].bottom
  <2>1. u.group[h].bottom = b /\ b # None /\ b \in Regions
    BY <1>1, <1>4, WorldFields
  <2>2. q.node[b].mgr = h
    BY <1>1, <2>1 DEF MembersAgree
  <2>3. b # r
    <3>1. b = r => h = g
      BY <2>2 DEF g
    <3>. QED BY <1>4, <2>1, <3>1
  <2>. HIDE DEF b
  <2>. QED BY <1>5, <2>1, <2>2, <2>3
<1>15. MembersAgree(u)
  <2>1. \A x \in Regions : u.node[x].mgr # None => u.node[x].mgr \in Alive(u)
    BY <1>1, <1>5, <1>6, <1>7 DEF MembersAgree
  <2>2. u.up \subseteq Alive(u)
    BY <1>1, <1>2, <1>7 DEF MembersAgree
  <2>. QED BY <1>10, <1>13, <1>14, <2>1, <2>2 DEF MembersAgree
<1>16. ListsApart(u)
  BY <1>1, <1>2, <1>4, <1>7, ListsFrame
<1>17. ReturnsApart(u)
  <2>. DEFINE n == UnsetReturn(q, r)
  <2>1. ReturnsApart(n)
    BY UnsetReturnAgrees DEF Agree
  <2>2. u.lost = n.lost /\ u.ret = n.ret /\ u.dead = n.dead /\ u.phs = n.phs
    BY <1>1, <1>2, UnsetReturnIs
  <2>. HIDE DEF n
  <2>. QED BY <2>1, <2>2, ReturnsFrame
<1>. QED BY <1>2, <1>15, <1>16, <1>17 DEF Agree, u

\* region_detach_manager.  Nothing is lost of what concerns the others.
LEMMA DetachedIs ==
    ASSUME NEW q, Agree(q), NEW r \in Regions
    PROVE  LET u == Detached(q, r)
           IN /\ Agree(u) /\ u.node[r].mgr = None
              /\ \A x \in Regions \ {r} :
                   /\ u.node[x].mgr = q.node[x].mgr
                   /\ u.node[x].level = q.node[x].level
                   /\ u.node[x].above = IF q.node[x].above = r THEN None
                                        ELSE q.node[x].above
              /\ \A h \in Groups :
                   /\ u.group[h].win = q.group[h].win
                   /\ u.group[h].phs = q.group[h].phs
                   /\ u.group[h].bottom = IF q.group[h].bottom = r THEN None
                                          ELSE q.group[h].bottom
              /\ u.mapped \subseteq q.mapped
              /\ u.up = q.up /\ u.phs = q.phs /\ u.place = q.place
              /\ u.rings = q.rings /\ u.lost = q.lost /\ u.failed = q.failed
              /\ u.ret[r] = None
              /\ \A x \in Regions \ {r} : u.ret[x] = q.ret[x]
              /\ u.dead = IF q.ret[r] = None THEN q.dead
                          ELSE Append(q.dead, q.ret[r])
<1>. DEFINE u == Detached(q, r)
<1>1. q \in Worlds /\ MembersAgree(q)
  BY DEF Agree
<1>2. /\ \A x \in Regions : q.node[x].above # None =>
              q.node[x].mgr # None /\ q.node[q.node[x].above].mgr = q.node[x].mgr
      /\ \A h \in Groups : q.group[h].bottom # None => q.node[q.group[h].bottom].mgr = h
      /\ \A h \in Groups : h # None
      /\ r # None
  BY <1>1, GroupsAssumption DEF MembersAgree, TreesAgree
<1>5. q.ret \in [Regions -> PHolders \cup {None}]
  BY <1>1, WorldFields
<1>3. CASE q.node[r].mgr = None
  <2>1. u = UnsetReturn(q, r)
    BY <1>3 DEF Detached
  <2>2. /\ u.node = q.node /\ u.mapped = q.mapped
        /\ u.group = q.group /\ u.up = q.up /\ u.phs = q.phs
        /\ u.place = q.place /\ u.rings = q.rings /\ u.lost = q.lost
        /\ u.failed = q.failed
        /\ u.ret = [q.ret EXCEPT ![r] = None]
        /\ u.dead = IF q.ret[r] = None THEN q.dead ELSE Append(q.dead, q.ret[r])
    BY <1>1, <2>1, UnsetReturnIs
  <2>3. Agree(u)
    BY <2>1, UnsetReturnAgrees
  <2>. HIDE DEF u
  <2>4. \A x \in Regions : q.node[x].above # r
    BY <1>2, <1>3
  <2>5. \A h \in Groups : q.group[h].bottom # r
    BY <1>2, <1>3
  <2>6. u.ret[r] = None /\ \A x \in Regions \ {r} : u.ret[x] = q.ret[x]
    BY <1>5, <2>2
  <2>. QED BY <1>3, <2>2, <2>3, <2>4, <2>5, <2>6 DEF u
<1>4. CASE q.node[r].mgr # None
  <2>. DEFINE g == q.node[r].mgr
  <2>1. u = Removed(q, r)
    BY <1>4 DEF Detached
  <2>2. /\ u.node[r] = NoNode
        /\ \A x \in Regions \ {r} :
              /\ u.node[x].mgr = q.node[x].mgr
              /\ u.node[x].level = q.node[x].level
              /\ u.node[x].above = IF q.node[x].above = r THEN None
                                   ELSE q.node[x].above
        /\ u.mapped = q.mapped \ {r}
        /\ \A h \in Groups :
              /\ u.group[h].win = q.group[h].win
              /\ u.group[h].phs = q.group[h].phs
              /\ u.group[h].bottom =
                   IF h = g /\ q.group[h].bottom = r THEN None
                   ELSE q.group[h].bottom
        /\ u.up = q.up /\ u.phs = q.phs /\ u.place = q.place
        /\ u.rings = q.rings /\ u.lost = q.lost /\ u.failed = q.failed
        /\ u.ret = [q.ret EXCEPT ![r] = None]
        /\ u.dead = IF q.ret[r] = None THEN q.dead ELSE Append(q.dead, q.ret[r])
    BY <1>1, <1>4, <2>1, RemovedIs
  <2>3. Agree(u)
    BY <1>4, <2>1, RemovedAgrees
  <2>. HIDE DEF u
  <2>6. \A h \in Groups : h # g => q.group[h].bottom # r
    BY <1>2
  <2>7. \A h \in Groups :
          u.group[h].bottom = IF q.group[h].bottom = r THEN None
                              ELSE q.group[h].bottom
    BY <2>2, <2>6
  <2>8. u.node[r].mgr = None
    BY <2>2 DEF NoNode
  <2>9. u.ret[r] = None /\ \A x \in Regions \ {r} : u.ret[x] = q.ret[x]
    BY <1>5, <2>2
  <2>. QED BY <2>2, <2>3, <2>7, <2>8, <2>9 DEF u
<1>. QED BY <1>3, <1>4

\* What a new member is stacked above: nothing, unless it is a member too.
StackAbove(q, g, place) ==
    IF place.above \in Members(q, g) THEN place.above ELSE None
\* group_do_attach_final, of a region that has no group.
LEMMA AttachedIs ==
    ASSUME NEW q, Agree(q), NEW g \in Alive(q), NEW r \in Regions,
           q.node[r].mgr = None, NEW place \in Places, NEW wasMapped \in BOOLEAN
    PROVE  LET u == Attached(q, g, r, place, wasMapped)
               a == StackAbove(q, g, place)
           IN /\ Agree(u)
              /\ u.node[r].mgr = g /\ u.node[r].above = a
              /\ u.node[r].level = IF a = None THEN place.level ELSE q.node[a].level
              /\ \A x \in Regions \ {r} : u.node[x] = q.node[x]
              /\ u.mapped \subseteq q.mapped \cup {r}
              /\ \A h \in Groups : u.group[h].win = q.group[h].win
                                   /\ u.group[h].phs = q.group[h].phs
              /\ \A h \in Groups \ {g} : u.group[h].bottom = q.group[h].bottom
              /\ place.bottom => u.group[g].bottom = r
              /\ ~place.bottom => u.group[g].bottom = q.group[g].bottom
              /\ u.up = q.up /\ u.phs = q.phs /\ u.place = q.place
              /\ u.rings = q.rings /\ u.lost = q.lost /\ u.failed = q.failed
              /\ u.ret = q.ret /\ u.dead = q.dead
<1>. DEFINE u == Attached(q, g, r, place, wasMapped)
            a == StackAbove(q, g, place)
            l == IF a = None THEN place.level ELSE q.node[a].level
            v == q.group[g].win
            n == [mgr |-> g, level |-> l, above |-> a]
            node == [q.node EXCEPT ![r] = n]
            linked == [q EXCEPT !.node[r] = n]
            new == Weave(q.stack[v], <<r>>, Level(linked), FALSE)
            stack == [q.stack EXCEPT ![v] = new]
            mapped == IF g \in q.up \/ wasMapped THEN q.mapped \cup {r} ELSE q.mapped
            group == [q.group EXCEPT ![g].bottom = IF place.bottom THEN r ELSE @]
<1>1. q \in Worlds /\ MembersAgree(q) /\ ListsApart(q) /\ ReturnsApart(q)
  BY DEF Agree
<1>2. /\ g \in Groups /\ g # None /\ v \in Windows /\ r # None
      /\ place.level \in Nat /\ place.above \in Regions \cup {None}
      /\ place.bottom \in BOOLEAN
  <2>1. g \in Groups /\ v # None /\ q.group[g].win \in Windows \cup {None}
    BY <1>1, WorldFields DEF Alive
  <2>2. None \notin Groups /\ None \notin Regions
    BY GroupsAssumption
  <2>. QED BY <2>1, <2>2 DEF Places
<1>3. /\ a \in Regions \cup {None}
      /\ a # None => a \in Regions /\ q.node[a].mgr = g /\ a # r
  BY <1>2 DEF StackAbove, Members
<1>4. l \in Nat /\ n \in Nodes
  <2>1. \A x \in Regions : q.node[x].level \in Nat
    BY <1>1, WorldFields
  <2>2. l \in Nat
    BY <1>2, <1>3, <2>1
  <2>. HIDE DEF l, a
  <2>. QED BY <1>2, <1>3, <2>2 DEF Nodes
<1>5. u = [q EXCEPT !.node = node, !.stack = stack, !.mapped = mapped, !.group = group]
  <2>1. l = IF a = None THEN place.level ELSE q.node[a].level
    OBVIOUS
  <2>2. linked \in Worlds /\ linked = [q EXCEPT !.node = node]
    <3>1. node \in [Regions -> Nodes]
      <4>. HIDE DEF n
      <4>. QED BY <1>1, <1>4, WorldFields
    <3>2. linked = [q EXCEPT !.node = node]
      BY DEF Worlds
    <3>3. [q EXCEPT !.node = node] \in Worlds
      <4>. HIDE DEF node
      <4>. QED BY <1>1, <3>1 DEF Worlds
    <3>. QED BY <3>2, <3>3
  <2>. HIDE DEF n, l, a
  <2>3. u = [linked EXCEPT
          !.stack[v] = Weave(@, <<r>>, Level(linked), FALSE),
          !.mapped = IF g \in q.up \/ wasMapped THEN @ \cup {r} ELSE @,
          !.group[g].bottom = IF place.bottom THEN r ELSE @]
    BY DEF Attached, n, l, a, StackAbove
  <2>4. linked.stack = q.stack /\ linked.mapped = q.mapped /\ linked.group = q.group
    <3>. HIDE DEF node, linked
    <3>. QED BY <1>1, <2>2 DEF Worlds
  <2>5. u = [linked EXCEPT !.stack = stack, !.mapped = mapped, !.group = group]
    <3>. HIDE DEF linked
    <3>. QED BY <2>3, <2>4
  <2>. HIDE DEF stack, mapped, group, node, linked
  <2>. QED BY <1>1, <2>2, <2>5 DEF Worlds
<1>6. /\ \A x \in Regions : Level(linked)[x] = IF x = r THEN l ELSE q.node[x].level
      /\ Level(linked) = [x \in Regions |-> IF x = r THEN l ELSE q.node[x].level]
  <2>1. linked = [q EXCEPT !.node = node]
    BY <1>1 DEF Worlds
  <2>2. linked.node = node
    <3>. HIDE DEF node, linked
    <3>. QED BY <1>1, <2>1 DEF Worlds
  <2>3. \A x \in Regions : node[x].level = IF x = r THEN l ELSE q.node[x].level
    <3>. HIDE DEF l, a
    <3>. QED BY <1>1, WorldFields
  <2>. HIDE DEF node, linked, l
  <2>. QED BY <2>2, <2>3 DEF Level
<1>. DEFINE level == [x \in Regions |-> IF x = r THEN l ELSE q.node[x].level]
            above == [x \in Regions |-> IF x = r THEN a ELSE q.node[x].above]
<1>7. Stacked(q.stack[v], Shows(q, v), Level(q), Above(q))
  BY <1>1, <1>2 DEF MembersAgree
<1>8. r \notin Shows(q, v) /\ Shows(q, v) \subseteq Regions
      /\ \A z \in Windows : r \notin Shows(q, z) /\ Shows(q, z) \subseteq Regions
  BY <1>2 DEF Shows
<1>9. ASSUME NEW z \in Windows
      PROVE  Stacked(q.stack[z], Shows(q, z), level, above)
  <2>1. \A x \in Shows(q, z) : level[x] = Level(q)[x] /\ above[x] = Above(q)[x]
    <3>. HIDE DEF l, a
    <3>. QED BY <1>8 DEF Level, Above
  <2>2. Stacked(q.stack[z], Shows(q, z), Level(q), Above(q))
    BY <1>1 DEF MembersAgree
  <2>. HIDE DEF level, above
  <2>. QED BY <2>1, <2>2, StackedSame
<1>10. Stacked(new, Shows(q, v) \cup {r}, level, above)
  <2>1. /\ <<r>> \in Seq(Regions) /\ IsInjective(<<r>>) /\ ToSet(<<r>>) = {r}
        /\ Order(<<r>>) = {<<r, r>>}
    <3>1. ToSet(<<r>>) = {r} /\ <<r>> \in Seq(Regions) /\ IsInjective(<<r>>)
      BY DEF ToSet, IsInjective
    <3>2. Order(<<r>>) = {<<r, r>>}
      <4>1. <<r, r>> \in Order(<<r>>)
        BY <3>1, OrderIsTotal
      <4>2. \A p \in Order(<<r>>) : p = <<r, r>>
        BY <3>1 DEF Order
      <4>. QED BY <4>1, <4>2
    <3>. QED BY <3>1, <3>2
  <2>2. /\ \A x \in Regions : level[x] \in Nat
        /\ level[r] = l /\ above[r] = a
        /\ a # None => a \in Shows(q, v) /\ level[a] = l
    <3>1. \A x \in Regions : q.node[x].level \in Nat
      BY <1>1, WorldFields
    <3>2. a # None => a \in Shows(q, v) /\ q.node[a].level = l
      BY <1>2, <1>3 DEF Shows
    <3>. HIDE DEF l, a
    <3>. QED BY <1>3, <1>4, <3>1, <3>2
  <2>3. Sorted(<<r>>, level)
    <3>1. level[r] <= level[r]
      BY <2>2
    <3>. HIDE DEF level
    <3>. QED BY <2>1, <3>1 DEF Sorted
  <2>4. \A x \in ToSet(<<r>>) : above[x] # None =>
            above[x] \in Shows(q, v) /\ level[above[x]] = level[x]
    <3>. HIDE DEF level, above, l, a
    <3>. QED BY <2>1, <2>2
  <2>5. new = Weave(q.stack[v], <<r>>, level, FALSE)
    BY <1>6
  <2>6. Stacked(q.stack[v], Shows(q, v), level, above)
    BY <1>2, <1>9
  <2>. HIDE DEF new, level, above, l, a
  <2>7. Shows(q, v) \cap ToSet(<<r>>) = {}
    BY <1>8, <2>1
  <2>8. Stacked(Weave(q.stack[v], <<r>>, level, FALSE), Shows(q, v) \cup ToSet(<<r>>),
                level, above)
    BY <2>1, <2>2, <2>3, <2>4, <2>6, <2>7, WeaveStacked
  <2>. QED BY <2>1, <2>5, <2>8
<1>11. new \in Seq(Regions)
  BY <1>10 DEF Stacked
<1>12. /\ node \in [Regions -> Nodes] /\ stack \in [Windows -> Seq(Regions)]
       /\ mapped \subseteq q.mapped \cup {r} /\ mapped \subseteq Regions
       /\ group \in [Groups -> GroupStates]
  <2>. HIDE DEF n, new
  <2>1. node \in [Regions -> Nodes]
    BY <1>1, <1>4, WorldFields
  <2>2. stack \in [Windows -> Seq(Regions)]
    BY <1>1, <1>11, WorldFields
  <2>3. mapped \subseteq q.mapped \cup {r} /\ mapped \subseteq Regions
    BY <1>1, WorldFields
  <2>4. group \in [Groups -> GroupStates]
    <3>1. q.group[g] \in GroupStates /\ q.group \in [Groups -> GroupStates]
      BY <1>1, <1>2, WorldFields
    <3>2. [q.group[g] EXCEPT !.bottom = IF place.bottom THEN r ELSE @] \in GroupStates
      BY <1>2, <3>1 DEF GroupStates
    <3>. QED BY <1>2, <3>1, <3>2
  <2>. QED BY <2>1, <2>2, <2>3, <2>4
<1>13. \A h \in Groups :
         /\ group[h].win = q.group[h].win /\ group[h].phs = q.group[h].phs
         /\ group[h].bottom = IF h = g /\ place.bottom THEN r ELSE q.group[h].bottom
  <2>. SUFFICES ASSUME NEW h \in Groups
                PROVE  /\ group[h].win = q.group[h].win /\ group[h].phs = q.group[h].phs
                       /\ group[h].bottom = IF h = g /\ place.bottom THEN r
                                            ELSE q.group[h].bottom
    OBVIOUS
  <2>1. q.group \in [Groups -> GroupStates] /\ q.group[h] \in GroupStates
    BY <1>1, WorldFields
  <2>2. group[h] = IF h = g
                   THEN [q.group[h] EXCEPT !.bottom = IF place.bottom THEN r ELSE @]
                   ELSE q.group[h]
    BY <1>2, <2>1
  <2>. HIDE DEF group
  <2>. QED BY <2>1, <2>2 DEF GroupStates
<1>14. \A z \in Windows : stack[z] = IF z = v THEN new ELSE q.stack[z]
  <2>. HIDE DEF new
  <2>. QED BY <1>1, <1>2, WorldFields
<1>15. \A x \in Regions : node[x] = IF x = r THEN n ELSE q.node[x]
  <2>. HIDE DEF n
  <2>. QED BY <1>1, WorldFields
<1>16. n.mgr = g /\ n.level = l /\ n.above = a
  <2>. HIDE DEF l, a
  <2>. QED OBVIOUS
<1>. HIDE DEF stack, mapped, group, node, new, n, l, a, u, linked
<1>17. /\ u \in Worlds /\ u.stack = stack /\ u.node = node /\ u.mapped = mapped
       /\ u.group = group /\ u.up = q.up /\ u.phs = q.phs /\ u.place = q.place
       /\ u.rings = q.rings /\ u.lost = q.lost /\ u.failed = q.failed
       /\ u.ret = q.ret /\ u.dead = q.dead
  BY <1>1, <1>5, <1>12 DEF Worlds
<1>18. Alive(u) = Alive(q)
  BY <1>13, <1>17 DEF Alive
<1>19. \A x \in Regions :
         /\ u.node[x].mgr = IF x = r THEN g ELSE q.node[x].mgr
         /\ u.node[x].level = IF x = r THEN l ELSE q.node[x].level
         /\ u.node[x].above = IF x = r THEN a ELSE q.node[x].above
  BY <1>15, <1>16, <1>17
<1>20. TreesAgree(u)
  <2>. SUFFICES ASSUME NEW x \in Regions, u.node[x].above # None
                PROVE  /\ u.node[x].above # x /\ u.node[x].mgr # None
                       /\ u.node[u.node[x].above].mgr = u.node[x].mgr
                       /\ u.node[u.node[x].above].level = u.node[x].level
    BY DEF TreesAgree
  <2>1. CASE x = r
    <3>1. u.node[x].above = a /\ a \in Regions /\ q.node[a].mgr = g /\ a # r
      BY <1>3, <1>19, <2>1
    <3>2. u.node[a].mgr = g /\ u.node[a].level = l
      BY <1>19, <2>1, <3>1 DEF l
    <3>. QED BY <1>2, <1>19, <2>1, <3>1, <3>2
  <2>2. CASE x # r
    <3>. DEFINE b == q.node[x].above
    <3>1. u.node[x].above = b /\ b # None /\ b \in Regions
      BY <1>1, <1>19, <2>2, WorldFields
    <3>2. b # x /\ q.node[x].mgr # None /\ q.node[b].mgr = q.node[x].mgr
          /\ q.node[b].level = q.node[x].level
      BY <1>1, <3>1 DEF MembersAgree, TreesAgree
    <3>. HIDE DEF b
    <3>3. b # r
      BY <3>2
    <3>. QED BY <1>19, <2>2, <3>1, <3>2, <3>3
  <2>. QED BY <2>1, <2>2
<1>21. \A z \in Windows : Shows(u, z) = IF z = v THEN Shows(q, z) \cup {r} ELSE Shows(q, z)
  <2>. SUFFICES ASSUME NEW z \in Windows, NEW x \in Regions
                PROVE  x \in Shows(u, z) <=> x \in Shows(q, z) \/ (z = v /\ x = r)
    BY DEF Shows
  <2>1. CASE x = r
    <3>1. u.node[x].mgr = g /\ u.group[g].win = v
      BY <1>2, <1>13, <1>17, <1>19, <2>1
    <3>. QED BY <1>2, <1>8, <2>1, <3>1 DEF Shows
  <2>2. CASE x # r
    <3>1. u.node[x].mgr = q.node[x].mgr /\ q.node[x].mgr \in Groups \cup {None}
      BY <1>1, <1>19, <2>2, WorldFields
    <3>2. q.node[x].mgr # None =>
             u.group[q.node[x].mgr].win = q.group[q.node[x].mgr].win
      BY <1>13, <1>17, <3>1
    <3>. QED BY <2>2, <3>1, <3>2 DEF Shows
  <2>. QED BY <2>1, <2>2
<1>22. Level(u) = level /\ Above(u) = above
  BY <1>19 DEF Level, Above
<1>23. ASSUME NEW z \in Windows
       PROVE  Stacked(u.stack[z], Shows(u, z), Level(u), Above(u))
  <2>. HIDE DEF level, above
  <2>1. CASE z = v
    <3>1. u.stack[z] = new /\ Shows(u, z) = Shows(q, v) \cup {r}
      BY <1>14, <1>17, <1>21, <2>1
    <3>. QED BY <1>10, <1>22, <3>1
  <2>2. CASE z # v
    <3>1. u.stack[z] = q.stack[z] /\ Shows(u, z) = Shows(q, z)
      BY <1>14, <1>17, <1>21, <2>2
    <3>. QED BY <1>9, <1>22, <3>1
  <2>. QED BY <2>1, <2>2
<1>. HIDE DEF level, above
<1>24. \A h \in Groups : u.group[h].bottom # None => u.node[u.group[h].bottom].mgr = h
  <2>. SUFFICES ASSUME NEW h \in Groups, u.group[h].bottom # None
                PROVE  u.node[u.group[h].bottom].mgr = h
    OBVIOUS
  <2>1. CASE h = g /\ place.bottom
    BY <1>13, <1>17, <1>19, <2>1
  <2>2. CASE ~(h = g /\ place.bottom)
    <3>. DEFINE b == q.group[h].bottom
    <3>1. u.group[h].bottom = b /\ b # None /\ b \in Regions
      BY <1>1, <1>13, <1>17, <2>2, WorldFields
    <3>2. q.node[b].mgr = h /\ h # None
      BY <1>1, <3>1, GroupsAssumption DEF MembersAgree
    <3>3. b # r
      BY <3>2
    <3>. HIDE DEF b
    <3>. QED BY <1>19, <3>1, <3>2, <3>3
  <2>. QED BY <2>1, <2>2
<1>25. MembersAgree(u)
  <2>1. \A x \in Regions : u.node[x].mgr # None => u.node[x].mgr \in Alive(u)
    BY <1>1, <1>18, <1>19 DEF MembersAgree
  <2>2. u.up \subseteq Alive(u)
    BY <1>1, <1>17, <1>18 DEF MembersAgree
  <2>. QED BY <1>20, <1>23, <1>24, <2>1, <2>2 DEF MembersAgree
<1>26. ListsApart(u)
  BY <1>1, <1>13, <1>17, <1>18, ListsFrame
<1>27. ReturnsApart(u)
  BY <1>1, <1>17, ReturnsFrame
<1>28. Agree(u)
  BY <1>17, <1>25, <1>26, <1>27 DEF Agree
<1>29. \A x \in Regions \ {r} : u.node[x] = q.node[x]
  BY <1>15, <1>17
<1>30. l = IF a = None THEN place.level ELSE q.node[a].level
  BY DEF l
<1>31. /\ \A h \in Groups : u.group[h].win = q.group[h].win
                             /\ u.group[h].phs = q.group[h].phs
       /\ \A h \in Groups \ {g} : u.group[h].bottom = q.group[h].bottom
       /\ place.bottom => u.group[g].bottom = r
       /\ ~place.bottom => u.group[g].bottom = q.group[g].bottom
  BY <1>2, <1>13, <1>17
<1>32. /\ u.node[r].mgr = g /\ u.node[r].above = a
       /\ u.node[r].level = IF a = None THEN place.level ELSE q.node[a].level
  BY <1>19, <1>30
<1>. QED BY <1>12, <1>17, <1>28, <1>29, <1>31, <1>32 DEF u, a

-----------------------------------------------------------------------------
(* Groups that are destroyed.                                              *)

\* stack_above_watch
LEMMA UnwatchedIs ==
    ASSUME NEW q \in Worlds, NEW r \in Regions
    PROVE  LET u == Unwatched(q, r)
           IN /\ u \in Worlds
              /\ u.stack = q.stack /\ u.node = q.node /\ u.mapped = q.mapped
              /\ u.group = q.group /\ u.up = q.up /\ u.phs = q.phs
              /\ u.rings = q.rings /\ u.lost = q.lost
              /\ u.failed = q.failed /\ u.ret = q.ret /\ u.dead = q.dead
              /\ \A p \in PHolders :
                    /\ u.place[p].level = q.place[p].level
                    /\ u.place[p].bottom = q.place[p].bottom
                    /\ u.place[p].above = IF q.place[p].above = r THEN None
                                          ELSE q.place[p].above
<1>. DEFINE place == [p \in PHolders |->
                IF q.place[p].above = r THEN [q.place[p] EXCEPT !.above = None]
                ELSE q.place[p]]
            u == Unwatched(q, r)
<1>1. u = [q EXCEPT !.place = place]
  BY DEF Unwatched
<1>2. ASSUME NEW p \in PHolders
      PROVE  /\ place[p] \in Places
             /\ place[p].level = q.place[p].level /\ place[p].bottom = q.place[p].bottom
             /\ place[p].above = IF q.place[p].above = r THEN None ELSE q.place[p].above
  <2>1. q.place[p] \in Places
    BY WorldFields
  <2>. QED BY <2>1 DEF Places
<1>3. place \in [PHolders -> Places]
  <2>1. \A p \in PHolders : place[p] \in Places
    BY <1>2
  <2>. QED BY <2>1
<1>. HIDE DEF place, u
<1>4. /\ u \in Worlds
      /\ u.stack = q.stack /\ u.node = q.node /\ u.mapped = q.mapped
      /\ u.group = q.group /\ u.up = q.up /\ u.phs = q.phs
      /\ u.rings = q.rings /\ u.lost = q.lost /\ u.place = place
      /\ u.failed = q.failed /\ u.ret = q.ret /\ u.dead = q.dead
  BY <1>1, <1>3 DEF Worlds
<1>. QED BY <1>2, <1>4 DEF u

\* Only places are changed.
LEMMA UnwatchedAgrees ==
    ASSUME NEW q, Agree(q), NEW r \in Regions
    PROVE  Agree(Unwatched(q, r))
<1>. DEFINE u == Unwatched(q, r)
<1>1. q \in Worlds /\ MembersAgree(q) /\ ListsApart(q) /\ ReturnsApart(q)
  BY DEF Agree
<1>2. /\ u \in Worlds /\ u.stack = q.stack /\ u.node = q.node
      /\ u.group = q.group /\ u.up = q.up /\ u.phs = q.phs
      /\ u.rings = q.rings /\ u.lost = q.lost /\ u.ret = q.ret /\ u.dead = q.dead
  BY <1>1, UnwatchedIs
<1>. HIDE DEF u
<1>3. Alive(u) = Alive(q) /\ u.up \subseteq Alive(q)
  BY <1>1, <1>2 DEF Alive, MembersAgree
<1>4. MembersAgree(u)
  BY <1>1, <1>2, <1>3, MembersFrame
<1>5. ListsApart(u)
  BY <1>1, <1>2, <1>3, ListsFrame
<1>6. ReturnsApart(u)
  BY <1>1, <1>2, ReturnsFrame
<1>. QED BY <1>2, <1>4, <1>5, <1>6 DEF Agree, u

\* region_deinit, of one member.
LEMMA DestroyedIs ==
    ASSUME NEW q \in Worlds, NEW r \in Regions
    PROVE  LET u == Destroyed(q, r)
           IN /\ u \in Worlds /\ u.node = [q.node EXCEPT ![r] = NoNode]
              /\ u.stack = q.stack /\ u.mapped = q.mapped
              /\ u.group = q.group /\ u.up = q.up /\ u.phs = q.phs
              /\ u.rings = q.rings /\ u.lost = q.lost /\ u.failed = q.failed
              /\ u.ret = [q.ret EXCEPT ![r] = None]
              /\ ReturnsApart(q) => ReturnsApart(u)
<1>. DEFINE b == [q EXCEPT !.node[r] = NoNode]
            c == UnsetReturn(b, r)
            u == Unwatched(c, r)
<1>1. Destroyed(q, r) = u
  BY DEF Destroyed
<1>2. NoNode \in Nodes
  BY DEF NoNode, Nodes, Normal
<1>3. /\ b \in Worlds /\ b.node = [q.node EXCEPT ![r] = NoNode]
      /\ b.stack = q.stack /\ b.mapped = q.mapped
      /\ b.group = q.group /\ b.up = q.up /\ b.phs = q.phs
      /\ b.rings = q.rings /\ b.lost = q.lost /\ b.failed = q.failed
      /\ b.ret = q.ret /\ b.dead = q.dead
  BY <1>2 DEF Worlds
<1>. HIDE DEF b
<1>4. /\ c \in Worlds /\ c.node = b.node
      /\ c.stack = b.stack /\ c.mapped = b.mapped
      /\ c.group = b.group /\ c.up = b.up /\ c.phs = b.phs
      /\ c.rings = b.rings /\ c.lost = b.lost /\ c.failed = b.failed
      /\ c.ret = [b.ret EXCEPT ![r] = None]
      /\ c.dead = IF b.ret[r] = None THEN b.dead ELSE Append(b.dead, b.ret[r])
  BY <1>3, UnsetReturnIs
<1>5. ReturnsApart(q) => ReturnsApart(c)
  <2>. SUFFICES ASSUME ReturnsApart(q) PROVE ReturnsApart(c)
    OBVIOUS
  <2>. HIDE DEF c
  <2>1. q.ret \in [Regions -> PHolders \cup {None}] /\ q.dead \in Seq(PHolders)
    BY WorldFields
  <2>2. ToSet(c.dead) = IF q.ret[r] = None THEN ToSet(q.dead)
                        ELSE ToSet(q.dead) \cup {q.ret[r]}
    <3>1. CASE q.ret[r] = None
      BY <1>3, <1>4, <3>1
    <3>2. CASE q.ret[r] # None
      <4>1. q.ret[r] \in PHolders /\ c.dead = Append(q.dead, q.ret[r])
        BY <1>3, <1>4, <2>1, <3>2
      <4>2. ToSet(Append(q.dead, q.ret[r])) = ToSet(q.dead) \cup {q.ret[r]}
        BY <2>1, <4>1, AppendElements
      <4>. QED BY <3>2, <4>1, <4>2
    <3>. QED BY <3>1, <3>2
  <2>3. \A x \in Regions : c.ret[x] = IF x = r THEN None ELSE q.ret[x]
    BY <1>3, <1>4, <2>1
  <2>. QED BY <1>3, <1>4, <2>2, <2>3 DEF ReturnsApart
<1>. HIDE DEF c
<1>6. /\ u \in Worlds
      /\ u.stack = c.stack /\ u.node = c.node /\ u.mapped = c.mapped
      /\ u.group = c.group /\ u.up = c.up /\ u.phs = c.phs
      /\ u.rings = c.rings /\ u.lost = c.lost
      /\ u.failed = c.failed /\ u.ret = c.ret /\ u.dead = c.dead
  BY <1>4, UnwatchedIs
<1>. HIDE DEF u
<1>7. ReturnsApart(c) => ReturnsApart(u)
  BY <1>6, ReturnsFrame
<1>. QED BY <1>1, <1>3, <1>4, <1>5, <1>6, <1>7

\* One after the other.
LEMMA AllDestroyedIs ==
    ASSUME NEW q \in Worlds, NEW list \in Seq(Regions)
    PROVE  LET u == AllDestroyed(q, list)
           IN /\ u \in Worlds
              /\ \A x \in Regions :
                    /\ u.node[x] = IF x \in ToSet(list) THEN NoNode ELSE q.node[x]
                    /\ u.ret[x] = IF x \in ToSet(list) THEN None ELSE q.ret[x]
              /\ u.stack = q.stack /\ u.mapped = q.mapped
              /\ u.group = q.group /\ u.up = q.up /\ u.phs = q.phs
              /\ u.rings = q.rings /\ u.lost = q.lost /\ u.failed = q.failed
              /\ ReturnsApart(q) => ReturnsApart(u)
              /\ Len(list) = 0 => u = q
<1>. DEFINE N == Len(list)
            next(n, z) == Destroyed(z, list[n])
            Body(f) == [n \in 0 .. N |-> IF n = 0 THEN q ELSE next(n, f[n - 1])]
            step == [n \in 1 .. N |-> [z \in Worlds |-> next(n, z)]]
            destroyed == CHOOSE f : f = Body(f)
            come(n) == {list[k] : k \in 1 .. n}
            Good(n, z) ==
                /\ z \in Worlds
                /\ \A x \in Regions :
                      /\ z.node[x] = IF x \in come(n) THEN NoNode ELSE q.node[x]
                      /\ z.ret[x] = IF x \in come(n) THEN None ELSE q.ret[x]
                /\ z.stack = q.stack /\ z.mapped = q.mapped
                /\ z.group = q.group /\ z.up = q.up /\ z.phs = q.phs
                /\ z.rings = q.rings /\ z.lost = q.lost /\ z.failed = q.failed
                /\ ReturnsApart(q) => ReturnsApart(z)
<1>1. N \in Nat /\ \A n \in 1 .. N : list[n] \in Regions
  OBVIOUS
<1>2. AllDestroyed(q, list) = destroyed[N]
  BY DEF AllDestroyed
<1>3. \A n \in 1 .. N : \A z \in Worlds : next(n, z) \in Worlds
  BY <1>1, DestroyedIs
<1>4. destroyed[0] = q /\ \A n \in 1 .. N : destroyed[n] = next(n, destroyed[n - 1])
  <2>. HIDE DEF next, N
  <2>1. step \in [1 .. N -> [Worlds -> Worlds]]
    BY <1>3
  <2>2. PICK f \in [0 .. N -> Worlds] : Recurs(f, N, q, step)
    <3>. HIDE DEF step
    <3>. QED BY <1>1, <2>1, RecursionExists
  <2>3. ASSUME NEW n \in 1 .. N PROVE f[n] = next(n, f[n - 1])
    <3>1. f[n - 1] \in Worlds /\ f[n] = step[n][f[n - 1]]
      <4>. HIDE DEF step
      <4>. QED BY <1>1, <2>2 DEF Recurs
    <3>. QED BY <3>1
  <2>4. f[0] = q
    BY <2>2 DEF Recurs
  <2>5. f = Body(f)
    <3>1. \A n \in 0 .. N : f[n] = Body(f)[n]
      BY <1>1, <2>3, <2>4
    <3>. QED BY <3>1
  <2>6. destroyed = Body(destroyed)
    <3>. HIDE DEF Body
    <3>. QED BY <2>5
  <2>. HIDE DEF destroyed
  <2>. QED BY <1>1, <2>6
<1>. HIDE DEF destroyed
<1>5. Good(0, destroyed[0])
  <2>1. come(0) = {}
    OBVIOUS
  <2>. HIDE DEF come
  <2>. QED BY <1>4, <2>1
<1>6. ASSUME NEW n \in 1 .. N, Good(n - 1, destroyed[n - 1]) PROVE Good(n, destroyed[n])
  <2>. DEFINE z == destroyed[n - 1]
              y == destroyed[n]
              r == list[n]
  <2>1. /\ z \in Worlds
        /\ \A x \in Regions :
              /\ z.node[x] = IF x \in come(n - 1) THEN NoNode ELSE q.node[x]
              /\ z.ret[x] = IF x \in come(n - 1) THEN None ELSE q.ret[x]
        /\ z.stack = q.stack /\ z.mapped = q.mapped
        /\ z.group = q.group /\ z.up = q.up /\ z.phs = q.phs
        /\ z.rings = q.rings /\ z.lost = q.lost /\ z.failed = q.failed
        /\ ReturnsApart(q) => ReturnsApart(z)
    BY <1>6
  <2>2. y = Destroyed(z, r) /\ r \in Regions
    BY <1>1, <1>4
  <2>3. come(n) = come(n - 1) \cup {r}
    <3>1. 1 .. n = (1 .. n - 1) \cup {n}
      BY <1>1
    <3>. QED BY <3>1
  <2>. HIDE DEF z, y, r, come
  <2>4. /\ y \in Worlds /\ y.node = [z.node EXCEPT ![r] = NoNode]
        /\ y.stack = z.stack /\ y.mapped = z.mapped
        /\ y.group = z.group /\ y.up = z.up /\ y.phs = z.phs
        /\ y.rings = z.rings /\ y.lost = z.lost /\ y.failed = z.failed
        /\ y.ret = [z.ret EXCEPT ![r] = None]
        /\ ReturnsApart(z) => ReturnsApart(y)
    BY <2>1, <2>2, DestroyedIs
  <2>5. \A x \in Regions :
              /\ y.node[x] = IF x \in come(n) THEN NoNode ELSE q.node[x]
              /\ y.ret[x] = IF x \in come(n) THEN None ELSE q.ret[x]
    <3>1. z.node \in [Regions -> Nodes] /\ z.ret \in [Regions -> PHolders \cup {None}]
      BY <2>1, WorldFields
    <3>. QED BY <2>1, <2>2, <2>3, <2>4, <3>1
  <2>6. Good(n, y)
    BY <2>1, <2>4, <2>5
  <2>. QED BY <2>6 DEF y
<1>7. Good(N, destroyed[N])
  <2>. DEFINE S == {n \in 0 .. N : Good(n, destroyed[n])}
  <2>. HIDE DEF Good
  <2>1. 0 \in S /\ \A n \in 1 .. N : n - 1 \in S => n \in S
    BY <1>1, <1>5, <1>6
  <2>. HIDE DEF S, N
  <2>2. \A n \in 0 .. N : n \in S
    BY <1>1, <2>1, Induction
  <2>. QED BY <1>1, <2>2 DEF S
<1>8. come(N) = ToSet(list)
  BY DEF ToSet
<1>. HIDE DEF come
<1>9. N = 0 => destroyed[N] = q
  BY <1>4
<1>. QED BY <1>2, <1>7, <1>8, <1>9

\* group_deinit
LEMMA GroupDestroyedIs ==
    ASSUME NEW q, Agree(q), NEW g \in Alive(q)
    PROVE  LET u == GroupDestroyed(q, g)
               members == Members(q, g)
               stale == ToSet(q.group[g].phs)
           IN /\ Agree(u)
              /\ \A x \in Regions :
                    /\ u.node[x] = IF x \in members THEN NoNode ELSE q.node[x]
                    /\ u.ret[x] = IF x \in members THEN None ELSE q.ret[x]
              /\ \A h \in Groups : u.group[h] = IF h = g THEN NoGroup ELSE q.group[h]
              /\ u.mapped = q.mapped \ members /\ u.up = q.up \ {g}
              /\ u.phs = q.phs \ (stale \cap q.lost) /\ u.lost = q.lost \ stale
              /\ u.rings = q.rings /\ u.failed = q.failed
              /\ members = {} =>
                    /\ u.dead = q.dead
                    /\ \A p \in PHolders \ stale : u.place[p] = q.place[p]
<1>. DEFINE u == GroupDestroyed(q, g)
            v == q.group[g].win
            M == Members(q, g)
            stale == ToSet(q.group[g].phs)
            stack == [q.stack EXCEPT ![v] = Dropping(@, M)]
            group == [q.group EXCEPT ![g] = NoGroup]
            place == [p \in PHolders |-> IF p \in stale THEN NoPlace ELSE q.place[p]]
            node == [x \in Regions |->
                       IF q.node[x].above \in M THEN [q.node[x] EXCEPT !.above = None]
                       ELSE q.node[x]]
            off == [q EXCEPT !.stack[v] = Dropping(@, M),
                         !.mapped = @ \ M, !.up = @ \ {g},
                         !.group[g] = NoGroup,
                         !.place = [p \in PHolders |->
                             IF p \in stale THEN NoPlace ELSE @[p]],
                         !.phs = @ \ (stale \cap q.lost),
                         !.lost = @ \ stale]
            shorn == [off EXCEPT !.node = [x \in Regions |->
                        IF @[x].above \in M
                        THEN [@[x] EXCEPT !.above = None] ELSE @[x]]]
            list == SetToSeq(M)
<1>1. q \in Worlds /\ MembersAgree(q) /\ ListsApart(q) /\ ReturnsApart(q)
  BY DEF Agree
<1>2. /\ g \in Groups /\ g # None /\ v \in Windows
      /\ M \subseteq Regions /\ IsFiniteSet(M)
  <2>1. g \in Groups /\ v # None /\ q.group[g].win \in Windows \cup {None}
    BY <1>1, WorldFields DEF Alive
  <2>2. None \notin Groups /\ IsFiniteSet(Regions)
    BY GroupsAssumption
  <2>3. M \in SUBSET Regions
    BY DEF Members
  <2>4. IsFiniteSet(M)
    <3>. HIDE DEF M
    <3>. QED BY <2>2, <2>3, FS_Subset
  <2>. QED BY <2>1, <2>2, <2>3, <2>4
<1>3. u = AllDestroyed(shorn, list)
  BY DEF GroupDestroyed
<1>. HIDE DEF M, stale, v
<1>4. /\ list \in Seq(Regions) /\ ToSet(list) = M /\ (M = {} => Len(list) = 0)
  <2>1. list \in Seq(M) /\ ToSet(list) = M /\ Len(list) = Cardinality(M)
    BY <1>2, SetToSeqIs
  <2>2. M = {} => Cardinality(M) = 0
    BY FS_EmptySet
  <2>. HIDE DEF list
  <2>. QED BY <1>2, <2>1, <2>2
<1>5. shorn = [q EXCEPT !.stack = stack, !.node = node, !.mapped = @ \ M,
                        !.group = group, !.up = @ \ {g}, !.place = place,
                        !.phs = @ \ (stale \cap q.lost), !.lost = @ \ stale]
  <2>1. off = [q EXCEPT !.stack = stack, !.mapped = @ \ M,
                        !.group = group, !.up = @ \ {g}, !.place = place,
                        !.phs = @ \ (stale \cap q.lost), !.lost = @ \ stale]
    OBVIOUS
  <2>2. off.node = q.node
    BY <1>1, <2>1 DEF Worlds
  <2>3. shorn = [off EXCEPT !.node = node]
    <3>. HIDE DEF off
    <3>. QED BY <2>2
  <2>. HIDE DEF off, stack, group, place, node, shorn
  <2>. QED BY <1>1, <2>1, <2>3 DEF Worlds
<1>6. stack \in [Windows -> Seq(Regions)]
      /\ \A z \in Windows : stack[z] = IF z = v THEN Dropping(q.stack[v], M) ELSE q.stack[z]
  <2>1. q.stack \in [Windows -> Seq(Regions)]
    BY <1>1, WorldFields
  <2>2. Dropping(q.stack[v], M) \in Seq(Regions)
    BY <1>2, <2>1, DroppingElements
  <2>. QED BY <1>2, <2>1, <2>2
<1>7. \A x \in Regions \ M : q.node[x].above \notin M
  <2>. SUFFICES ASSUME NEW x \in Regions \ M, q.node[x].above \in M PROVE FALSE
    OBVIOUS
  <2>1. q.node[x].above # None /\ q.node[q.node[x].above].mgr = g
    BY <1>2, GroupsAssumption DEF M, Members
  <2>2. q.node[x].mgr = g
    BY <1>1, <2>1 DEF MembersAgree, TreesAgree
  <2>. QED BY <2>2 DEF M, Members
<1>8. node \in [Regions -> Nodes] /\ \A x \in Regions \ M : node[x] = q.node[x]
  <2>1. \A x \in Regions : q.node[x] \in Nodes
    BY <1>1, WorldFields
  <2>2. ASSUME NEW x \in Regions PROVE node[x] \in Nodes
    <3>1. q.node[x] \in Nodes
      BY <2>1
    <3>2. [q.node[x] EXCEPT !.above = None] \in Nodes
      BY <3>1 DEF Nodes
    <3>. QED BY <3>1, <3>2
  <2>3. node \in [Regions -> Nodes]
    BY <2>2
  <2>4. \A x \in Regions \ M : node[x] = q.node[x]
    BY <1>7
  <2>. QED BY <2>3, <2>4
<1>9. group \in [Groups -> GroupStates]
      /\ \A h \in Groups : group[h] = IF h = g THEN NoGroup ELSE q.group[h]
  <2>1. NoGroup \in GroupStates
    BY DEF NoGroup, GroupStates
  <2>. QED BY <1>1, <1>2, <2>1, WorldFields
<1>10. place \in [PHolders -> Places]
       /\ \A p \in PHolders \ stale : place[p] = q.place[p]
  <2>1. NoPlace \in Places
    BY DEF NoPlace, Places, Normal
  <2>. QED BY <1>1, <2>1, WorldFields
<1>. HIDE DEF stack, group, place, node, shorn, off, list
<1>11. /\ shorn \in Worlds /\ shorn.stack = stack /\ shorn.node = node
       /\ shorn.mapped = q.mapped \ M /\ shorn.group = group /\ shorn.up = q.up \ {g}
       /\ shorn.place = place /\ shorn.phs = q.phs \ (stale \cap q.lost)
       /\ shorn.lost = q.lost \ stale /\ shorn.rings = q.rings /\ shorn.ret = q.ret
       /\ shorn.dead = q.dead /\ shorn.failed = q.failed
  <2>1. /\ q.mapped \ M \in SUBSET Regions /\ q.up \ {g} \in SUBSET Groups
        /\ q.phs \ (stale \cap q.lost) \in SUBSET PHolders
        /\ q.lost \ stale \in SUBSET PHolders
    BY <1>1, WorldFields
  <2>. QED BY <1>1, <1>5, <1>6, <1>8, <1>9, <1>10, <2>1 DEF Worlds
<1>. HIDE DEF u
<1>12. /\ u \in Worlds
       /\ \A x \in Regions :
             /\ u.node[x] = IF x \in M THEN NoNode ELSE shorn.node[x]
             /\ u.ret[x] = IF x \in M THEN None ELSE shorn.ret[x]
       /\ u.stack = stack /\ u.mapped = q.mapped \ M
       /\ u.group = group /\ u.up = q.up \ {g} /\ u.phs = q.phs \ (stale \cap q.lost)
       /\ u.rings = q.rings /\ u.lost = q.lost \ stale /\ u.failed = q.failed
       /\ ReturnsApart(shorn) => ReturnsApart(u)
       /\ Len(list) = 0 => u = shorn
  BY <1>3, <1>4, <1>11, AllDestroyedIs
<1>13. \A x \in Regions :
             /\ u.node[x] = IF x \in M THEN NoNode ELSE q.node[x]
             /\ u.ret[x] = IF x \in M THEN None ELSE q.ret[x]
  BY <1>8, <1>11, <1>12
<1>14. ReturnsApart(u)
  <2>1. ReturnsApart(shorn)
    BY <1>1, <1>11 DEF ReturnsApart
  <2>. QED BY <1>12, <2>1
<1>15. Alive(u) = Alive(q) \ {g}
  BY <1>9, <1>12 DEF Alive, NoGroup
<1>16. ListsApart(u)
  <2>1. /\ \A h \in Groups : u.group[h].phs = IF h = g THEN <<>> ELSE q.group[h].phs
        /\ ToSet(<<>>) = {} /\ IsInjective(<<>>)
    BY <1>9, <1>12 DEF NoGroup, ToSet, IsInjective
  <2>2. \A h \in Groups \ {g} : ToSet(q.group[h].phs) \cap stale = {}
    BY <1>1, <1>2 DEF ListsApart, stale
  <2>3. \A s \in q.rings : ToSet(s) \cap stale = {}
    BY <1>1, <1>2 DEF ListsApart, stale
  <2>4. /\ \A h \in Groups :
            /\ IsInjective(q.group[h].phs) /\ ToSet(q.group[h].phs) \subseteq q.phs
            /\ h \notin Alive(q) => q.group[h].phs = <<>>
            /\ \A k \in Groups \ {h} : ToSet(q.group[h].phs) \cap ToSet(q.group[k].phs) = {}
            /\ \A s \in q.rings : ToSet(q.group[h].phs) \cap ToSet(s) = {}
        /\ \A s \in q.rings :
            /\ IsInjective(s) /\ ToSet(s) \subseteq q.phs
            /\ \A t \in q.rings \ {s} : ToSet(s) \cap ToSet(t) = {}
    BY <1>1 DEF ListsApart
  <2>5. u.rings = q.rings /\ u.phs = q.phs \ (stale \cap q.lost)
    BY <1>12
  <2>6. ASSUME NEW h \in Groups
        PROVE  /\ IsInjective(u.group[h].phs) /\ ToSet(u.group[h].phs) \subseteq u.phs
               /\ h \notin Alive(u) => u.group[h].phs = <<>>
               /\ \A k \in Groups \ {h} :
                     ToSet(u.group[h].phs) \cap ToSet(u.group[k].phs) = {}
               /\ \A s \in u.rings : ToSet(u.group[h].phs) \cap ToSet(s) = {}
    <3>1. CASE h = g
      <4>1. u.group[h].phs = <<>>
        BY <2>1, <3>1
      <4>. QED BY <2>1, <4>1
    <3>2. CASE h # g
      <4>1. u.group[h].phs = q.group[h].phs
        BY <2>1, <3>2
      <4>2. \A k \in Groups \ {h} :
               ToSet(u.group[h].phs) \cap ToSet(u.group[k].phs) = {}
        BY <2>1, <2>4, <4>1
      <4>3. ToSet(u.group[h].phs) \subseteq u.phs
        BY <2>2, <2>4, <2>5, <3>2, <4>1
      <4>. QED BY <1>15, <2>4, <2>5, <3>2, <4>1, <4>2, <4>3
    <3>. QED BY <3>1, <3>2
  <2>7. \A s \in u.rings :
            /\ IsInjective(s) /\ ToSet(s) \subseteq u.phs
            /\ \A t \in u.rings \ {s} : ToSet(s) \cap ToSet(t) = {}
    BY <2>3, <2>4, <2>5
  <2>. QED BY <2>6, <2>7 DEF ListsApart
<1>17. \A z \in Windows : Shows(u, z) = Shows(q, z) \ M
  <2>. SUFFICES ASSUME NEW z \in Windows, NEW x \in Regions
                PROVE  x \in Shows(u, z) <=> x \in Shows(q, z) \ M
    BY DEF Shows
  <2>1. CASE x \in M
    BY <1>13, <2>1 DEF Shows, NoNode
  <2>2. CASE x \notin M
    <3>1. u.node[x] = q.node[x] /\ q.node[x].mgr # g /\ q.node[x].mgr \in Groups \cup {None}
      BY <1>1, <1>13, <2>2, WorldFields DEF M, Members
    <3>2. q.node[x].mgr # None =>
             u.group[q.node[x].mgr] = q.group[q.node[x].mgr]
      BY <1>9, <1>12, <3>1
    <3>. QED BY <2>2, <3>1, <3>2 DEF Shows
  <2>. QED BY <2>1, <2>2
<1>18. \A x \in Regions \ M : Level(u)[x] = Level(q)[x] /\ Above(u)[x] = Above(q)[x]
  BY <1>13 DEF Level, Above
<1>19. ASSUME NEW z \in Windows
       PROVE  Stacked(u.stack[z], Shows(u, z), Level(u), Above(u))
  <2>1. Stacked(q.stack[z], Shows(q, z), Level(q), Above(q))
    BY <1>1 DEF MembersAgree
  <2>2. Shows(q, z) \subseteq Regions
    BY DEF Shows
  <2>3. CASE z = v
    <3>1. u.stack[z] = Dropping(q.stack[z], M)
      BY <1>6, <1>12, <2>3
    <3>2. \A x \in Shows(q, z) \ M : Above(q)[x] \notin M
      BY <1>7, <2>2 DEF Above
    <3>3. Stacked(u.stack[z], Shows(u, z), Level(q), Above(q))
      BY <1>17, <2>1, <3>1, <3>2, DroppingStacked
    <3>4. \A x \in Shows(u, z) : Level(u)[x] = Level(q)[x] /\ Above(u)[x] = Above(q)[x]
      BY <1>17, <1>18, <2>2
    <3>. QED BY <3>3, <3>4, StackedSame
  <2>4. CASE z # v
    <3>1. u.stack[z] = q.stack[z]
      BY <1>6, <1>12, <2>4
    <3>2. Shows(q, z) \cap M = {}
      BY <2>4 DEF Shows, M, Members, v
    <3>3. Shows(u, z) = Shows(q, z)
      BY <1>17, <3>2
    <3>4. \A x \in Shows(q, z) : Level(u)[x] = Level(q)[x] /\ Above(u)[x] = Above(q)[x]
      BY <1>18, <2>2, <3>2
    <3>. QED BY <2>1, <3>1, <3>3, <3>4, StackedSame
  <2>. QED BY <2>3, <2>4
<1>20. TreesAgree(u)
  <2>. SUFFICES ASSUME NEW x \in Regions, u.node[x].above # None
                PROVE  /\ u.node[x].above # x /\ u.node[x].mgr # None
                       /\ u.node[u.node[x].above].mgr = u.node[x].mgr
                       /\ u.node[u.node[x].above].level = u.node[x].level
    BY DEF TreesAgree
  <2>. DEFINE a == q.node[x].above
  <2>1. x \notin M /\ u.node[x] = q.node[x]
    BY <1>13 DEF NoNode
  <2>2. a # None /\ a \in Regions \ M
    BY <1>1, <1>7, <2>1, WorldFields
  <2>3. /\ a # x /\ q.node[x].mgr # None /\ q.node[a].mgr = q.node[x].mgr
        /\ q.node[a].level = q.node[x].level
    BY <1>1, <2>2 DEF MembersAgree, TreesAgree
  <2>4. u.node[a] = q.node[a]
    BY <1>13, <2>2
  <2>. QED BY <2>1, <2>3, <2>4
<1>21. \A h \in Groups : u.group[h].bottom # None => u.node[u.group[h].bottom].mgr = h
  <2>. SUFFICES ASSUME NEW h \in Groups, u.group[h].bottom # None
                PROVE  u.node[u.group[h].bottom].mgr = h
    OBVIOUS
  <2>. DEFINE b == q.group[h].bottom
  <2>1. h # g /\ u.group[h] = q.group[h]
    BY <1>9, <1>12 DEF NoGroup
  <2>2. b # None /\ b \in Regions
    BY <1>1, <2>1, WorldFields
  <2>3. q.node[b].mgr = h
    BY <1>1, <2>2 DEF MembersAgree
  <2>4. b \notin M
    BY <2>1, <2>3 DEF M, Members
  <2>. QED BY <1>13, <2>1, <2>2, <2>3, <2>4
<1>22. MembersAgree(u)
  <2>1. ASSUME NEW x \in Regions, u.node[x].mgr # None PROVE u.node[x].mgr \in Alive(u)
    <3>1. x \notin M /\ u.node[x] = q.node[x]
      BY <1>13, <2>1 DEF NoNode
    <3>2. q.node[x].mgr # g
      BY <3>1 DEF M, Members
    <3>. QED BY <1>1, <1>15, <2>1, <3>1, <3>2 DEF MembersAgree
  <2>2. u.up \subseteq Alive(u)
    BY <1>1, <1>12, <1>15 DEF MembersAgree
  <2>. QED BY <1>19, <1>20, <1>21, <2>1, <2>2 DEF MembersAgree
<1>23. Agree(u)
  BY <1>12, <1>14, <1>16, <1>22 DEF Agree
<1>24. M = {} => u.dead = q.dead /\ \A p \in PHolders \ stale : u.place[p] = q.place[p]
  BY <1>4, <1>10, <1>11, <1>12
<1>25. \A h \in Groups : u.group[h] = IF h = g THEN NoGroup ELSE q.group[h]
  BY <1>9, <1>12
<1>. QED BY <1>12, <1>13, <1>23, <1>24, <1>25 DEF M, stale, u

\* groupcw_rescue_clientwins
LEMMA RescuedIs ==
    ASSUME NEW q, Agree(q), NEW g \in Groups
    PROVE  LET u == Rescued(q, g)
               l == q.group[g].phs
               saved == g \in GroupsCW /\ l # <<>>
           IN /\ Agree(u)
              /\ u.rings = IF saved THEN q.rings \cup {l} ELSE q.rings
              /\ \A h \in Groups \ {g} : u.group[h] = q.group[h]
              /\ u.group[g].win = q.group[g].win
              /\ u.group[g].bottom = q.group[g].bottom
              /\ u.group[g].phs = IF saved THEN <<>> ELSE l
              /\ u.stack = q.stack /\ u.node = q.node /\ u.mapped = q.mapped
              /\ u.up = q.up /\ u.phs = q.phs /\ u.place = q.place
              /\ u.ret = q.ret /\ u.lost = q.lost /\ u.dead = q.dead
              /\ u.failed = q.failed
<1>. DEFINE u == Rescued(q, g)
            l == q.group[g].phs
            saved == g \in GroupsCW /\ l # <<>>
<1>1. q \in Worlds /\ MembersAgree(q) /\ ListsApart(q) /\ ReturnsApart(q)
  BY DEF Agree
<1>2. CASE ~saved
  <2>1. u = q
    BY <1>2 DEF Rescued
  <2>. QED BY <1>2, <2>1
<1>3. CASE saved
  <2>. DEFINE group == [q.group EXCEPT ![g].phs = <<>>]
  <2>1. u = [q EXCEPT !.rings = @ \cup {l}, !.group = group]
    BY <1>3 DEF Rescued
  <2>2. /\ q.group \in [Groups -> GroupStates] /\ q.rings \subseteq Seq(PHolders)
        /\ \A h \in Groups : q.group[h] \in GroupStates /\ q.group[h].phs \in Seq(PHolders)
    BY <1>1, WorldFields
  <2>3. \A h \in Groups :
          /\ group[h] \in GroupStates
          /\ group[h].win = q.group[h].win
          /\ group[h].bottom = q.group[h].bottom
          /\ group[h].phs = IF h = g THEN <<>> ELSE q.group[h].phs
          /\ h # g => group[h] = q.group[h]
    <3>. SUFFICES ASSUME NEW h \in Groups
                  PROVE  /\ group[h] \in GroupStates
                         /\ group[h].win = q.group[h].win
                         /\ group[h].bottom = q.group[h].bottom
                         /\ group[h].phs = IF h = g THEN <<>> ELSE q.group[h].phs
                         /\ h # g => group[h] = q.group[h]
      OBVIOUS
    <3>1. group[h] = IF h = g THEN [q.group[h] EXCEPT !.phs = <<>>] ELSE q.group[h]
      BY <2>2
    <3>2. q.group[h] \in GroupStates /\ <<>> \in Seq(PHolders)
      BY <2>2
    <3>. HIDE DEF group
    <3>. QED BY <3>1, <3>2 DEF GroupStates
  <2>4. group \in [Groups -> GroupStates]
    <3>1. \A h \in Groups : group[h] \in GroupStates
      BY <2>3
    <3>. QED BY <2>2, <3>1
  <2>. HIDE DEF u, group
  <2>5. l \in Seq(PHolders) /\ q.rings \cup {l} \in SUBSET Seq(PHolders)
    BY <2>2
  <2>. HIDE DEF l, saved
  <2>6. /\ u \in Worlds /\ u.rings = q.rings \cup {l} /\ u.group = group
        /\ u.stack = q.stack /\ u.node = q.node /\ u.mapped = q.mapped
        /\ u.up = q.up /\ u.phs = q.phs /\ u.place = q.place
        /\ u.ret = q.ret /\ u.lost = q.lost /\ u.dead = q.dead
        /\ u.failed = q.failed
    BY <1>1, <2>1, <2>4, <2>5 DEF Worlds
  <2>7. Alive(u) = Alive(q)
    BY <2>3, <2>6 DEF Alive
  <2>8. MembersAgree(u)
    <3>1. u.up \subseteq Alive(q)
      BY <1>1, <2>6 DEF MembersAgree
    <3>. QED BY <1>1, <2>3, <2>6, <3>1, MembersFrame
  <2>9. ReturnsApart(u)
    BY <1>1, <2>6, ReturnsFrame
  <2>10. ListsApart(u)
    <3>1. /\ \A h \in Groups :
              /\ IsInjective(q.group[h].phs) /\ ToSet(q.group[h].phs) \subseteq q.phs
              /\ h \notin Alive(q) => q.group[h].phs = <<>>
              /\ \A k \in Groups \ {h} : ToSet(q.group[h].phs) \cap ToSet(q.group[k].phs) = {}
              /\ \A s \in q.rings : ToSet(q.group[h].phs) \cap ToSet(s) = {}
          /\ \A s \in q.rings :
              /\ IsInjective(s) /\ ToSet(s) \subseteq q.phs
              /\ \A t \in q.rings \ {s} : ToSet(s) \cap ToSet(t) = {}
      BY <1>1 DEF ListsApart
    <3>2. /\ \A h \in Groups : u.group[h].phs = IF h = g THEN <<>> ELSE q.group[h].phs
          /\ ToSet(<<>>) = {} /\ IsInjective(<<>>)
      BY <2>3, <2>6 DEF ToSet, IsInjective
    <3>3. /\ IsInjective(l) /\ ToSet(l) \subseteq q.phs
          /\ \A h \in Groups \ {g} : ToSet(q.group[h].phs) \cap ToSet(l) = {}
          /\ \A s \in q.rings : ToSet(l) \cap ToSet(s) = {}
      BY <3>1 DEF l
    <3>4. u.rings = q.rings \cup {l} /\ u.phs = q.phs
      BY <2>6
    <3>5. ASSUME NEW h \in Groups
          PROVE  /\ IsInjective(u.group[h].phs) /\ ToSet(u.group[h].phs) \subseteq u.phs
                 /\ h \notin Alive(u) => u.group[h].phs = <<>>
                 /\ \A k \in Groups \ {h} :
                       ToSet(u.group[h].phs) \cap ToSet(u.group[k].phs) = {}
                 /\ \A s \in u.rings : ToSet(u.group[h].phs) \cap ToSet(s) = {}
      <4>1. CASE h = g
        <5>1. u.group[h].phs = <<>>
          BY <3>2, <4>1
        <5>. QED BY <3>2, <5>1
      <4>2. CASE h # g
        <5>1. u.group[h].phs = q.group[h].phs
          BY <3>2, <4>2
        <5>2. \A k \in Groups \ {h} :
                 ToSet(u.group[h].phs) \cap ToSet(u.group[k].phs) = {}
          BY <3>1, <3>2, <5>1
        <5>3. \A s \in u.rings : ToSet(u.group[h].phs) \cap ToSet(s) = {}
          BY <3>1, <3>3, <3>4, <4>2, <5>1
        <5>. QED BY <2>7, <3>1, <3>4, <5>1, <5>2, <5>3
      <4>. QED BY <4>1, <4>2
    <3>6. \A s \in u.rings :
              /\ IsInjective(s) /\ ToSet(s) \subseteq u.phs
              /\ \A t \in u.rings \ {s} : ToSet(s) \cap ToSet(t) = {}
      BY <3>1, <3>3, <3>4
    <3>. QED BY <3>5, <3>6 DEF ListsApart
  <2>11. Agree(u)
    BY <2>6, <2>8, <2>9, <2>10 DEF Agree
  <2>. QED BY <1>3, <2>3, <2>6, <2>11 DEF u, l, saved
<1>. QED BY <1>2, <1>3

\* What the list of a group is then.
LEMMA RescuedPhs ==
    ASSUME NEW q, Agree(q), NEW g \in Groups
    PROVE  /\ g \in GroupsCW => Rescued(q, g).group[g].phs = <<>>
           /\ g \notin GroupsCW => Rescued(q, g).group[g].phs = q.group[g].phs
<1>1. q \in Worlds
  BY DEF Agree
<1>2. q.group \in [Groups -> GroupStates] /\ q.group[g] \in GroupStates
  BY <1>1, WorldFields
<1>3. CASE g \in GroupsCW /\ q.group[g].phs # <<>>
  <2>. DEFINE group == [q.group EXCEPT ![g].phs = <<>>]
  <2>1. Rescued(q, g).group = group
    BY <1>1, <1>3 DEF Rescued, Worlds
  <2>2. group[g].phs = <<>>
    BY <1>2 DEF GroupStates
  <2>. QED BY <1>3, <2>1, <2>2
<1>4. CASE ~(g \in GroupsCW /\ q.group[g].phs # <<>>)
  <2>1. Rescued(q, g) = q
    BY <1>4 DEF Rescued
  <2>. QED BY <1>4, <2>1
<1>. QED BY <1>3, <1>4

\* region_postdetach_dispose.  No region is affected.
Goes(q, g) == g \in Alive(q) /\ Members(q, g) = {}
LEMMA DisposedIs ==
    ASSUME NEW q, Agree(q), NEW g \in Groups \cup {None}
    PROVE  LET u == Disposed(q, g)
           IN /\ Agree(u)
              /\ ~Goes(q, g) => u = q
              /\ u.node = q.node /\ u.ret = q.ret /\ u.dead = q.dead
              /\ u.mapped = q.mapped /\ u.up \subseteq q.up /\ u.failed = q.failed
              /\ \A h \in Groups \ {g} : u.group[h] = q.group[h]
              /\ Goes(q, g) => u.group[g] = NoGroup
              /\ q.rings \subseteq u.rings /\ u.lost \subseteq q.lost
              /\ u.phs \subseteq q.phs /\ q.phs \ q.lost \subseteq u.phs
              /\ g \in GroupsCW => /\ \A p \in PHolders : u.place[p] = q.place[p]
                                   /\ u.phs = q.phs /\ u.lost = q.lost
                                   /\ Goes(q, g) =>
                                        u.rings = q.rings \cup ({q.group[g].phs} \ {<<>>})
              /\ g \notin GroupsCW => u.rings = q.rings
<1>. DEFINE u == Disposed(q, g)
            b == Rescued(q, g)
            stale == ToSet(b.group[g].phs)
<1>1. q \in Worlds
  BY DEF Agree
<1>2. CASE ~Goes(q, g)
  <2>1. u = q
    BY <1>2 DEF Disposed, Goes
  <2>. QED BY <1>2, <2>1
<1>3. CASE Goes(q, g)
  <2>1. g \in Groups /\ g # None /\ g \in Alive(q) /\ Members(q, g) = {}
    <3>1. None \notin Alive(q)
      BY GroupsAssumption DEF Alive
    <3>. QED BY <1>3, <3>1 DEF Goes
  <2>2. u = GroupDestroyed(b, g)
    BY <2>1 DEF Disposed
  <2>. DEFINE l == q.group[g].phs
              saved == g \in GroupsCW /\ l # <<>>
  <2>3. /\ Agree(b)
        /\ b.rings = IF saved THEN q.rings \cup {l} ELSE q.rings
        /\ \A h \in Groups \ {g} : b.group[h] = q.group[h]
        /\ b.group[g].win = q.group[g].win
        /\ b.group[g].phs = IF saved THEN <<>> ELSE l
        /\ b.node = q.node /\ b.mapped = q.mapped
        /\ b.up = q.up /\ b.phs = q.phs /\ b.place = q.place
        /\ b.ret = q.ret /\ b.lost = q.lost /\ b.dead = q.dead
        /\ b.failed = q.failed
    <3>1. g \in Groups
      BY <2>1
    <3>2. /\ Agree(b)
          /\ b.rings = IF saved THEN q.rings \cup {l} ELSE q.rings
          /\ b.node = q.node /\ b.mapped = q.mapped
          /\ b.up = q.up /\ b.phs = q.phs /\ b.place = q.place
          /\ b.ret = q.ret /\ b.lost = q.lost /\ b.dead = q.dead
          /\ b.failed = q.failed
      BY <3>1, RescuedIs
    <3>3. \A h \in Groups \ {g} : b.group[h] = q.group[h]
      BY <3>1, RescuedIs
    <3>4. b.group[g].win = q.group[g].win
      BY <3>1, RescuedIs
    <3>5. b.group[g].phs = IF saved THEN <<>> ELSE l
      <4>1. /\ g \in GroupsCW => b.group[g].phs = <<>>
            /\ g \notin GroupsCW => b.group[g].phs = l
        BY <3>1, RescuedPhs
      <4>. QED BY <4>1
    <3>. QED BY <3>2, <3>3, <3>4, <3>5
  <2>. HIDE DEF b
  <2>4. g \in Alive(b) /\ Members(b, g) = {}
    BY <2>1, <2>3 DEF Alive, Members
  <2>. HIDE DEF u, stale
  <2>5. /\ Agree(u)
        /\ \A x \in Regions :
              /\ u.node[x] = IF x \in Members(b, g) THEN NoNode ELSE b.node[x]
              /\ u.ret[x] = IF x \in Members(b, g) THEN None ELSE b.ret[x]
        /\ \A h \in Groups : u.group[h] = IF h = g THEN NoGroup ELSE b.group[h]
        /\ u.mapped = b.mapped \ Members(b, g) /\ u.up = b.up \ {g}
        /\ u.phs = b.phs \ (stale \cap b.lost) /\ u.lost = b.lost \ stale
        /\ u.rings = b.rings /\ u.failed = b.failed
        /\ Members(b, g) = {} =>
              /\ u.dead = b.dead
              /\ \A p \in PHolders \ stale : u.place[p] = b.place[p]
    <3>1. Agree(b) /\ g \in Alive(b)
      BY <2>3, <2>4
    <3>. QED BY <2>2, <3>1, GroupDestroyedIs DEF stale
  <2>6. u \in Worlds
    BY <2>5 DEF Agree
  <2>7. u.node = q.node /\ u.ret = q.ret
    <3>1. /\ u.node \in [Regions -> Nodes] /\ q.node \in [Regions -> Nodes]
          /\ u.ret \in [Regions -> PHolders \cup {None}]
          /\ q.ret \in [Regions -> PHolders \cup {None}]
      BY <1>1, <2>6, WorldFields
    <3>2. \A x \in Regions : u.node[x] = q.node[x] /\ u.ret[x] = q.ret[x]
      BY <2>3, <2>4, <2>5
    <3>. QED BY <3>1, <3>2
  <2>8. g \in GroupsCW => b.group[g].phs = <<>> /\ stale = {}
    <3>1. g \in GroupsCW => b.group[g].phs = <<>>
      BY <2>1, <2>3
    <3>. QED BY <3>1 DEF stale, ToSet
  <2>9. b.rings = IF g \in GroupsCW THEN q.rings \cup ({l} \ {<<>>}) ELSE q.rings
    <3>. HIDE DEF l
    <3>. QED BY <2>3
  <2>. QED BY <1>3, <2>1, <2>3, <2>4, <2>5, <2>7, <2>8, <2>9 DEF u
<1>. QED BY <1>2, <1>3

\* region_disposeroot: some group, and not one that a region is attached to.
LEMMA DisposeRootIs ==
    ASSUME NEW q \in Worlds, NEW r \in Regions
    PROVE  /\ DisposeRoot(q, r) \in {q.node[r].mgr, None}
           /\ DisposeRoot(q, r) \in Groups \cup {None}
<1>1. q.node[r].mgr \in Groups \cup {None}
  BY WorldFields
<1>. QED BY <1>1 DEF DisposeRoot

\* group_do_attach
LEMMA AttachIs ==
    ASSUME NEW q, Agree(q), NEW g \in Alive(q), NEW r \in Regions,
           NEW place \in Places, NEW wasMapped \in BOOLEAN
    PROVE  LET u == Attach(q, g, r, place, wasMapped)
           IN /\ Agree(u) /\ u.node[r].mgr = g /\ g \in Alive(u)
              /\ u.ret[r] = None
              /\ \A x \in Regions \ {r} : u.ret[x] = q.ret[x]
              /\ u.dead = IF q.ret[r] = None THEN q.dead ELSE Append(q.dead, q.ret[r])
              /\ q.rings \subseteq u.rings /\ u.lost \subseteq q.lost
              /\ u.phs \subseteq q.phs /\ q.phs \ q.lost \subseteq u.phs
              /\ u.failed = q.failed
<1>. DEFINE b == Detached(q, r)
            mapped == wasMapped \/ r \in q.mapped
            c == Attached(b, g, r, place, mapped)
            d == DisposeRoot(q, r)
            u == Disposed(c, d)
<1>1. Attach(q, g, r, place, wasMapped) = u
  BY DEF Attach
<1>2. q \in Worlds /\ d \in Groups \cup {None}
  BY DisposeRootIs DEF Agree
<1>. HIDE DEF d
<1>3. /\ Agree(b) /\ b.node[r].mgr = None
      /\ \A h \in Groups : b.group[h].win = q.group[h].win
      /\ b.phs = q.phs /\ b.rings = q.rings /\ b.lost = q.lost /\ b.failed = q.failed
      /\ b.ret[r] = None /\ \A x \in Regions \ {r} : b.ret[x] = q.ret[x]
      /\ b.dead = IF q.ret[r] = None THEN q.dead ELSE Append(q.dead, q.ret[r])
  BY DetachedIs
<1>. HIDE DEF b
<1>4. g \in Alive(b) /\ mapped \in BOOLEAN
  BY <1>3 DEF Alive
<1>. HIDE DEF mapped
<1>5. /\ Agree(c) /\ c.node[r].mgr = g
      /\ c.phs = b.phs /\ c.rings = b.rings /\ c.lost = b.lost /\ c.failed = b.failed
      /\ c.ret = b.ret /\ c.dead = b.dead
  <2>1. Agree(b) /\ b.node[r].mgr = None /\ place \in Places /\ r \in Regions
    BY <1>3
  <2>2. Agree(c) /\ c.node[r].mgr = g
    BY <1>4, <2>1, AttachedIs
  <2>3. c.phs = b.phs /\ c.rings = b.rings /\ c.lost = b.lost /\ c.failed = b.failed
    BY <1>4, <2>1, AttachedIs
  <2>4. c.ret = b.ret /\ c.dead = b.dead
    BY <1>4, <2>1, AttachedIs
  <2>. QED BY <2>2, <2>3, <2>4
<1>. HIDE DEF c
<1>7. /\ Agree(u) /\ u.node = c.node /\ u.ret = c.ret /\ u.dead = c.dead
      /\ c.rings \subseteq u.rings /\ u.lost \subseteq c.lost
      /\ u.phs \subseteq c.phs /\ c.phs \ c.lost \subseteq u.phs
      /\ u.failed = c.failed
  BY <1>2, <1>5, DisposedIs
<1>. HIDE DEF u
<1>8. g \in Alive(u)
  <2>1. u.node[r].mgr = g /\ g # None
    BY <1>5, <1>7, GroupsAssumption DEF Alive
  <2>. QED BY <1>7, <2>1 DEF Agree, MembersAgree
<1>9. u.ret[r] = None /\ \A x \in Regions \ {r} : u.ret[x] = q.ret[x]
  BY <1>3, <1>5, <1>7
<1>. QED BY <1>1, <1>3, <1>5, <1>7, <1>8, <1>9

-----------------------------------------------------------------------------
(* Placeholders.                                                           *)

\* grouppholder_deinit, of one that no region returns to.
LEMMA DroppedIs ==
    ASSUME NEW q, Agree(q), NEW p \in PHolders, \A r \in Regions : q.ret[r] # p
    PROVE  LET u == Dropped(q, p)
           IN /\ Agree(u)
              /\ u.stack = q.stack /\ u.node = q.node /\ u.mapped = q.mapped
              /\ u.up = q.up /\ u.ret = q.ret /\ u.dead = q.dead
              /\ \A h \in Groups : u.group[h].win = q.group[h].win
                                   /\ u.group[h].bottom = q.group[h].bottom
              /\ u.phs = q.phs \ {p} /\ u.lost = q.lost \ {p}
<1>. DEFINE u == Dropped(q, p)
            place == [q.place EXCEPT ![p] = NoPlace]
            gone == [q EXCEPT !.phs = @ \ {p}, !.lost = @ \ {p}, !.place[p] = NoPlace]
            g == GroupOf(q, p)
            ring == CHOOSE s \in q.rings : p \in ToSet(s)
            rest == Unlink(ring, p)
            others == q.rings \ {ring}
<1>1. q \in Worlds /\ MembersAgree(q) /\ ListsApart(q) /\ ReturnsApart(q)
  BY DEF Agree
<1>2. place \in [PHolders -> Places]
  <2>1. NoPlace \in Places
    BY DEF NoPlace, Places, Normal
  <2>. QED BY <1>1, <2>1, WorldFields
<1>3. q.phs \ {p} \in SUBSET PHolders /\ q.lost \ {p} \in SUBSET PHolders
  BY <1>1, WorldFields
<1>4. /\ gone \in Worlds /\ gone.stack = q.stack /\ gone.node = q.node
      /\ gone.mapped = q.mapped /\ gone.group = q.group /\ gone.up = q.up
      /\ gone.rings = q.rings /\ gone.ret = q.ret /\ gone.dead = q.dead
      /\ gone.phs = q.phs \ {p} /\ gone.lost = q.lost \ {p}
      /\ gone.failed = q.failed
  <2>1. gone = [q EXCEPT !.phs = @ \ {p}, !.lost = @ \ {p}, !.place = place]
    OBVIOUS
  <2>. HIDE DEF place, gone
  <2>. QED BY <1>1, <1>2, <1>3, <2>1 DEF Worlds
<1>5. u = CASE g # None -> [gone EXCEPT !.group[g].phs = Unlink(@, p)]
            [] g = None /\ InRing(q, p) = {} -> gone
            [] OTHER ->
                 [gone EXCEPT
                    !.rings = others \cup ({rest} \ {<<>>}),
                    !.failed = CASE Len(ring) > 1 /\ p = Head(ring) -> "loop"
                                 [] Len(ring) > 1 /\ p = Last(ring) -> "assertion"
                                 [] OTHER -> @]
  BY Zenon DEF Dropped
<1>. HIDE DEF gone, u
<1>6. /\ \A h \in Groups :
            /\ IsInjective(q.group[h].phs) /\ ToSet(q.group[h].phs) \subseteq q.phs
            /\ h \notin Alive(q) => q.group[h].phs = <<>>
            /\ \A k \in Groups \ {h} : ToSet(q.group[h].phs) \cap ToSet(q.group[k].phs) = {}
            /\ \A s \in q.rings : ToSet(q.group[h].phs) \cap ToSet(s) = {}
      /\ \A s \in q.rings :
            /\ IsInjective(s) /\ ToSet(s) \subseteq q.phs
            /\ \A t \in q.rings \ {s} : ToSet(s) \cap ToSet(t) = {}
  BY <1>1 DEF ListsApart
<1>7. /\ q.rings \subseteq Seq(PHolders) /\ q.group \in [Groups -> GroupStates]
      /\ \A h \in Groups : q.group[h] \in GroupStates /\ q.group[h].phs \in Seq(PHolders)
  BY <1>1, WorldFields
<1>8. g # None => g \in Groups /\ p \in ToSet(q.group[g].phs)
  BY DEF GroupOf, Alive
<1>9. g = None => \A h \in Groups : p \notin ToSet(q.group[h].phs)
  <2>. SUFFICES ASSUME NEW h \in Groups, p \in ToSet(q.group[h].phs) PROVE g # None
    OBVIOUS
  <2>1. ToSet(<<>>) = {}
    BY DEF ToSet
  <2>2. h \in Alive(q)
    BY <1>6, <2>1
  <2>. DEFINE at == {k \in Alive(q) : p \in ToSet(q.group[k].phs)}
  <2>3. h \in at /\ g = CHOOSE k \in at : TRUE
    BY <2>2 DEF GroupOf
  <2>4. g \in Groups
    BY <2>3 DEF Alive
  <2>. QED BY <2>4, GroupsAssumption
<1>. HIDE DEF g
<1>10. /\ u \in Worlds
       /\ u.stack = q.stack /\ u.node = q.node /\ u.mapped = q.mapped
       /\ u.up = q.up /\ u.ret = q.ret /\ u.dead = q.dead
       /\ \A h \in Groups : u.group[h].win = q.group[h].win
                            /\ u.group[h].bottom = q.group[h].bottom
       /\ u.phs = q.phs \ {p} /\ u.lost = q.lost \ {p}
       /\ ListsApart(u)
  <2>1. CASE g # None
    <3>. DEFINE l == Unlink(q.group[g].phs, p)
                group == [q.group EXCEPT ![g].phs = l]
    <3>1. /\ l \in Seq(PHolders) /\ ToSet(l) = ToSet(q.group[g].phs) \ {p}
          /\ IsInjective(l) /\ g \in Groups
      <4>1. g \in Groups /\ p \in ToSet(q.group[g].phs)
        BY <1>8, <2>1
      <4>2. q.group[g].phs \in Seq(PHolders) /\ IsInjective(q.group[g].phs)
        BY <1>6, <1>7, <4>1
      <4>. QED BY <4>1, <4>2, UnlinkElements
    <3>2. u = [gone EXCEPT !.group = group]
      <4>1. u = [gone EXCEPT !.group[g].phs = Unlink(@, p)]
        BY <1>5, <2>1
      <4>. QED BY <1>4, <4>1
    <3>. HIDE DEF l
    <3>3. \A h \in Groups :
            /\ group[h] \in GroupStates
            /\ group[h].win = q.group[h].win /\ group[h].bottom = q.group[h].bottom
            /\ group[h].phs = IF h = g THEN l ELSE q.group[h].phs
      <4>. SUFFICES ASSUME NEW h \in Groups
                    PROVE  /\ group[h] \in GroupStates
                           /\ group[h].win = q.group[h].win
                           /\ group[h].bottom = q.group[h].bottom
                           /\ group[h].phs = IF h = g THEN l ELSE q.group[h].phs
        OBVIOUS
      <4>1. group[h] = IF h = g THEN [q.group[h] EXCEPT !.phs = l] ELSE q.group[h]
        BY <1>7
      <4>2. q.group[h] \in GroupStates
        BY <1>7
      <4>. HIDE DEF group
      <4>. QED BY <3>1, <4>1, <4>2 DEF GroupStates
    <3>4. group \in [Groups -> GroupStates]
      BY <1>7, <3>3
    <3>. HIDE DEF group
    <3>5. /\ u \in Worlds /\ u.stack = q.stack /\ u.node = q.node
          /\ u.mapped = q.mapped /\ u.up = q.up /\ u.ret = q.ret /\ u.dead = q.dead
          /\ u.group = group /\ u.phs = q.phs \ {p} /\ u.lost = q.lost \ {p}
          /\ u.rings = q.rings
      BY <1>4, <3>2, <3>4 DEF Worlds
    <3>6. Alive(u) = Alive(q)
      BY <3>3, <3>5 DEF Alive
    <3>7. p \in ToSet(q.group[g].phs) /\ (\A s \in q.rings : p \notin ToSet(s))
          /\ \A h \in Groups \ {g} : p \notin ToSet(q.group[h].phs)
      BY <1>6, <1>8, <2>1
    <3>8. g \in Alive(q)
      <4>1. ToSet(<<>>) = {}
        BY DEF ToSet
      <4>. QED BY <1>6, <3>1, <3>7, <4>1
    <3>9. \A h \in Groups :
            /\ u.group[h].phs = IF h = g THEN l ELSE q.group[h].phs
            /\ ToSet(u.group[h].phs) \subseteq ToSet(q.group[h].phs)
            /\ p \notin ToSet(u.group[h].phs)
      BY <3>1, <3>3, <3>5, <3>7
    <3>10. ASSUME NEW h \in Groups
           PROVE  /\ IsInjective(u.group[h].phs) /\ ToSet(u.group[h].phs) \subseteq u.phs
                  /\ h \notin Alive(u) => u.group[h].phs = <<>>
                  /\ \A k \in Groups \ {h} :
                        ToSet(u.group[h].phs) \cap ToSet(u.group[k].phs) = {}
                  /\ \A s \in u.rings : ToSet(u.group[h].phs) \cap ToSet(s) = {}
      <4>1. IsInjective(u.group[h].phs) /\ (h \notin Alive(u) => u.group[h].phs = <<>>)
        BY <1>6, <3>1, <3>6, <3>8, <3>9
      <4>2. ToSet(u.group[h].phs) \subseteq u.phs
        BY <1>6, <3>5, <3>9
      <4>3. \A k \in Groups \ {h} :
               ToSet(u.group[h].phs) \cap ToSet(u.group[k].phs) = {}
        BY <1>6, <3>9
      <4>4. \A s \in u.rings : ToSet(u.group[h].phs) \cap ToSet(s) = {}
        BY <1>6, <3>5, <3>9
      <4>. QED BY <4>1, <4>2, <4>3, <4>4
    <3>11. \A s \in u.rings :
              /\ IsInjective(s) /\ ToSet(s) \subseteq u.phs
              /\ \A t \in u.rings \ {s} : ToSet(s) \cap ToSet(t) = {}
      BY <1>6, <3>5, <3>7
    <3>12. ListsApart(u)
      BY <3>10, <3>11 DEF ListsApart
    <3>. QED BY <3>3, <3>5, <3>12
  <2>2. CASE g = None /\ InRing(q, p) = {}
    <3>1. u = gone
      BY <1>5, <2>2
    <3>2. \A s \in q.rings : p \notin ToSet(s)
      BY <2>2 DEF InRing
    <3>3. \A h \in Groups : p \notin ToSet(q.group[h].phs)
      BY <1>9, <2>2
    <3>4. Alive(u) = Alive(q)
      BY <1>4, <3>1 DEF Alive
    <3>5. ListsApart(u)
      <4>1. u.group = q.group /\ u.rings = q.rings /\ u.phs = q.phs \ {p}
        BY <1>4, <3>1
      <4>2. \A h \in Groups : ToSet(q.group[h].phs) \subseteq q.phs \ {p}
        BY <1>6, <3>3
      <4>3. \A s \in q.rings : ToSet(s) \subseteq q.phs \ {p}
        BY <1>6, <3>2
      <4>. QED BY <1>1, <3>4, <4>1, <4>2, <4>3 DEF ListsApart
    <3>. QED BY <1>4, <3>1, <3>5
  <2>3. CASE g = None /\ InRing(q, p) # {}
    <3>1. ring \in q.rings /\ p \in ToSet(ring)
      BY <2>3 DEF InRing
    <3>. HIDE DEF ring
    <3>2. /\ rest \in Seq(PHolders) /\ ToSet(rest) = ToSet(ring) \ {p}
          /\ IsInjective(rest)
      <4>1. ring \in Seq(PHolders) /\ IsInjective(ring)
        BY <1>6, <1>7, <3>1
      <4>. QED BY <3>1, <4>1, UnlinkElements
    <3>. DEFINE rings == others \cup ({rest} \ {<<>>})
                fails == CASE Len(ring) > 1 /\ p = Head(ring) -> "loop"
                           [] Len(ring) > 1 /\ p = Last(ring) -> "assertion"
                           [] OTHER -> q.failed
    <3>3. u = [gone EXCEPT !.rings = rings, !.failed = fails]
      <4>1. gone.failed = q.failed
        BY <1>4
      <4>. QED BY <1>5, <2>3, <4>1
    <3>4. fails \in {"no", "loop", "assertion"}
      BY <1>1, WorldFields
    <3>5. rings \in SUBSET Seq(PHolders)
      BY <1>7, <3>2
    <3>. HIDE DEF fails, rest
    <3>6. /\ u \in Worlds /\ u.stack = q.stack /\ u.node = q.node
          /\ u.mapped = q.mapped /\ u.up = q.up /\ u.ret = q.ret /\ u.dead = q.dead
          /\ u.group = q.group /\ u.phs = q.phs \ {p} /\ u.lost = q.lost \ {p}
          /\ u.rings = rings
      <4>. HIDE DEF rings
      <4>. QED BY <1>4, <3>3, <3>4, <3>5 DEF Worlds
    <3>7. Alive(u) = Alive(q)
      BY <3>6 DEF Alive
    <3>8. /\ \A h \in Groups : p \notin ToSet(q.group[h].phs)
          /\ \A s \in others : p \notin ToSet(s)
      BY <1>6, <1>9, <2>3, <3>1
    <3>9. \A s \in rings : \/ s \in q.rings /\ s # ring /\ p \notin ToSet(s)
                           \/ s = rest
      BY <3>8
    <3>. HIDE DEF rings
    <3>10. ASSUME NEW h \in Groups
           PROVE  /\ IsInjective(u.group[h].phs) /\ ToSet(u.group[h].phs) \subseteq u.phs
                  /\ h \notin Alive(u) => u.group[h].phs = <<>>
                  /\ \A k \in Groups \ {h} :
                        ToSet(u.group[h].phs) \cap ToSet(u.group[k].phs) = {}
                  /\ \A s \in u.rings : ToSet(u.group[h].phs) \cap ToSet(s) = {}
      <4>1. \A s \in u.rings : ToSet(u.group[h].phs) \cap ToSet(s) = {}
        BY <1>6, <3>1, <3>2, <3>6, <3>9
      <4>. QED BY <1>6, <3>6, <3>7, <3>8, <4>1
    <3>11. \A s \in u.rings :
              /\ IsInjective(s) /\ ToSet(s) \subseteq u.phs
              /\ \A t \in u.rings \ {s} : ToSet(s) \cap ToSet(t) = {}
      <4>. SUFFICES ASSUME NEW s \in rings
                    PROVE  /\ IsInjective(s) /\ ToSet(s) \subseteq u.phs
                           /\ \A t \in rings \ {s} : ToSet(s) \cap ToSet(t) = {}
        BY <3>6
      <4>1. IsInjective(s)
        BY <1>6, <3>2, <3>9
      <4>2. ToSet(s) \subseteq u.phs
        BY <1>6, <3>1, <3>2, <3>6, <3>9
      <4>3. ASSUME NEW t \in rings, t # s PROVE ToSet(s) \cap ToSet(t) = {}
        <5>1. CASE s = rest
          <6>1. t \in q.rings /\ t # ring
            BY <3>9, <4>3, <5>1
          <6>2. ToSet(ring) \cap ToSet(t) = {}
            BY <1>6, <3>1, <6>1
          <6>. QED BY <3>2, <5>1, <6>2
        <5>2. CASE t = rest
          <6>1. s \in q.rings /\ s # ring
            BY <3>9, <4>3, <5>2
          <6>2. ToSet(ring) \cap ToSet(s) = {}
            BY <1>6, <3>1, <6>1
          <6>. QED BY <3>2, <5>2, <6>2
        <5>3. CASE s # rest /\ t # rest
          BY <1>6, <3>9, <4>3, <5>3
        <5>. QED BY <5>1, <5>2, <5>3
      <4>. QED BY <4>1, <4>2, <4>3
    <3>12. ListsApart(u)
      BY <3>10, <3>11 DEF ListsApart
    <3>. QED BY <3>6, <3>12
  <2>. QED BY <2>1, <2>2, <2>3
<1>11. MembersAgree(u)
  <2>1. u.up \subseteq Alive(q)
    BY <1>1, <1>10 DEF MembersAgree
  <2>. QED BY <1>1, <1>10, <2>1, MembersFrame
<1>12. ReturnsApart(u)
  BY <1>1, <1>10 DEF ReturnsApart
<1>. QED BY <1>10, <1>11, <1>12 DEF Agree, u

\* The deferred destructions, whose placeholders no region returns to.
LEMMA SettledIs ==
    ASSUME NEW q, Agree(q)
    PROVE  LET u == Settled(q)
           IN /\ Agree(u) /\ u.dead = <<>>
              /\ u.stack = q.stack /\ u.node = q.node /\ u.mapped = q.mapped
              /\ u.up = q.up /\ u.ret = q.ret
              /\ \A h \in Groups : u.group[h].win = q.group[h].win
                                   /\ u.group[h].bottom = q.group[h].bottom
<1>. DEFINE N == Len(q.dead)
            q0 == [q EXCEPT !.dead = <<>>]
            next(n, z) == Dropped(z, q.dead[n])
            Good(z) ==
                /\ Agree(z) /\ z.dead = <<>>
                /\ z.stack = q.stack /\ z.node = q.node /\ z.mapped = q.mapped
                /\ z.up = q.up /\ z.ret = q.ret
                /\ \A h \in Groups : z.group[h].win = q.group[h].win
                                     /\ z.group[h].bottom = q.group[h].bottom
            G == {z \in Worlds : Good(z)}
            Body(f) == [n \in 0 .. N |-> IF n = 0 THEN q0 ELSE next(n, f[n - 1])]
            step == [n \in 1 .. N |-> [z \in G |-> next(n, z)]]
            settled == CHOOSE f : f = Body(f)
<1>1. q \in Worlds /\ MembersAgree(q) /\ ListsApart(q) /\ ReturnsApart(q)
  BY DEF Agree
<1>2. q.dead \in Seq(PHolders)
  BY <1>1, WorldFields
<1>3. N \in Nat /\ \A n \in 1 .. N : q.dead[n] \in PHolders /\ q.dead[n] \in ToSet(q.dead)
  BY <1>2 DEF ToSet
<1>4. Settled(q) = settled[N]
  BY DEF Settled
<1>5. q0 \in G
  <2>1. /\ q0 \in Worlds /\ q0.dead = <<>>
        /\ q0.stack = q.stack /\ q0.node = q.node /\ q0.mapped = q.mapped
        /\ q0.up = q.up /\ q0.ret = q.ret /\ q0.group = q.group
        /\ q0.phs = q.phs /\ q0.rings = q.rings /\ q0.lost = q.lost
    <3>. DEFINE none == <<>>
    <3>1. none \in Seq(PHolders)
      OBVIOUS
    <3>2. q0 = [q EXCEPT !.dead = none]
      OBVIOUS
    <3>. HIDE DEF none, q0
    <3>3. /\ q0 \in Worlds /\ q0.dead = none
          /\ q0.stack = q.stack /\ q0.node = q.node /\ q0.mapped = q.mapped
          /\ q0.up = q.up /\ q0.ret = q.ret /\ q0.group = q.group
          /\ q0.phs = q.phs /\ q0.rings = q.rings /\ q0.lost = q.lost
      BY <1>1, <3>1, <3>2 DEF Worlds
    <3>. QED BY <3>3 DEF none
  <2>. HIDE DEF q0
  <2>2. MembersAgree(q0)
    <3>1. q0.up \subseteq Alive(q)
      BY <1>1, <2>1 DEF MembersAgree
    <3>. QED BY <1>1, <2>1, <3>1, MembersFrame
  <2>3. ListsApart(q0)
    <3>1. Alive(q0) = Alive(q)
      BY <2>1 DEF Alive
    <3>. QED BY <1>1, <2>1, <3>1, ListsFrame
  <2>4. ReturnsApart(q0)
    <3>1. ToSet(q0.dead) = {}
      BY <2>1 DEF ToSet
    <3>. QED BY <1>1, <2>1, <3>1 DEF ReturnsApart
  <2>. QED BY <2>1, <2>2, <2>3, <2>4 DEF Agree
<1>6. ASSUME NEW n \in 1 .. N, NEW z \in G PROVE next(n, z) \in G
  <2>. DEFINE p == q.dead[n]
              y == Dropped(z, p)
  <2>1. p \in PHolders /\ \A r \in Regions : q.ret[r] # p
    BY <1>1, <1>3, GroupsAssumption DEF ReturnsApart
  <2>2. Good(z)
    OBVIOUS
  <2>. HIDE DEF p, y
  <2>3. /\ Agree(y)
        /\ y.stack = z.stack /\ y.node = z.node /\ y.mapped = z.mapped
        /\ y.up = z.up /\ y.ret = z.ret /\ y.dead = z.dead
        /\ \A h \in Groups : y.group[h].win = z.group[h].win
                             /\ y.group[h].bottom = z.group[h].bottom
    <3>1. Agree(z) /\ \A r \in Regions : z.ret[r] # p
      BY <2>1, <2>2
    <3>. HIDE DEF Good
    <3>. QED BY <2>1, <3>1, DroppedIs DEF y
  <2>4. Good(y)
    BY <2>2, <2>3
  <2>. HIDE DEF Good
  <2>. QED BY <2>3, <2>4 DEF Agree, y, p
<1>7. settled[0] = q0 /\ \A n \in 1 .. N : settled[n] = next(n, settled[n - 1])
  <2>. HIDE DEF next, N, G
  <2>1. step \in [1 .. N -> [G -> G]]
    BY <1>6
  <2>2. PICK f \in [0 .. N -> G] : Recurs(f, N, q0, step)
    <3>. HIDE DEF step, q0
    <3>. QED BY <1>3, <1>5, <2>1, RecursionExists
  <2>3. ASSUME NEW n \in 1 .. N PROVE f[n] = next(n, f[n - 1])
    <3>1. f[n - 1] \in G /\ f[n] = step[n][f[n - 1]]
      <4>. HIDE DEF step
      <4>. QED BY <1>3, <2>2 DEF Recurs
    <3>. QED BY <3>1
  <2>4. f[0] = q0
    BY <2>2 DEF Recurs
  <2>5. f = Body(f)
    <3>. HIDE DEF q0
    <3>1. \A n \in 0 .. N : f[n] = Body(f)[n]
      BY <1>3, <2>3, <2>4
    <3>. QED BY <3>1
  <2>6. settled = Body(settled)
    <3>. HIDE DEF Body
    <3>. QED BY <2>5
  <2>. HIDE DEF settled, q0
  <2>. QED BY <1>3, <2>6
<1>8. settled[N] \in G
  <2>. DEFINE S == {n \in 0 .. N : settled[n] \in G}
  <2>. HIDE DEF settled, G, next, q0
  <2>1. 0 \in S /\ \A n \in 1 .. N : n - 1 \in S => n \in S
    BY <1>3, <1>5, <1>6, <1>7
  <2>. HIDE DEF S, N
  <2>2. \A n \in 0 .. N : n \in S
    BY <1>3, <2>1, Induction
  <2>. QED BY <1>3, <2>2 DEF S
<1>. HIDE DEF settled
<1>. QED BY <1>4, <1>8

\* grouppholder_init, of one that is not there yet.
LEMMA NewPHolderIs ==
    ASSUME NEW q, Agree(q), NEW p \in PHolders \ q.phs, NEW g \in Alive(q),
           NEW place \in Places
    PROVE  LET u == NewPHolder(q, p, g, place)
           IN /\ Agree(u)
              /\ u.stack = q.stack /\ u.node = q.node /\ u.mapped = q.mapped
              /\ u.up = q.up /\ u.ret = q.ret /\ u.dead = q.dead
              /\ u.rings = q.rings /\ u.lost = q.lost /\ u.failed = q.failed
              /\ \A h \in Groups : u.group[h].win = q.group[h].win
                                   /\ u.group[h].bottom = q.group[h].bottom
              /\ \A h \in Groups \ {g} : u.group[h].phs = q.group[h].phs
              /\ ToSet(u.group[g].phs) = ToSet(q.group[g].phs) \cup {p}
              /\ u.phs = q.phs \cup {p}
              /\ u.place[p] = place
              /\ \A x \in PHolders \ {p} : u.place[x] = q.place[x]
<1>. DEFINE u == NewPHolder(q, p, g, place)
            l == <<p>> \o q.group[g].phs
            phs == q.phs \cup {p}
            places == [q.place EXCEPT ![p] = place]
            group == [q.group EXCEPT ![g].phs = l]
<1>1. q \in Worlds /\ MembersAgree(q) /\ ListsApart(q) /\ ReturnsApart(q)
  BY DEF Agree
<1>2. /\ q.rings \subseteq Seq(PHolders) /\ q.group \in [Groups -> GroupStates]
      /\ \A h \in Groups : q.group[h] \in GroupStates /\ q.group[h].phs \in Seq(PHolders)
      /\ q.phs \subseteq PHolders /\ q.place \in [PHolders -> Places]
  BY <1>1, WorldFields
<1>3. g \in Groups
  BY DEF Alive
<1>4. /\ \A h \in Groups :
            /\ IsInjective(q.group[h].phs) /\ ToSet(q.group[h].phs) \subseteq q.phs
            /\ h \notin Alive(q) => q.group[h].phs = <<>>
            /\ \A k \in Groups \ {h} : ToSet(q.group[h].phs) \cap ToSet(q.group[k].phs) = {}
            /\ \A s \in q.rings : ToSet(q.group[h].phs) \cap ToSet(s) = {}
      /\ \A s \in q.rings :
            /\ IsInjective(s) /\ ToSet(s) \subseteq q.phs
            /\ \A t \in q.rings \ {s} : ToSet(s) \cap ToSet(t) = {}
  BY <1>1 DEF ListsApart
<1>5. /\ l \in Seq(PHolders) /\ IsInjective(l)
      /\ ToSet(l) = ToSet(q.group[g].phs) \cup {p}
  <2>1. q.group[g].phs \in Seq(PHolders) /\ IsInjective(q.group[g].phs)
        /\ p \notin ToSet(q.group[g].phs)
    BY <1>2, <1>3, <1>4
  <2>. QED BY <2>1, PrependElements
<1>6. u = [q EXCEPT !.phs = phs, !.place = places, !.group = group]
  BY DEF NewPHolder
<1>. HIDE DEF l
<1>7. \A h \in Groups :
        /\ group[h] \in GroupStates
        /\ group[h].win = q.group[h].win /\ group[h].bottom = q.group[h].bottom
        /\ group[h].phs = IF h = g THEN l ELSE q.group[h].phs
  <2>. SUFFICES ASSUME NEW h \in Groups
                PROVE  /\ group[h] \in GroupStates
                       /\ group[h].win = q.group[h].win
                       /\ group[h].bottom = q.group[h].bottom
                       /\ group[h].phs = IF h = g THEN l ELSE q.group[h].phs
    OBVIOUS
  <2>1. group[h] = IF h = g THEN [q.group[h] EXCEPT !.phs = l] ELSE q.group[h]
    BY <1>2
  <2>2. q.group[h] \in GroupStates
    BY <1>2
  <2>. HIDE DEF group
  <2>. QED BY <1>5, <2>1, <2>2 DEF GroupStates
<1>8. group \in [Groups -> GroupStates] /\ phs \in SUBSET PHolders
      /\ places \in [PHolders -> Places]
  BY <1>2, <1>7
<1>. HIDE DEF group, phs, places, u
<1>9. /\ u \in Worlds /\ u.stack = q.stack /\ u.node = q.node
      /\ u.mapped = q.mapped /\ u.up = q.up /\ u.ret = q.ret /\ u.dead = q.dead
      /\ u.rings = q.rings /\ u.lost = q.lost /\ u.failed = q.failed
      /\ u.phs = phs /\ u.place = places /\ u.group = group
  BY <1>1, <1>6, <1>8 DEF Worlds
<1>10. Alive(u) = Alive(q)
  BY <1>7, <1>9 DEF Alive
<1>11. MembersAgree(u)
  <2>1. u.up \subseteq Alive(q)
    BY <1>1, <1>9 DEF MembersAgree
  <2>. QED BY <1>1, <1>7, <1>9, <2>1, MembersFrame
<1>12. /\ \A h \in Groups : p \notin ToSet(q.group[h].phs)
       /\ \A s \in q.rings : p \notin ToSet(s)
       /\ phs = q.phs \cup {p}
  BY <1>4 DEF phs
<1>13. ListsApart(u)
  <2>1. ASSUME NEW h \in Groups
        PROVE  /\ IsInjective(u.group[h].phs) /\ ToSet(u.group[h].phs) \subseteq u.phs
               /\ h \notin Alive(u) => u.group[h].phs = <<>>
               /\ \A k \in Groups \ {h} :
                     ToSet(u.group[h].phs) \cap ToSet(u.group[k].phs) = {}
               /\ \A s \in u.rings : ToSet(u.group[h].phs) \cap ToSet(s) = {}
    <3>1. \A k \in Groups : u.group[k].phs = IF k = g THEN l ELSE q.group[k].phs
      BY <1>7, <1>9
    <3>2. IsInjective(u.group[h].phs) /\ ToSet(u.group[h].phs) \subseteq u.phs
      BY <1>3, <1>4, <1>5, <1>9, <1>12, <3>1
    <3>3. h \notin Alive(u) => u.group[h].phs = <<>>
      BY <1>4, <1>10, <3>1
    <3>4. \A k \in Groups \ {h} :
             ToSet(u.group[h].phs) \cap ToSet(u.group[k].phs) = {}
      BY <1>3, <1>4, <1>5, <1>12, <3>1
    <3>5. \A s \in u.rings : ToSet(u.group[h].phs) \cap ToSet(s) = {}
      BY <1>3, <1>4, <1>5, <1>9, <1>12, <3>1
    <3>. QED BY <3>2, <3>3, <3>4, <3>5
  <2>2. \A s \in u.rings :
           /\ IsInjective(s) /\ ToSet(s) \subseteq u.phs
           /\ \A t \in u.rings \ {s} : ToSet(s) \cap ToSet(t) = {}
    BY <1>4, <1>9, <1>12
  <2>. QED BY <2>1, <2>2 DEF ListsApart
<1>14. ReturnsApart(u)
  BY <1>1, <1>9, <1>12, ReturnsFrame
<1>15. /\ \A h \in Groups : u.group[h].win = q.group[h].win
                            /\ u.group[h].bottom = q.group[h].bottom
       /\ \A h \in Groups \ {g} : u.group[h].phs = q.group[h].phs
       /\ ToSet(u.group[g].phs) = ToSet(q.group[g].phs) \cup {p}
  BY <1>3, <1>5, <1>7, <1>9
<1>16. u.place[p] = place /\ \A x \in PHolders \ {p} : u.place[x] = q.place[x]
  BY <1>2, <1>9 DEF places
<1>. QED BY <1>9, <1>11, <1>12, <1>13, <1>14, <1>15, <1>16 DEF Agree, u, l

\* group_managed_get_pholder
LEMMA PlaceOfIs ==
    ASSUME NEW q \in Worlds, NEW r \in Regions
    PROVE  PlaceOf(q, r) \in Places
<1>1. q.node[r].level \in Nat /\ q.node[r].above \in Regions \cup {None}
  BY WorldFields
<1>. QED BY <1>1 DEF PlaceOf, Places

\* The placeholder that a region gets to return by is no other's.
LEMMA WithReturnIs ==
    ASSUME NEW q, Agree(q), NEW r \in Regions, q.node[r].mgr # None, q.dead = <<>>,
           NEW p \in IF q.ret[r] # None THEN {q.ret[r]} ELSE PHolders \ q.phs
    PROVE  LET u == WithReturn(q, r, p)
           IN /\ Agree(u) /\ p \in u.phs \ u.lost /\ p \notin ToSet(u.dead)
              /\ \A x \in Regions : u.ret[x] # p
              /\ u.ret[r] = None
              /\ u.stack = q.stack /\ u.node = q.node /\ u.mapped = q.mapped
              /\ u.up = q.up /\ u.dead = q.dead
              /\ \A h \in Groups : u.group[h].win = q.group[h].win
                                   /\ u.group[h].bottom = q.group[h].bottom
<1>. DEFINE u == WithReturn(q, r, p)
            g == q.node[r].mgr
<1>1. q \in Worlds /\ MembersAgree(q) /\ ListsApart(q) /\ ReturnsApart(q)
  BY DEF Agree
<1>2. q.ret \in [Regions -> PHolders \cup {None}] /\ q.dead \in Seq(PHolders)
  BY <1>1, WorldFields
<1>3. CASE q.ret[r] # None
  <2>1. p = q.ret[r] /\ p \in PHolders
    BY <1>2, <1>3
  <2>. DEFINE ret == [q.ret EXCEPT ![r] = None]
  <2>2. u = [q EXCEPT !.ret = ret]
    BY <2>1 DEF WithReturn
  <2>3. ret \in [Regions -> PHolders \cup {None}]
        /\ \A x \in Regions : ret[x] = IF x = r THEN None ELSE q.ret[x]
    BY <1>2
  <2>. HIDE DEF ret, u
  <2>4. /\ u \in Worlds /\ u.ret = ret
        /\ u.stack = q.stack /\ u.node = q.node /\ u.mapped = q.mapped
        /\ u.group = q.group /\ u.phs = q.phs /\ u.rings = q.rings
        /\ u.up = q.up /\ u.dead = q.dead /\ u.lost = q.lost
    BY <1>1, <2>2, <2>3 DEF Worlds
  <2>5. MembersAgree(u)
    <3>1. u.up \subseteq Alive(q)
      BY <1>1, <2>4 DEF MembersAgree
    <3>. QED BY <1>1, <2>4, <3>1, MembersFrame
  <2>6. ListsApart(u)
    <3>1. Alive(u) = Alive(q)
      BY <2>4 DEF Alive
    <3>. QED BY <1>1, <2>4, <3>1, ListsFrame
  <2>7. ReturnsApart(u)
    BY <1>1, <2>3, <2>4 DEF ReturnsApart
  <2>8. p \in u.phs \ u.lost /\ p \notin ToSet(u.dead)
    BY <1>1, <1>3, <2>1, <2>4 DEF ReturnsApart
  <2>9. \A x \in Regions : u.ret[x] # p
    BY <1>1, <1>3, <2>1, <2>3, <2>4 DEF ReturnsApart
  <2>10. u.ret[r] = None
    BY <2>3, <2>4
  <2>. QED BY <2>4, <2>5, <2>6, <2>7, <2>8, <2>9, <2>10 DEF Agree, u
<1>4. CASE q.ret[r] = None
  <2>. DEFINE place == PlaceOf(q, r)
  <2>1. p \in PHolders \ q.phs /\ p # None /\ q.ret[r] # p
    BY <1>4, GroupsAssumption
  <2>2. g \in Alive(q) /\ place \in Places
    BY <1>1, PlaceOfIs DEF MembersAgree
  <2>3. u = NewPHolder(q, p, g, place)
    BY <2>1 DEF WithReturn
  <2>. HIDE DEF place, u, g
  <2>4. /\ Agree(u)
        /\ u.stack = q.stack /\ u.node = q.node /\ u.mapped = q.mapped
        /\ u.up = q.up /\ u.ret = q.ret /\ u.dead = q.dead /\ u.lost = q.lost
        /\ u.phs = q.phs \cup {p}
    <3>1. Agree(u)
      BY <2>1, <2>2, <2>3, NewPHolderIs
    <3>2. u.stack = q.stack /\ u.node = q.node /\ u.mapped = q.mapped
      BY <2>1, <2>2, <2>3, NewPHolderIs
    <3>3. u.up = q.up /\ u.ret = q.ret /\ u.dead = q.dead
      BY <2>1, <2>2, <2>3, NewPHolderIs
    <3>4. u.lost = q.lost /\ u.phs = q.phs \cup {p}
      BY <2>1, <2>2, <2>3, NewPHolderIs
    <3>. QED BY <3>1, <3>2, <3>3, <3>4
  <2>5. \A h \in Groups : u.group[h].win = q.group[h].win
                          /\ u.group[h].bottom = q.group[h].bottom
    BY <2>1, <2>2, <2>3, NewPHolderIs
  <2>6. p \notin u.lost /\ p \notin ToSet(u.dead)
    <3>1. q.lost \subseteq q.phs
      BY <1>1 DEF ReturnsApart
    <3>2. ToSet(u.dead) = {}
      BY <2>4 DEF ToSet
    <3>. QED BY <2>1, <2>4, <3>1, <3>2
  <2>7. \A x \in Regions : u.ret[x] # p
    BY <1>1, <2>1, <2>4 DEF ReturnsApart
  <2>. QED BY <1>4, <2>4, <2>5, <2>6, <2>7 DEF u
<1>. QED BY <1>3, <1>4

\* A region is to return by a placeholder that no other is to return by.
LEMMA ReturningIs ==
    ASSUME NEW q, Agree(q), NEW r \in Regions, NEW p \in PHolders,
           p \in q.phs \ q.lost, p \notin ToSet(q.dead),
           \A x \in Regions : q.ret[x] # p
    PROVE  LET u == [q EXCEPT !.ret[r] = p]
           IN /\ Agree(u) /\ u.stack = q.stack /\ u.node = q.node
              /\ u.mapped = q.mapped /\ u.group = q.group /\ u.phs = q.phs
              /\ u.rings = q.rings /\ u.up = q.up /\ u.dead = q.dead
              /\ u.lost = q.lost /\ u.place = q.place /\ u.failed = q.failed
              /\ u.ret = [q.ret EXCEPT ![r] = p]
<1>. DEFINE ret == [q.ret EXCEPT ![r] = p]
            u == [q EXCEPT !.ret = ret]
<1>1. q \in Worlds /\ MembersAgree(q) /\ ListsApart(q) /\ ReturnsApart(q)
  BY DEF Agree
<1>2. q.ret \in [Regions -> PHolders \cup {None}] /\ q.dead \in Seq(PHolders)
  BY <1>1, WorldFields
<1>3. ret \in [Regions -> PHolders \cup {None}]
      /\ \A x \in Regions : ret[x] = IF x = r THEN p ELSE q.ret[x]
  BY <1>2
<1>. HIDE DEF ret
<1>4. /\ u \in Worlds /\ u.ret = ret
      /\ u.stack = q.stack /\ u.node = q.node /\ u.mapped = q.mapped
      /\ u.group = q.group /\ u.phs = q.phs /\ u.rings = q.rings
      /\ u.up = q.up /\ u.dead = q.dead /\ u.lost = q.lost
      /\ u.place = q.place /\ u.failed = q.failed
  BY <1>1, <1>3 DEF Worlds
<1>. HIDE DEF u
<1>5. MembersAgree(u)
  <2>1. u.up \subseteq Alive(q)
    BY <1>1, <1>4 DEF MembersAgree
  <2>. QED BY <1>1, <1>4, <2>1, MembersFrame
<1>6. ListsApart(u)
  <2>1. Alive(u) = Alive(q)
    BY <1>4 DEF Alive
  <2>. QED BY <1>1, <1>4, <2>1, ListsFrame
<1>7. ReturnsApart(u)
  BY <1>1, <1>3, <1>4 DEF ReturnsApart
<1>. QED BY <1>4, <1>5, <1>6, <1>7 DEF Agree, u, ret

-----------------------------------------------------------------------------
(* Showing and raising, which change neither who is where nor placeholders. *)

SameMembers(q, u) ==
    /\ u.node = q.node /\ u.group = q.group /\ u.phs = q.phs
    /\ u.place = q.place /\ u.rings = q.rings /\ u.ret = q.ret
    /\ u.lost = q.lost /\ u.dead = q.dead /\ u.failed = q.failed

LEMMA SameMembersAgree ==
    ASSUME NEW q, Agree(q), NEW u \in Worlds, SameMembers(q, u), u.up \subseteq Alive(q),
           \A v \in Windows : Stacked(u.stack[v], Shows(q, v), Level(q), Above(q))
    PROVE  Agree(u)
<1>1. q \in Worlds /\ MembersAgree(q) /\ ListsApart(q) /\ ReturnsApart(q)
  BY DEF Agree
<1>2. Level(u) = Level(q) /\ Above(u) = Above(q) /\ Alive(u) = Alive(q)
      /\ \A v : Shows(u, v) = Shows(q, v)
  BY DEF Level, Above, Alive, Shows, SameMembers
<1>3. TreesAgree(u)
  BY <1>1 DEF TreesAgree, MembersAgree, SameMembers
<1>4. MembersAgree(u)
  BY <1>1, <1>2, <1>3 DEF MembersAgree, SameMembers
<1>5. ListsApart(u)
  <2>1. Alive(q) \subseteq Alive(u)
    BY <1>2
  <2>. QED BY <1>1, <2>1, ListsFrame DEF SameMembers
<1>6. ReturnsApart(u)
  BY <1>1, ReturnsFrame DEF SameMembers
<1>. QED BY <1>4, <1>5, <1>6 DEF Agree

LEMMA SameMembersShown ==
    ASSUME NEW q, Agree(q), NEW u \in Worlds, SameMembers(q, u), u.up \subseteq Alive(q),
           u.stack = q.stack
    PROVE  Agree(u)
<1>1. \A v \in Windows : Stacked(u.stack[v], Shows(q, v), Level(q), Above(q))
  BY DEF Agree, MembersAgree
<1>. QED BY <1>1, SameMembersAgree

\* group_map
LEMMA ShownIs ==
    ASSUME NEW q, Agree(q), NEW g \in Alive(q)
    PROVE  LET u == Shown(q, g)
           IN Agree(u) /\ SameMembers(q, u) /\ u.up = q.up \cup {g}
              /\ u.stack = q.stack /\ u.mapped = q.mapped \cup Members(q, g)
<1>. DEFINE up == q.up \cup {g}
            mapped == q.mapped \cup Members(q, g)
<1>1. q \in Worlds /\ MembersAgree(q)
  BY DEF Agree
<1>2. up \subseteq Alive(q) /\ mapped \subseteq Regions
  BY <1>1, WorldFields DEF MembersAgree, Members
<1>. DEFINE u == Shown(q, g)
<1>3. u = [q EXCEPT !.up = up, !.mapped = mapped]
  BY DEF Shown
<1>. HIDE DEF up, mapped, u
<1>4. /\ u \in Worlds /\ SameMembers(q, u)
      /\ u.up = up /\ u.mapped = mapped /\ u.stack = q.stack
  <2>1. up \subseteq Groups
    BY <1>2 DEF Alive
  <2>. QED BY <1>1, <1>2, <1>3, <2>1 DEF Worlds, SameMembers
<1>5. Agree(u)
  BY <1>2, <1>4, SameMembersShown
<1>. QED BY <1>4, <1>5 DEF up, mapped, u

\* group_unmap
LEMMA HiddenAllIs ==
    ASSUME NEW q, Agree(q), NEW gone
    PROVE  LET u == HiddenAll(q, gone)
           IN Agree(u) /\ SameMembers(q, u) /\ u.up = q.up \ gone
              /\ u.stack = q.stack /\ u.mapped \subseteq q.mapped
<1>. DEFINE up == q.up \ gone
            mapped == {r \in q.mapped : q.node[r].mgr \notin gone}
<1>1. q \in Worlds /\ MembersAgree(q)
  BY DEF Agree
<1>2. up \subseteq Alive(q) /\ mapped \subseteq Regions /\ mapped \subseteq q.mapped
  BY <1>1, WorldFields DEF MembersAgree
<1>. DEFINE u == HiddenAll(q, gone)
<1>3. u = [q EXCEPT !.up = up, !.mapped = mapped]
  BY DEF HiddenAll
<1>. HIDE DEF up, mapped, u
<1>4. /\ u \in Worlds /\ SameMembers(q, u)
      /\ u.up = up /\ u.mapped = mapped /\ u.stack = q.stack
  <2>1. up \subseteq Groups
    BY <1>2 DEF Alive
  <2>. QED BY <1>1, <1>2, <1>3, <2>1 DEF Worlds, SameMembers
<1>5. Agree(u)
  BY <1>2, <1>4, SameMembersShown
<1>. QED BY <1>2, <1>4, <1>5 DEF up, u

\* What the stacking list needs of the nodes.
LEMMA LevelTreesOf ==
    ASSUME NEW q \in Worlds, TreesAgree(q)
    PROVE  LevelTrees(Level(q), Above(q))
<1>1. /\ Level(q) \in [Regions -> Nat] /\ Above(q) \in [Regions -> Regions \cup {None}]
  BY WorldFields DEF Level, Above
<1>2. \A x \in Regions : q.node[x].above \in Regions \cup {None}
  BY WorldFields
<1>3. ASSUME NEW x \in Regions, Above(q)[x] # None
      PROVE  Above(q)[x] # x /\ Level(q)[Above(q)[x]] = Level(q)[x]
  BY <1>2, <1>3 DEF Level, Above, TreesAgree
<1>. QED BY <1>1, <1>3 DEF LevelTrees

\* What is stacked above a node on the list of a window is on it too.
LEMMA ShowsAbove ==
    ASSUME NEW q \in Worlds, TreesAgree(q), NEW v
    PROVE  \A x \in Regions : Above(q)[x] \in Shows(q, v) => x \in Shows(q, v)
<1>. SUFFICES ASSUME NEW x \in Regions, Above(q)[x] \in Shows(q, v)
              PROVE  x \in Shows(q, v)
  OBVIOUS
<1>1. q.node[x].above \in Regions /\ q.node[x].above # None
      /\ q.node[q.node[x].above].mgr # None
      /\ q.group[q.node[q.node[x].above].mgr].win = v
  BY GroupsAssumption DEF Above, Shows
<1>2. q.node[q.node[x].above].mgr = q.node[x].mgr
  BY <1>1 DEF TreesAgree
<1>. QED BY <1>1, <1>2 DEF Shows

\* stacking_restack, of a member
LEMMA RestackedIs ==
    ASSUME NEW q, Agree(q), NEW r \in Regions, q.node[r].mgr # None,
           NEW lower \in BOOLEAN
    PROVE  LET u == Restacked(q, r, lower)
           IN Agree(u) /\ SameMembers(q, u) /\ u.up = q.up /\ u.mapped = q.mapped
<1>. DEFINE u == Restacked(q, r, lower)
            v == q.group[q.node[r].mgr].win
            new == Restack(q.stack[v], r, Level(q), Above(q), lower)
            stack == [q.stack EXCEPT ![v] = new]
<1>1. q \in Worlds /\ MembersAgree(q) /\ TreesAgree(q)
  BY DEF Agree, MembersAgree
<1>2. v \in Windows /\ r \in Shows(q, v)
  BY <1>1, MemberIsOnList
<1>3. u = [q EXCEPT !.stack = stack]
  BY DEF Restacked
<1>. HIDE DEF v
<1>4. Stacked(new, Shows(q, v), Level(q), Above(q))
  <2>1. LevelTrees(Level(q), Above(q))
    BY <1>1, LevelTreesOf
  <2>2. Stacked(q.stack[v], Shows(q, v), Level(q), Above(q))
    BY <1>1, <1>2 DEF MembersAgree
  <2>3. \A x \in Regions : Above(q)[x] \in Shows(q, v) => x \in Shows(q, v)
    BY <1>1, ShowsAbove
  <2>. QED BY <1>2, <2>1, <2>2, <2>3, RestackIs
<1>5. new \in Seq(Regions)
  BY <1>4 DEF Stacked
<1>. HIDE DEF new
<1>6. stack \in [Windows -> Seq(Regions)]
      /\ \A z \in Windows : stack[z] = IF z = v THEN new ELSE q.stack[z]
  BY <1>1, <1>5, WorldFields
<1>. HIDE DEF stack, u
<1>7. /\ u \in Worlds /\ SameMembers(q, u) /\ u.up = q.up /\ u.mapped = q.mapped
      /\ u.stack = stack
  BY <1>1, <1>3, <1>6 DEF Worlds, SameMembers
<1>8. \A z \in Windows : Stacked(u.stack[z], Shows(q, z), Level(q), Above(q))
  BY <1>1, <1>4, <1>6, <1>7 DEF MembersAgree
<1>9. u.up \subseteq Alive(q)
  BY <1>1, <1>7 DEF MembersAgree
<1>10. Agree(u)
  BY <1>7, <1>8, <1>9, SameMembersAgree
<1>. QED BY <1>7, <1>10 DEF u

\* mplex_do_node_display
LEMMA DisplayedIs ==
    ASSUME NEW q, Agree(q), NEW g \in Alive(q), NEW others
    PROVE  LET u == Displayed(q, g, others)
           IN Agree(u) /\ SameMembers(q, u)
<1>. DEFINE u == Displayed(q, g, others)
            a == Shown(q, g)
            b == HiddenAll(a, others)
            low == q.group[g].bottom
<1>1. g \in Groups /\ q \in Worlds
  BY DEF Alive, Agree
<1>2. Agree(a) /\ SameMembers(q, a)
  BY ShownIs
<1>. HIDE DEF a
<1>3. Agree(b) /\ SameMembers(a, b)
  BY <1>2, HiddenAllIs
<1>. HIDE DEF b
<1>4. SameMembers(q, b)
  BY <1>2, <1>3 DEF SameMembers
<1>5. u = IF g \in GroupsCW /\ low # None THEN Restacked(b, low, TRUE) ELSE b
  BY DEF Displayed, a, b
<1>. HIDE DEF u
<1>6. CASE g \in GroupsCW /\ low # None
  <2>1. low \in Regions
    BY <1>1, <1>6, WorldFields
  <2>2. b.node[low].mgr # None
    <3>1. q.node[low].mgr = g /\ g # None
      BY <1>1, <1>6, GroupsAssumption DEF Agree, MembersAgree
    <3>. QED BY <1>4, <3>1 DEF SameMembers
  <2>. HIDE DEF low
  <2>3. PICK lower \in BOOLEAN : lower = TRUE
    OBVIOUS
  <2>4. Agree(Restacked(b, low, lower)) /\ SameMembers(b, Restacked(b, low, lower))
    BY <1>3, <2>1, <2>2, RestackedIs
  <2>5. u = Restacked(b, low, lower)
    BY <1>5, <1>6, <2>3
  <2>. QED BY <1>4, <2>4, <2>5 DEF SameMembers, u
<1>7. CASE ~(g \in GroupsCW /\ low # None)
  BY <1>3, <1>4, <1>5, <1>7 DEF u
<1>. QED BY <1>6, <1>7

-----------------------------------------------------------------------------
(* The search for what is to get the focus.                                *)

\* What it returns is on the list, and under no modal node it looked at; if it
\* may return all that is there it returns something, what is on top of the
\* others if nothing else was asked for.
LEMMA FindToFocusIs ==
    ASSUME NEW s \in Seq(Regions), IsInjective(s), NEW level,
           \A x \in Regions : level[x] \in Nat, Sorted(s, level),
           NEW t, NEW include, NEW approve
    PROVE  LET f == FindToFocus(s, level, t, include, approve)
               here == ToSet(s) \cap (include \cup {t})
           IN /\ f # None => /\ f \in here
                             /\ \A m \in here : level[m] < Modal \/ level[m] <= level[f]
              /\ here \subseteq approve /\ f = None => here = {}
              /\ \A x \in here :
                    (\A y \in here : <<y, x>> \in Order(s))
                    /\ (x = t \/ (t \notin here /\ x \in approve))
                    => f = x
              /\ t \notin here /\ here \subseteq approve /\ here # {} =>
                    \A y \in here : <<y, f>> \in Order(s)
<1>. DEFINE f == FindToFocus(s, level, t, include, approve)
            here == ToSet(s) \cap (include \cup {t})
            kept == Only(s, include \cup {t})
            c == Reverse(kept)
            N == Len(kept)
            Barred(i) == \E j \in 1..(i - 1) :
                             level[c[j]] >= Modal /\ level[c[i]] < level[c[j]]
            seen == {i \in DOMAIN c : \A j \in 1..i : ~Barred(j)}
            found == {i \in seen : c[i] \in approve}
<1>1. f = IF t \in {c[i] : i \in seen} THEN t
          ELSE IF found = {} THEN None ELSE c[Min(found)]
  BY DEF FindToFocus
<1>. HIDE DEF f
<1>2. /\ kept \in Seq(Regions) /\ IsInjective(kept) /\ ToSet(kept) = here
      /\ \A x, y : <<x, y>> \in Order(kept) <=>
            <<x, y>> \in Order(s) /\ x \in include \cup {t} /\ y \in include \cup {t}
  BY OnlyElements, OnlyOrder
<1>. HIDE DEF kept, here
<1>3. /\ N \in Nat /\ DOMAIN c = 1 .. N
      /\ \A i \in 1 .. N : c[i] = kept[N - i + 1] /\ c[i] \in here /\ N - i + 1 \in 1 .. N
      /\ \A x \in here : \E i \in 1 .. N : c[i] = x
  <2>1. N \in Nat /\ DOMAIN c = 1 .. N
    BY <1>2 DEF Reverse
  <2>2. \A i \in 1 .. N : c[i] = kept[N - i + 1] /\ N - i + 1 \in 1 .. N
    BY <1>2 DEF Reverse
  <2>3. \A x : x \in here <=> \E i \in 1 .. N : kept[i] = x
    BY <1>2 DEF ToSet
  <2>. HIDE DEF c
  <2>4. ASSUME NEW x \in here PROVE \E i \in 1 .. N : c[i] = x
    <3>1. PICK i \in 1 .. N : kept[i] = x
      BY <2>3
    <3>2. N - i + 1 \in 1 .. N /\ N - (N - i + 1) + 1 = i
      BY <2>1
    <3>. QED BY <2>2, <3>1, <3>2
  <2>. QED BY <2>1, <2>2, <2>3, <2>4
<1>. HIDE DEF c, N
<1>4. \A i, j \in 1 .. N : c[i] = c[j] => i = j
  <2>. SUFFICES ASSUME NEW i \in 1 .. N, NEW j \in 1 .. N, c[i] = c[j] PROVE i = j
    OBVIOUS
  <2>1. \A k, l \in 1 .. N : kept[k] = kept[l] => k = l
    BY <1>2 DEF IsInjective, N
  <2>2. N - i + 1 = N - j + 1
    <3>1. N - i + 1 \in 1 .. N /\ N - j + 1 \in 1 .. N
          /\ kept[N - i + 1] = kept[N - j + 1]
      BY <1>3
    <3>. QED BY <2>1, <3>1
  <2>. QED BY <1>3, <2>2
\* From the top.
<1>5. \A i, j \in 1 .. N : i <= j => /\ <<c[j], c[i]>> \in Order(s)
                                     /\ level[c[j]] <= level[c[i]]
  <2>. SUFFICES ASSUME NEW i \in 1 .. N, NEW j \in 1 .. N, i <= j
                PROVE  /\ <<c[j], c[i]>> \in Order(s)
                       /\ level[c[j]] <= level[c[i]]
    OBVIOUS
  <2>1. <<c[j], c[i]>> \in Order(kept)
    <3>1. /\ N - j + 1 \in 1 .. Len(kept) /\ N - i + 1 \in 1 .. Len(kept)
          /\ N - j + 1 <= N - i + 1
          /\ kept[N - j + 1] = c[j] /\ kept[N - i + 1] = c[i]
      BY <1>3 DEF N
    <3>. QED BY <1>2, <3>1, OrderOf
  <2>2. <<c[j], c[i]>> \in Order(s)
    BY <1>2, <2>1
  <2>. QED BY <2>2 DEF Sorted
<1>6. here \subseteq Regions /\ here \subseteq ToSet(s) /\ None \notin here
      /\ here \subseteq include \cup {t}
  BY GroupsAssumption DEF here, ToSet
<1>7. \A i \in 1 .. N : c[i] \in Regions /\ level[c[i]] \in Nat
  BY <1>3, <1>6
<1>8. /\ \A i : i \in seen <=> i \in 1 .. N /\ \A j \in 1 .. i : ~Barred(j)
      /\ \A i : i \in found <=> i \in seen /\ c[i] \in approve
  BY <1>3
<1>9. ~Barred(1)
  OBVIOUS
<1>10. \A i \in seen : ~Barred(i)
  <2>. SUFFICES ASSUME NEW i \in seen PROVE ~Barred(i)
    OBVIOUS
  <2>1. i \in 1 .. i
    BY <1>3, <1>8
  <2>. HIDE DEF Barred, seen
  <2>. QED BY <1>8, <2>1
<1>11. \A i \in 1 .. N : Barred(i) <=>
          \E j \in 1 .. (i - 1) : level[c[j]] >= Modal /\ level[c[i]] < level[c[j]]
  OBVIOUS
<1>. HIDE DEF seen, found, Barred
<1>12. found # {} => Min(found) \in found /\ \A i \in found : Min(found) <= i
  <2>1. found \in SUBSET Int /\ IsFiniteSet(found)
    <3>1. found \subseteq 1 .. N
      BY <1>8
    <3>2. IsFiniteSet(1 .. N)
      BY <1>3, FS_Interval
    <3>3. IsFiniteSet(found)
      BY <3>1, <3>2, FS_Subset
    <3>. QED BY <1>3, <3>1, <3>3
  <2>2. found # {} => \E x \in found : \A y \in found : x <= y
    BY <2>1, LeastInt
  <2>. QED BY <2>2 DEF Min
<1>13. f # None => \E i \in seen : f = c[i]
  <2>1. CASE t \in {c[i] : i \in seen}
    BY <1>1, <2>1
  <2>2. CASE t \notin {c[i] : i \in seen}
    BY <1>1, <1>8, <1>12, <2>2
  <2>. QED BY <2>1, <2>2
<1>14. ASSUME f # None
       PROVE  f \in here /\ \A m \in here : level[m] < Modal \/ level[m] <= level[f]
  <2>1. PICK i \in seen : f = c[i]
    BY <1>13, <1>14
  <2>2. i \in 1 .. N /\ f \in here
    BY <1>3, <1>8, <2>1
  <2>3. ASSUME NEW m \in here PROVE level[m] < Modal \/ level[m] <= level[f]
    <3>1. PICK j \in 1 .. N : c[j] = m
      BY <1>3
    <3>2. CASE j < i
      <4>1. j \in 1 .. (i - 1)
        BY <1>3, <2>2, <3>2
      <4>2. ~(level[c[j]] >= Modal /\ level[c[i]] < level[c[j]])
        BY <1>10, <1>11, <2>2, <4>1
      <4>. QED BY <1>7, <2>1, <2>2, <3>1, <4>2 DEF Modal
    <3>3. CASE ~(j < i)
      <4>1. i <= j
        BY <1>3, <2>2, <3>3
      <4>. QED BY <1>5, <2>1, <2>2, <3>1, <4>1
    <3>. QED BY <3>2, <3>3
  <2>. QED BY <2>2, <2>3
<1>15. here # {} => N >= 1 /\ 1 \in 1 .. N /\ 1 \in seen /\ c[1] \in here
  <2>. SUFFICES ASSUME here # {} PROVE N >= 1 /\ 1 \in 1 .. N /\ 1 \in seen /\ c[1] \in here
    OBVIOUS
  <2>1. N >= 1 /\ 1 \in 1 .. N
    BY <1>3
  <2>2. 1 .. 1 = {1}
    OBVIOUS
  <2>. QED BY <1>3, <1>8, <1>9, <2>1, <2>2
<1>16. ASSUME here \subseteq approve, f = None PROVE here = {}
  <2>. SUFFICES ASSUME here # {} PROVE FALSE
    OBVIOUS
  <2>1. 1 \in found
    BY <1>8, <1>15, <1>16
  <2>2. Min(found) \in found
    BY <1>12, <2>1
  <2>3. c[Min(found)] \in here
    BY <1>3, <1>8, <2>2
  <2>4. \A i \in seen : c[i] \in here
    BY <1>3, <1>8
  <2>. QED BY <1>1, <1>6, <1>16, <2>1, <2>3, <2>4
<1>17. ASSUME NEW x \in here, \A y \in here : <<y, x>> \in Order(s),
              x = t \/ (t \notin here /\ x \in approve)
       PROVE  f = x
  <2>1. c[1] = x
    <3>1. PICK i \in 1 .. N : c[i] = x
      BY <1>3
    <3>2. <<c[1], x>> \in Order(s) /\ <<x, c[1]>> \in Order(s)
      BY <1>3, <1>5, <1>15, <1>17, <3>1
    <3>. QED BY <3>2, OrderIsTotal
  <2>2. CASE x = t
    BY <1>1, <1>15, <2>1, <2>2
  <2>3. CASE x # t
    <3>1. 1 \in found
      BY <1>8, <1>15, <1>17, <2>1, <2>3
    <3>2. Min(found) = 1
      <4>1. Min(found) \in 1 .. N /\ Min(found) <= 1
        BY <1>8, <1>12, <3>1
      <4>. QED BY <1>3, <4>1
    <3>3. \A i \in seen : c[i] # t
      BY <1>3, <1>8, <1>17, <2>3
    <3>. QED BY <1>1, <2>1, <3>1, <3>2, <3>3
  <2>. QED BY <2>2, <2>3
<1>18. ASSUME t \notin here, here \subseteq approve, here # {}
       PROVE  \A y \in here : <<y, f>> \in Order(s)
  <2>1. 1 \in found
    BY <1>8, <1>15, <1>18
  <2>2. Min(found) = 1
    <3>1. Min(found) \in 1 .. N /\ Min(found) <= 1
      BY <1>8, <1>12, <2>1
    <3>. QED BY <1>3, <3>1
  <2>3. \A i \in seen : c[i] # t
    BY <1>3, <1>8, <1>18
  <2>4. f = c[1]
    BY <1>1, <2>1, <2>2, <2>3
  <2>5. ASSUME NEW y \in here PROVE <<y, c[1]>> \in Order(s)
    <3>1. PICK i \in 1 .. N : c[i] = y
      BY <1>3
    <3>2. 1 <= i
      OBVIOUS
    <3>. QED BY <1>5, <1>15, <1>18, <3>1, <3>2
  <2>. QED BY <2>4, <2>5
<1>19. /\ f # None => /\ f \in here
                      /\ \A m \in here : level[m] < Modal \/ level[m] <= level[f]
       /\ here \subseteq approve /\ f = None => here = {}
       /\ \A x \in here :
             (\A y \in here : <<y, x>> \in Order(s))
             /\ (x = t \/ (t \notin here /\ x \in approve))
             => f = x
       /\ t \notin here /\ here \subseteq approve /\ here # {} =>
             \A y \in here : <<y, f>> \in Order(s)
  <2>1. \A x \in here :
           (\A y \in here : <<y, x>> \in Order(s))
           /\ (x = t \/ (t \notin here /\ x \in approve))
           => f = x
    BY <1>17
  <2>. QED BY <1>14, <1>16, <1>18, <2>1
<1>. QED BY <1>19 DEF f, here

\* region_goto
LEMMA GoneIs ==
    ASSUME NEW q, Agree(q), NEW r \in Regions, q.node[r].mgr # None, NEW others,
           NEW raise
    PROVE  LET u == Gone(q, r, others, raise)
           IN Agree(u) /\ SameMembers(q, u)
<1>. DEFINE u == Gone(q, r, others, raise)
            g == q.node[r].mgr
            d == IF g \in q.up THEN q ELSE Displayed(q, g, others)
            within == GroupFocus(d, g, r)
            foc == IF within # None THEN within ELSE WindowFocus(d, g, None)
<1>1. u = IF foc # None /\ raise /\ d.node[foc].level > Bottom
          THEN Restacked(d, foc, FALSE) ELSE d
  BY DEF Gone
<1>. HIDE DEF u
<1>2. g \in Groups /\ g \in Alive(q) /\ q.group[g].win \in Windows
  BY MemberIsOnList DEF Agree
<1>3. Agree(d) /\ SameMembers(q, d)
  <2>1. CASE g \in q.up
    BY <2>1 DEF SameMembers
  <2>2. CASE g \notin q.up
    BY <1>2, <2>2, DisplayedIs
  <2>. QED BY <2>1, <2>2
<1>. HIDE DEF d, g
<1>4. /\ d \in Worlds /\ d.group[g].win \in Windows
      /\ Stacked(StackOf(d, g), Shows(d, d.group[g].win), Level(d), Above(d))
  BY <1>2, <1>3 DEF Agree, MembersAgree, SameMembers, StackOf
<1>5. foc # None => foc \in Regions /\ d.node[foc].mgr # None
  <2>1. /\ StackOf(d, g) \in Seq(Regions) /\ IsInjective(StackOf(d, g))
        /\ Sorted(StackOf(d, g), Level(d))
        /\ ToSet(StackOf(d, g)) = Shows(d, d.group[g].win)
    BY <1>4 DEF Stacked
  <2>2. \A x \in Regions : Level(d)[x] \in Nat
    BY <1>4, WorldFields DEF Level
  <2>3. within # None => within \in ToSet(StackOf(d, g))
    BY <2>1, <2>2, FindToFocusIs DEF GroupFocus
  <2>4. WindowFocus(d, g, None) # None =>
           WindowFocus(d, g, None) \in ToSet(StackOf(d, g))
    BY <2>1, <2>2, FindToFocusIs DEF WindowFocus
  <2>. HIDE DEF within
  <2>. QED BY <2>1, <2>3, <2>4 DEF Shows
<1>. HIDE DEF foc
<1>6. CASE foc # None /\ raise /\ d.node[foc].level > Bottom
  <2>1. PICK lower \in BOOLEAN : lower = FALSE
    OBVIOUS
  <2>2. Agree(Restacked(d, foc, lower)) /\ SameMembers(d, Restacked(d, foc, lower))
    BY <1>3, <1>5, <1>6, RestackedIs
  <2>3. u = Restacked(d, foc, lower)
    BY <1>1, <1>6, <2>1
  <2>. QED BY <1>3, <2>2, <2>3 DEF SameMembers, u
<1>7. CASE ~(foc # None /\ raise /\ d.node[foc].level > Bottom)
  BY <1>1, <1>3, <1>7 DEF u
<1>. QED BY <1>6, <1>7

\* A group that is created, with nothing in it.
LEMMA CreatedIs ==
    ASSUME NEW q, Agree(q), NEW g \in Groups \ Alive(q), NEW v \in Windows
    PROVE  LET u == [q EXCEPT !.group[g] = [NoGroup EXCEPT !.win = v]]
           IN /\ Agree(u) /\ g \in Alive(u) /\ u.group[g].win = v
              /\ u.group[g].bottom = None /\ u.group[g].phs = <<>>
              /\ \A h \in Groups \ {g} : u.group[h] = q.group[h]
              /\ u.stack = q.stack /\ u.node = q.node /\ u.mapped = q.mapped
              /\ u.up = q.up /\ u.phs = q.phs /\ u.place = q.place
              /\ u.rings = q.rings /\ u.ret = q.ret /\ u.lost = q.lost
              /\ u.dead = q.dead /\ u.failed = q.failed
<1>. DEFINE new == [NoGroup EXCEPT !.win = v]
            group == [q.group EXCEPT ![g] = new]
            u == [q EXCEPT !.group[g] = new]
<1>1. q \in Worlds /\ MembersAgree(q) /\ TreesAgree(q) /\ ListsApart(q) /\ ReturnsApart(q)
  BY DEF Agree, MembersAgree
<1>2. /\ new.win = v /\ new.bottom = None /\ new.phs = <<>> /\ new \in GroupStates
  <2>1. new = [win |-> v, bottom |-> None, phs |-> <<>>]
    BY DEF NoGroup
  <2>2. <<>> \in Seq(PHolders)
    OBVIOUS
  <2>3. new \in GroupStates
    BY <2>1, <2>2 DEF GroupStates
  <2>. QED BY <2>1, <2>3
<1>. HIDE DEF new
<1>3. /\ group \in [Groups -> GroupStates] /\ group[g] = new
      /\ \A h \in Groups \ {g} : group[h] = q.group[h]
  BY <1>1, <1>2, WorldFields
<1>4. u = [q EXCEPT !.group = group]
  OBVIOUS
<1>. HIDE DEF group, u
<1>5. /\ u \in Worlds /\ u.group = group
      /\ u.stack = q.stack /\ u.node = q.node /\ u.mapped = q.mapped
      /\ u.up = q.up /\ u.phs = q.phs /\ u.place = q.place
      /\ u.rings = q.rings /\ u.ret = q.ret /\ u.lost = q.lost
      /\ u.dead = q.dead /\ u.failed = q.failed
  BY <1>1, <1>3, <1>4 DEF Worlds
<1>6. v # None /\ None \notin Groups
  BY GroupsAssumption
<1>7. Alive(u) = Alive(q) \cup {g}
  BY <1>2, <1>3, <1>5, <1>6 DEF Alive
<1>8. \A x \in Regions : q.node[x].mgr # None => q.node[x].mgr \in Groups \ {g}
  BY <1>1 DEF MembersAgree, Alive
<1>9. Level(u) = Level(q) /\ Above(u) = Above(q)
      /\ \A z \in Windows : Shows(u, z) = Shows(q, z)
  BY <1>3, <1>5, <1>8 DEF Level, Above, Shows
<1>10. MembersAgree(u)
  <2>1. TreesAgree(u)
    BY <1>1, <1>5 DEF TreesAgree
  <2>2. \A x \in Regions : u.node[x].mgr # None => u.node[x].mgr \in Alive(u)
    BY <1>1, <1>5, <1>7 DEF MembersAgree
  <2>3. \A z \in Windows : Stacked(u.stack[z], Shows(u, z), Level(u), Above(u))
    BY <1>1, <1>5, <1>9 DEF MembersAgree
  <2>4. \A h \in Groups : u.group[h].bottom # None => u.node[u.group[h].bottom].mgr = h
    BY <1>1, <1>2, <1>3, <1>5 DEF MembersAgree
  <2>5. u.up \subseteq Alive(u)
    BY <1>1, <1>5, <1>7 DEF MembersAgree
  <2>. QED BY <2>1, <2>2, <2>3, <2>4, <2>5 DEF MembersAgree
<1>11. ListsApart(u)
  <2>1. \A h \in Groups : u.group[h].phs = q.group[h].phs
    <3>1. q.group[g].phs = <<>>
      BY <1>1 DEF ListsApart
    <3>. QED BY <1>2, <1>3, <1>5, <3>1
  <2>. QED BY <1>1, <1>5, <1>7, <2>1, ListsFrame
<1>12. ReturnsApart(u)
  BY <1>1, <1>5, ReturnsFrame
<1>. QED BY <1>2, <1>3, <1>5, <1>7, <1>10, <1>11, <1>12 DEF Agree, u, new

\* A group takes over the placeholders that were left of another.
LEMMA TakenOver ==
    ASSUME NEW q, Agree(q), NEW g \in Alive(q), NEW ring \in q.rings
    PROVE  LET u == [q EXCEPT !.rings = @ \ {ring}, !.group[g].phs = ring]
           IN /\ Agree(u) /\ g \in Alive(u)
              /\ u.stack = q.stack /\ u.node = q.node /\ u.mapped = q.mapped
              /\ u.up = q.up /\ u.phs = q.phs /\ u.place = q.place
              /\ u.ret = q.ret /\ u.lost = q.lost
              /\ u.dead = q.dead /\ u.failed = q.failed
              /\ \A h \in Groups : u.group[h].win = q.group[h].win
                                   /\ u.group[h].bottom = q.group[h].bottom
<1>. DEFINE group == [q.group EXCEPT ![g].phs = ring]
            rings == q.rings \ {ring}
            u == [q EXCEPT !.rings = @ \ {ring}, !.group[g].phs = ring]
<1>1. q \in Worlds /\ MembersAgree(q) /\ ListsApart(q) /\ ReturnsApart(q)
  BY DEF Agree
<1>2. /\ q.rings \subseteq Seq(PHolders) /\ q.group \in [Groups -> GroupStates]
      /\ \A h \in Groups : q.group[h] \in GroupStates /\ q.group[h].phs \in Seq(PHolders)
      /\ ring \in Seq(PHolders) /\ g \in Groups
  BY <1>1, WorldFields DEF Alive
<1>3. \A h \in Groups :
        /\ group[h] \in GroupStates
        /\ group[h].win = q.group[h].win /\ group[h].bottom = q.group[h].bottom
        /\ group[h].phs = IF h = g THEN ring ELSE q.group[h].phs
  <2>. SUFFICES ASSUME NEW h \in Groups
                PROVE  /\ group[h] \in GroupStates
                       /\ group[h].win = q.group[h].win
                       /\ group[h].bottom = q.group[h].bottom
                       /\ group[h].phs = IF h = g THEN ring ELSE q.group[h].phs
    OBVIOUS
  <2>1. group[h] = IF h = g THEN [q.group[h] EXCEPT !.phs = ring] ELSE q.group[h]
    BY <1>2
  <2>2. q.group[h] \in GroupStates
    BY <1>2
  <2>. HIDE DEF group
  <2>. QED BY <1>2, <2>1, <2>2 DEF GroupStates
<1>4. group \in [Groups -> GroupStates] /\ rings \in SUBSET Seq(PHolders)
  BY <1>2, <1>3
<1>5. u = [q EXCEPT !.rings = rings, !.group = group]
  OBVIOUS
<1>. HIDE DEF group, rings, u
<1>6. /\ u \in Worlds /\ u.group = group /\ u.rings = rings
      /\ u.stack = q.stack /\ u.node = q.node /\ u.mapped = q.mapped
      /\ u.up = q.up /\ u.phs = q.phs /\ u.place = q.place
      /\ u.ret = q.ret /\ u.lost = q.lost
      /\ u.dead = q.dead /\ u.failed = q.failed
  BY <1>1, <1>4, <1>5 DEF Worlds
<1>7. Alive(u) = Alive(q)
  BY <1>3, <1>6 DEF Alive
<1>8. MembersAgree(u)
  <2>1. u.up \subseteq Alive(q)
    BY <1>1, <1>6 DEF MembersAgree
  <2>. QED BY <1>1, <1>3, <1>6, <2>1, MembersFrame
<1>9. ListsApart(u)
  <2>1. /\ \A h \in Groups :
              /\ IsInjective(q.group[h].phs) /\ ToSet(q.group[h].phs) \subseteq q.phs
              /\ h \notin Alive(q) => q.group[h].phs = <<>>
              /\ \A k \in Groups \ {h} : ToSet(q.group[h].phs) \cap ToSet(q.group[k].phs) = {}
              /\ \A s \in q.rings : ToSet(q.group[h].phs) \cap ToSet(s) = {}
        /\ \A s \in q.rings :
              /\ IsInjective(s) /\ ToSet(s) \subseteq q.phs
              /\ \A t \in q.rings \ {s} : ToSet(s) \cap ToSet(t) = {}
    BY <1>1 DEF ListsApart
  <2>2. \A s : s \in rings <=> s \in q.rings /\ s # ring
    BY DEF rings
  <2>3. \A h \in Groups : u.group[h].phs = IF h = g THEN ring ELSE q.group[h].phs
    BY <1>3, <1>6
  <2>4. ASSUME NEW h \in Groups
        PROVE  /\ IsInjective(u.group[h].phs) /\ ToSet(u.group[h].phs) \subseteq u.phs
               /\ h \notin Alive(u) => u.group[h].phs = <<>>
               /\ \A k \in Groups \ {h} :
                     ToSet(u.group[h].phs) \cap ToSet(u.group[k].phs) = {}
               /\ \A s \in u.rings : ToSet(u.group[h].phs) \cap ToSet(s) = {}
    <3>1. IsInjective(u.group[h].phs) /\ ToSet(u.group[h].phs) \subseteq u.phs
      BY <1>6, <2>1, <2>3
    <3>2. h \notin Alive(u) => u.group[h].phs = <<>>
      BY <1>7, <2>1, <2>3
    <3>3. ASSUME NEW k \in Groups \ {h}
          PROVE  ToSet(u.group[h].phs) \cap ToSet(u.group[k].phs) = {}
      <4>1. CASE h = g
        BY <2>1, <2>3, <4>1
      <4>2. CASE k = g
        BY <2>1, <2>3, <4>2
      <4>3. CASE h # g /\ k # g
        BY <2>1, <2>3, <4>3
      <4>. QED BY <4>1, <4>2, <4>3
    <3>4. \A s \in u.rings : ToSet(u.group[h].phs) \cap ToSet(s) = {}
      BY <1>6, <2>1, <2>2, <2>3
    <3>. QED BY <3>1, <3>2, <3>3, <3>4
  <2>5. \A s \in u.rings :
           /\ IsInjective(s) /\ ToSet(s) \subseteq u.phs
           /\ \A t \in u.rings \ {s} : ToSet(s) \cap ToSet(t) = {}
    BY <1>6, <2>1, <2>2
  <2>. QED BY <2>4, <2>5 DEF ListsApart
<1>10. ReturnsApart(u)
  BY <1>1, <1>6, ReturnsFrame
<1>. QED BY <1>3, <1>6, <1>7, <1>8, <1>9, <1>10 DEF Agree, u

\* grouppholder_attach_recreate
LEMMA RecreatedIs ==
    ASSUME NEW q, Agree(q), NEW p \in PHolders, InRing(q, p) # {},
           NEW g \in Groups \ Alive(q), NEW v \in Windows, NEW r \in Regions,
           NEW wasMapped \in BOOLEAN, NEW up
    PROVE  LET u == Recreated(q, p, g, v, r, wasMapped, up)
           IN /\ Agree(u) /\ u.node[r].mgr = g
              /\ u.ret[r] = None
              /\ \A x \in Regions \ {r} : u.ret[x] = q.ret[x]
              /\ u.dead = IF q.ret[r] = None THEN q.dead ELSE Append(q.dead, q.ret[r])
<1>. DEFINE ring == CHOOSE s \in q.rings : p \in ToSet(s)
            place == [q.place[p] EXCEPT !.above = None]
            made == [q EXCEPT !.group[g] = [NoGroup EXCEPT !.win = v]]
            full == Attach(made, g, r, place, wasMapped)
            taken == [full EXCEPT !.rings = @ \ {ring}, !.group[g].phs = ring]
            u == Recreated(q, p, g, v, r, wasMapped, up)
<1>1. u = IF up THEN Shown(taken, g) ELSE taken
  BY DEF Recreated
<1>2. ring \in q.rings
  BY DEF InRing
<1>3. place \in Places
  <2>1. q.place[p] \in Places
    BY WorldFields DEF Agree
  <2>. QED BY <2>1 DEF Places
<1>. HIDE DEF u, ring, place
<1>4. /\ Agree(made) /\ g \in Alive(made) /\ made.rings = q.rings
      /\ made.ret = q.ret /\ made.dead = q.dead
  BY CreatedIs
<1>. HIDE DEF made
<1>5. /\ Agree(full) /\ full.node[r].mgr = g /\ g \in Alive(full)
      /\ full.ret[r] = None /\ \A x \in Regions \ {r} : full.ret[x] = made.ret[x]
      /\ full.dead = IF made.ret[r] = None THEN made.dead
                     ELSE Append(made.dead, made.ret[r])
      /\ made.rings \subseteq full.rings
  <2>1. Agree(full) /\ full.node[r].mgr = g /\ g \in Alive(full)
    <3>1. Agree(full)
      BY <1>3, <1>4, AttachIs
    <3>2. full.node[r].mgr = g
      BY <1>3, <1>4, AttachIs
    <3>3. g \in Alive(full)
      BY <1>3, <1>4, AttachIs
    <3>. QED BY <3>1, <3>2, <3>3
  <2>2. /\ full.ret[r] = None /\ \A x \in Regions \ {r} : full.ret[x] = made.ret[x]
        /\ full.dead = IF made.ret[r] = None THEN made.dead
                       ELSE Append(made.dead, made.ret[r])
    BY <1>3, <1>4, AttachIs
  <2>3. made.rings \subseteq full.rings
    BY <1>3, <1>4, AttachIs
  <2>. QED BY <2>1, <2>2, <2>3
<1>. HIDE DEF full
<1>6. /\ Agree(taken) /\ g \in Alive(taken) /\ taken.node = full.node
      /\ taken.ret = full.ret /\ taken.dead = full.dead
  <2>1. ring \in full.rings
    BY <1>2, <1>4, <1>5
  <2>2. Agree(taken) /\ g \in Alive(taken)
    BY <1>5, <2>1, TakenOver
  <2>3. taken.node = full.node
    BY <1>5 DEF Agree, Worlds
  <2>4. taken.ret = full.ret /\ taken.dead = full.dead
    BY <1>5 DEF Agree, Worlds
  <2>. QED BY <2>2, <2>3, <2>4
<1>. HIDE DEF taken
<1>7. CASE up
  <2>1. Agree(u) /\ SameMembers(taken, u)
    BY <1>1, <1>6, <1>7, ShownIs
  <2>. QED BY <1>4, <1>5, <1>6, <2>1 DEF SameMembers, u
<1>8. CASE ~up
  BY <1>1, <1>4, <1>5, <1>6, <1>8 DEF u
<1>. QED BY <1>7, <1>8

\* pholder_do_attach
LEMMA AtIs ==
    ASSUME NEW q, Agree(q), NEW p \in PHolders, NEW r \in Regions,
           NEW wasMapped \in BOOLEAN, NEW u \in At(q, p, r, wasMapped)
    PROVE  /\ Agree(u) /\ u.node[r].mgr # None
           /\ u.ret[r] = None /\ \A x \in Regions \ {r} : u.ret[x] = q.ret[x]
           /\ u.dead = IF q.ret[r] = None THEN q.dead ELSE Append(q.dead, q.ret[r])
<1>. DEFINE g == GroupOf(q, p)
<1>0. None \notin Groups
  BY GroupsAssumption
<1>1. CASE g # None
  <2>1. g \in Alive(q) /\ g \in Groups
    BY <1>1 DEF GroupOf, Alive
  <2>2. q.place[p] \in Places
    BY WorldFields DEF Agree
  <2>3. u = Attach(q, g, r, q.place[p], wasMapped)
    BY <1>1 DEF At
  <2>. DEFINE place == q.place[p]
  <2>. HIDE DEF g, place
  <2>4. u = Attach(q, g, r, place, wasMapped) /\ place \in Places
    BY <2>2, <2>3 DEF place
  <2>5. Agree(u) /\ u.node[r].mgr = g
    <3>1. Agree(u)
      BY <2>1, <2>4, AttachIs
    <3>2. u.node[r].mgr = g
      BY <2>1, <2>4, AttachIs
    <3>. QED BY <3>1, <3>2
  <2>6. /\ u.ret[r] = None /\ \A x \in Regions \ {r} : u.ret[x] = q.ret[x]
        /\ u.dead = IF q.ret[r] = None THEN q.dead ELSE Append(q.dead, q.ret[r])
    BY <2>1, <2>4, AttachIs
  <2>. QED BY <1>1, <2>5, <2>6
<1>2. CASE g = None
  <2>1. InRing(q, p) # {}
    BY <1>2 DEF At
  <2>2. PICK h \in GroupsCW \ Alive(q), v \in Windows, up \in BOOLEAN :
           u = Recreated(q, p, h, v, r, wasMapped, up)
    BY <1>2, <2>1 DEF At
  <2>3. h \in Groups \ Alive(q)
    BY DEF Groups
  <2>. QED BY <1>0, <2>1, <2>2, <2>3, RecreatedIs
<1>. QED BY <1>1, <1>2

\* pholder_attach_mcfgoto
LEMMA AndGoneIs ==
    ASSUME NEW q, Agree(q), NEW p \in PHolders, NEW r \in Regions,
           NEW wasMapped \in BOOLEAN, NEW u \in AndGone(At(q, p, r, wasMapped), r)
    PROVE  /\ Agree(u)
           /\ u.ret[r] = None /\ \A x \in Regions \ {r} : u.ret[x] = q.ret[x]
           /\ u.dead = IF q.ret[r] = None THEN q.dead ELSE Append(q.dead, q.ret[r])
<1>1. CASE u \in At(q, p, r, wasMapped)
  BY <1>1, AtIs
<1>2. CASE u \notin At(q, p, r, wasMapped)
  <2>1. PICK z \in At(q, p, r, wasMapped), raise \in BOOLEAN : u = Gone(z, r, {}, raise)
    BY <1>2 DEF AndGone
  <2>2. /\ Agree(z) /\ z.node[r].mgr # None
        /\ z.ret[r] = None /\ \A x \in Regions \ {r} : z.ret[x] = q.ret[x]
        /\ z.dead = IF q.ret[r] = None THEN q.dead ELSE Append(q.dead, q.ret[r])
    BY AtIs
  <2>3. Agree(u) /\ SameMembers(z, u)
    BY <2>1, <2>2, GoneIs
  <2>. QED BY <2>2, <2>3 DEF SameMembers
<1>. QED BY <1>1, <1>2

\* group_fitrep: the members of a group go to another window's list.
LEMMA MovedIs ==
    ASSUME NEW q, Agree(q), NEW g \in Alive(q), NEW v \in Windows,
           v # q.group[g].win
    PROVE  LET u == q.group[g].win
               moved == Unweaved(Above(q), Members(q, g))
               n == [q EXCEPT !.group[g].win = v,
                              !.stack[u] = Dropping(@, moved),
                              !.stack[v] = Weave(@, Only(q.stack[u], moved), Level(q),
                                                 FALSE)]
           IN Agree(n) /\ n.dead = q.dead
<1>. DEFINE u == q.group[g].win
            M == Members(q, g)
            moved == Unweaved(Above(q), M)
            left == Dropping(q.stack[u], moved)
            nodes == Only(q.stack[u], moved)
            new == Weave(q.stack[v], nodes, Level(q), FALSE)
            stack == [q.stack EXCEPT ![u] = left, ![v] = new]
            group == [q.group EXCEPT ![g].win = v]
            n == [q EXCEPT !.group[g].win = v,
                           !.stack[u] = Dropping(@, moved),
                           !.stack[v] = Weave(@, Only(q.stack[u], moved), Level(q),
                                              FALSE)]
<1>1. q \in Worlds /\ MembersAgree(q) /\ TreesAgree(q) /\ ListsApart(q) /\ ReturnsApart(q)
  BY DEF Agree, MembersAgree
<1>2. /\ g \in Groups /\ g # None /\ u \in Windows /\ u # v /\ v # None
      /\ q.stack \in [Windows -> Seq(Regions)] /\ q.group \in [Groups -> GroupStates]
  BY <1>1, WorldFields, GroupsAssumption DEF Alive
<1>3. \A x \in Regions : q.node[x].above \in Regions \cup {None}
                         /\ q.node[x].level \in Nat
                         /\ q.node[x].mgr \in Groups \cup {None}
  BY <1>1, WorldFields
<1>4. /\ \A x \in Regions : Level(q)[x] = q.node[x].level /\ Above(q)[x] = q.node[x].above
      /\ LevelTrees(Level(q), Above(q))
  BY <1>1, LevelTreesOf DEF Level, Above
<1>5. /\ Stacked(q.stack[u], Shows(q, u), Level(q), Above(q))
      /\ Stacked(q.stack[v], Shows(q, v), Level(q), Above(q))
  BY <1>1, <1>2 DEF MembersAgree
<1>6. /\ M \in SUBSET Shows(q, u) /\ M \cap Shows(q, v) = {} /\ M \subseteq Regions
      /\ \A x \in M : q.node[x].above # None => q.node[x].above \in M
      /\ \A x \in Regions : q.node[x].above \in M => x \in M
  <2>1. M \in SUBSET Shows(q, u) /\ M \cap Shows(q, v) = {} /\ M \subseteq Regions
    BY <1>2 DEF Shows, Members
  <2>2. \A x \in M : q.node[x].above # None => q.node[x].above \in M
    BY <1>1, <1>3 DEF Members, TreesAgree
  <2>3. \A x \in Regions : q.node[x].above \in M => x \in M
    BY <1>1, GroupsAssumption DEF Members, TreesAgree
  <2>. QED BY <2>1, <2>2, <2>3
<1>7. moved = M
  <2>1. \A x \in M : Above(q)[x] # None => Above(q)[x] \in M
    BY <1>4, <1>6
  <2>2. \A x \in Regions : Above(q)[x] \in M => x \in M
    BY <1>4, <1>6
  <2>. HIDE DEF M
  <2>. QED BY <1>4, <1>5, <1>6, <2>1, <2>2, UnweavedIs
<1>8. n = [q EXCEPT !.stack = stack, !.group = group]
  BY <1>1, <1>2 DEF Worlds
<1>. HIDE DEF M, moved, n
<1>9. Stacked(left, Shows(q, u) \ M, Level(q), Above(q))
  <2>1. \A x \in Shows(q, u) \ M : Above(q)[x] \notin M
    BY <1>4, <1>6 DEF Shows
  <2>. QED BY <1>5, <1>7, <2>1, DroppingStacked
<1>10. /\ nodes \in Seq(Regions) /\ IsInjective(nodes) /\ ToSet(nodes) = M
       /\ \A x, y : <<x, y>> \in Order(nodes) <=>
             <<x, y>> \in Order(q.stack[u]) /\ x \in M /\ y \in M
  <2>1. q.stack[u] \in Seq(Regions) /\ IsInjective(q.stack[u])
        /\ ToSet(q.stack[u]) = Shows(q, u)
    BY <1>5 DEF Stacked
  <2>2. nodes \in Seq(Regions) /\ IsInjective(nodes) /\ ToSet(nodes) = Shows(q, u) \cap M
    BY <1>7, <2>1, OnlyElements
  <2>3. \A x, y : <<x, y>> \in Order(nodes) <=>
             <<x, y>> \in Order(q.stack[u]) /\ x \in M /\ y \in M
    <3>1. \A x, y : <<x, y>> \in Order(nodes) <=>
             <<x, y>> \in Order(q.stack[u]) /\ x \in moved /\ y \in moved
      <4>. DEFINE s == q.stack[u]
      <4>1. s \in Seq(Regions) /\ nodes = Only(s, moved)
        BY <2>1
      <4>. HIDE DEF s, nodes
      <4>2. \A x, y : <<x, y>> \in Order(nodes) <=>
               <<x, y>> \in Order(s) /\ x \in moved /\ y \in moved
        BY <4>1, OnlyOrder
      <4>. QED BY <4>2 DEF s
    <3>. HIDE DEF nodes
    <3>. QED BY <1>7, <3>1
  <2>. QED BY <1>6, <2>2, <2>3
<1>11. Stacked(new, Shows(q, v) \cup M, Level(q), Above(q))
  <2>1. Sorted(nodes, Level(q))
    BY <1>5, <1>10 DEF Sorted, Stacked
  <2>2. \A x \in Regions : Level(q)[x] \in Nat
    BY <1>3, <1>4
  <2>3. \A x \in ToSet(nodes) : Above(q)[x] # None =>
           \/ <<Above(q)[x], x>> \in Order(nodes)
           \/ Above(q)[x] \in Shows(q, v) /\ Level(q)[Above(q)[x]] = Level(q)[x]
    <3>. SUFFICES ASSUME NEW x \in M, Above(q)[x] # None
                  PROVE  <<Above(q)[x], x>> \in Order(nodes)
      BY <1>10
    <3>1. x \in Shows(q, u) /\ Above(q)[x] \in M
      BY <1>4, <1>6
    <3>2. <<Above(q)[x], x>> \in Order(q.stack[u])
      BY <1>5, <3>1 DEF Stacked
    <3>. QED BY <1>10, <3>1, <3>2
  <2>. HIDE DEF nodes
  <2>4. Shows(q, v) \cap ToSet(nodes) = {}
    BY <1>6, <1>10
  <2>5. Stacked(Weave(q.stack[v], nodes, Level(q), FALSE), Shows(q, v) \cup ToSet(nodes),
                Level(q), Above(q))
    BY <1>5, <1>10, <2>1, <2>2, <2>3, <2>4, WeaveStacked
  <2>. QED BY <1>10, <2>5
<1>. HIDE DEF left, new
<1>12. left \in Seq(Regions) /\ new \in Seq(Regions)
  BY <1>9, <1>11 DEF Stacked
<1>13. /\ stack \in [Windows -> Seq(Regions)] /\ stack[u] = left /\ stack[v] = new
       /\ \A z \in Windows \ {u, v} : stack[z] = q.stack[z]
  BY <1>2, <1>12
<1>14. \A h \in Groups :
         /\ group[h] \in GroupStates
         /\ group[h].win = IF h = g THEN v ELSE q.group[h].win
         /\ group[h].bottom = q.group[h].bottom /\ group[h].phs = q.group[h].phs
  <2>. SUFFICES ASSUME NEW h \in Groups
                PROVE  /\ group[h] \in GroupStates
                       /\ group[h].win = IF h = g THEN v ELSE q.group[h].win
                       /\ group[h].bottom = q.group[h].bottom
                       /\ group[h].phs = q.group[h].phs
    OBVIOUS
  <2>1. group[h] = IF h = g THEN [q.group[h] EXCEPT !.win = v] ELSE q.group[h]
    BY <1>2
  <2>2. q.group[h] \in GroupStates
    BY <1>2
  <2>. HIDE DEF group
  <2>. QED BY <2>1, <2>2 DEF GroupStates
<1>15. group \in [Groups -> GroupStates]
  BY <1>2, <1>14
<1>. HIDE DEF stack, group
<1>16. /\ n \in Worlds /\ n.stack = stack /\ n.group = group
       /\ n.node = q.node /\ n.mapped = q.mapped
       /\ n.up = q.up /\ n.phs = q.phs /\ n.place = q.place
       /\ n.rings = q.rings /\ n.ret = q.ret /\ n.lost = q.lost
       /\ n.dead = q.dead /\ n.failed = q.failed
  BY <1>1, <1>8, <1>13, <1>15 DEF Worlds
<1>17. Alive(n) = Alive(q)
  BY <1>2, <1>14, <1>16 DEF Alive
<1>18. /\ Level(n) = Level(q) /\ Above(n) = Above(q)
       /\ Shows(n, u) = Shows(q, u) \ M /\ Shows(n, v) = Shows(q, v) \cup M
       /\ \A z \in Windows \ {u, v} : Shows(n, z) = Shows(q, z)
  <2>1. Level(n) = Level(q) /\ Above(n) = Above(q)
    BY <1>16 DEF Level, Above
  <2>2. \A z \in Windows : \A x \in Regions : x \in Shows(n, z) <=>
           q.node[x].mgr # None /\ (IF x \in M THEN z = v ELSE x \in Shows(q, z))
    BY <1>3, <1>14, <1>16 DEF Shows, M, Members
  <2>3. \A z \in Windows : Shows(n, z) \subseteq Regions /\ Shows(q, z) \subseteq Regions
           /\ \A x \in Shows(q, z) : q.node[x].mgr # None
    BY DEF Shows
  <2>4. \A x \in M : q.node[x].mgr # None
    BY <1>2 DEF M, Members
  <2>5. Shows(n, u) = Shows(q, u) \ M
    BY <1>2, <1>6, <2>2, <2>3
  <2>6. Shows(n, v) = Shows(q, v) \cup M
    BY <1>2, <1>6, <2>2, <2>3, <2>4
  <2>7. ASSUME NEW z \in Windows \ {u, v} PROVE Shows(n, z) = Shows(q, z)
    <3>1. \A x \in M : x \notin Shows(q, z)
      BY DEF M, Members, Shows
    <3>2. z \in Windows /\ z # v
      OBVIOUS
    <3>3. ASSUME NEW x \in Regions PROVE x \in Shows(n, z) <=> x \in Shows(q, z)
      <4>1. CASE x \in M
        BY <2>2, <3>1, <3>2, <4>1
      <4>2. CASE x \notin M
        BY <2>2, <2>3, <3>2, <4>2
      <4>. QED BY <4>1, <4>2
    <3>. QED BY <2>3, <3>2, <3>3
  <2>. QED BY <2>1, <2>5, <2>6, <2>7
<1>19. \A z \in Windows : Stacked(n.stack[z], Shows(n, z), Level(n), Above(n))
  <2>. SUFFICES ASSUME NEW z \in Windows
                PROVE  Stacked(n.stack[z], Shows(n, z), Level(n), Above(n))
    OBVIOUS
  <2>1. CASE z = u
    BY <1>9, <1>13, <1>16, <1>18, <2>1
  <2>2. CASE z = v
    BY <1>11, <1>13, <1>16, <1>18, <2>2
  <2>3. CASE z \notin {u, v}
    <3>1. Stacked(q.stack[z], Shows(q, z), Level(q), Above(q))
      BY <1>1 DEF MembersAgree
    <3>. QED BY <1>13, <1>16, <1>18, <2>3, <3>1
  <2>. QED BY <2>1, <2>2, <2>3
<1>20. MembersAgree(n)
  <2>1. TreesAgree(n)
    BY <1>1, <1>16 DEF TreesAgree
  <2>2. \A x \in Regions : n.node[x].mgr # None => n.node[x].mgr \in Alive(n)
    BY <1>1, <1>16, <1>17 DEF MembersAgree
  <2>3. \A h \in Groups : n.group[h].bottom # None => n.node[n.group[h].bottom].mgr = h
    BY <1>1, <1>14, <1>16 DEF MembersAgree
  <2>4. n.up \subseteq Alive(n)
    BY <1>1, <1>16, <1>17 DEF MembersAgree
  <2>. QED BY <1>19, <2>1, <2>2, <2>3, <2>4 DEF MembersAgree
<1>21. ListsApart(n)
  BY <1>1, <1>14, <1>16, <1>17, ListsFrame
<1>22. ReturnsApart(n)
  BY <1>1, <1>16, ReturnsFrame
<1>23. Agree(n) /\ n.dead = q.dead
  BY <1>16, <1>20, <1>21, <1>22 DEF Agree
<1>. QED BY <1>23 DEF n, moved, M

\* group_set_bottom
LEMMA BottomSetIs ==
    ASSUME NEW q, Agree(q), NEW g \in Alive(q), NEW r \in Members(q, g) \cup {None}
    PROVE  LET n == [q EXCEPT !.group[g].bottom = r]
           IN Agree(n) /\ n.dead = q.dead
<1>. DEFINE group == [q.group EXCEPT ![g].bottom = r]
            n == [q EXCEPT !.group[g].bottom = r]
<1>1. q \in Worlds /\ MembersAgree(q) /\ TreesAgree(q) /\ ListsApart(q) /\ ReturnsApart(q)
  BY DEF Agree, MembersAgree
<1>2. /\ g \in Groups /\ q.group \in [Groups -> GroupStates]
      /\ r \in Regions \cup {None}
      /\ r # None => q.node[r].mgr = g
  BY <1>1, WorldFields DEF Alive, Members
<1>3. n = [q EXCEPT !.group = group]
  OBVIOUS
<1>4. \A h \in Groups :
         /\ group[h] \in GroupStates
         /\ group[h].bottom = IF h = g THEN r ELSE q.group[h].bottom
         /\ group[h].win = q.group[h].win /\ group[h].phs = q.group[h].phs
  <2>. SUFFICES ASSUME NEW h \in Groups
                PROVE  /\ group[h] \in GroupStates
                       /\ group[h].bottom = IF h = g THEN r ELSE q.group[h].bottom
                       /\ group[h].win = q.group[h].win
                       /\ group[h].phs = q.group[h].phs
    OBVIOUS
  <2>1. group[h] = IF h = g THEN [q.group[h] EXCEPT !.bottom = r] ELSE q.group[h]
    BY <1>2
  <2>2. q.group[h] \in GroupStates
    BY <1>2
  <2>. HIDE DEF group
  <2>. QED BY <1>2, <2>1, <2>2 DEF GroupStates
<1>5. group \in [Groups -> GroupStates]
  BY <1>2, <1>4
<1>. HIDE DEF group, n
<1>6. /\ n \in Worlds /\ n.stack = q.stack /\ n.group = group
      /\ n.node = q.node /\ n.mapped = q.mapped
      /\ n.up = q.up /\ n.phs = q.phs /\ n.place = q.place
      /\ n.rings = q.rings /\ n.ret = q.ret /\ n.lost = q.lost
      /\ n.dead = q.dead /\ n.failed = q.failed
  BY <1>1, <1>3, <1>5 DEF Worlds
<1>7. Alive(n) = Alive(q) /\ Level(n) = Level(q) /\ Above(n) = Above(q)
      /\ \A z \in Windows : Shows(n, z) = Shows(q, z)
  <2>1. \A x \in Regions : q.node[x].mgr \in Groups \cup {None}
    BY <1>1, WorldFields
  <2>. QED BY <1>4, <1>6, <2>1 DEF Alive, Level, Above, Shows
<1>8. MembersAgree(n)
  <2>1. TreesAgree(n)
    BY <1>1, <1>6 DEF TreesAgree
  <2>2. \A x \in Regions : n.node[x].mgr # None => n.node[x].mgr \in Alive(n)
    BY <1>1, <1>6, <1>7 DEF MembersAgree
  <2>3. \A h \in Groups : n.group[h].bottom # None => n.node[n.group[h].bottom].mgr = h
    BY <1>1, <1>2, <1>4, <1>6 DEF MembersAgree
  <2>4. n.up \subseteq Alive(n)
    BY <1>1, <1>6, <1>7 DEF MembersAgree
  <2>5. \A z \in Windows : Stacked(n.stack[z], Shows(n, z), Level(n), Above(n))
    BY <1>1, <1>6, <1>7 DEF MembersAgree
  <2>. QED BY <2>1, <2>2, <2>3, <2>4, <2>5 DEF MembersAgree
<1>9. ListsApart(n)
  BY <1>1, <1>4, <1>6, <1>7, ListsFrame
<1>10. ReturnsApart(n)
  BY <1>1, <1>6, ReturnsFrame
<1>. QED BY <1>6, <1>8, <1>9, <1>10 DEF Agree, n

-----------------------------------------------------------------------------
(* The steps.                                                              *)

AtRest(q) == Agree(q) /\ q.dead = <<>>

\* A region that returns no more by the placeholder it had.
LEMMA ReturnTakenIs ==
    ASSUME NEW q, Agree(q), NEW r \in Regions, q.ret[r] # None
    PROVE  LET u == [q EXCEPT !.ret[r] = None]
           IN /\ Agree(u) /\ u.dead = q.dead /\ u.lost = q.lost
              /\ u.phs = q.phs /\ u.node = q.node
              /\ q.ret[r] \in u.phs /\ q.ret[r] \in PHolders
              /\ u.ret[r] = None /\ \A x \in Regions : u.ret[x] # q.ret[r]
<1>. DEFINE ret == [q.ret EXCEPT ![r] = None]
            u == [q EXCEPT !.ret[r] = None]
<1>1. q \in Worlds /\ MembersAgree(q) /\ ListsApart(q) /\ ReturnsApart(q)
  BY DEF Agree
<1>2. q.ret \in [Regions -> PHolders \cup {None}] /\ q.phs \subseteq PHolders
  BY <1>1, WorldFields
<1>3. ret \in [Regions -> PHolders \cup {None}]
      /\ \A x \in Regions : ret[x] = IF x = r THEN None ELSE q.ret[x]
  BY <1>2
<1>4. u = [q EXCEPT !.ret = ret]
  OBVIOUS
<1>. HIDE DEF ret, u
<1>5. /\ u \in Worlds /\ u.ret = ret
      /\ u.stack = q.stack /\ u.node = q.node /\ u.mapped = q.mapped
      /\ u.group = q.group /\ u.phs = q.phs /\ u.rings = q.rings
      /\ u.up = q.up /\ u.dead = q.dead /\ u.lost = q.lost
  BY <1>1, <1>3, <1>4 DEF Worlds
<1>6. MembersAgree(u)
  <2>1. u.up \subseteq Alive(q)
    BY <1>1, <1>5 DEF MembersAgree
  <2>. QED BY <1>1, <1>5, <2>1, MembersFrame
<1>7. ListsApart(u)
  <2>1. Alive(u) = Alive(q)
    BY <1>5 DEF Alive
  <2>. QED BY <1>1, <1>5, <2>1, ListsFrame
<1>8. ReturnsApart(u)
  BY <1>1, <1>3, <1>5 DEF ReturnsApart
<1>9. /\ q.ret[r] \in u.phs /\ q.ret[r] \in PHolders /\ u.ret[r] = None
      /\ \A x \in Regions : u.ret[x] # q.ret[r]
  BY <1>1, <1>2, <1>3, <1>5 DEF ReturnsApart
<1>. QED BY <1>5, <1>6, <1>7, <1>8, <1>9 DEF Agree, u

\* A placeholder that is forgotten though not destroyed.
LEMMA LostIs ==
    ASSUME NEW q, Agree(q), NEW p \in q.phs, \A x \in Regions : q.ret[x] # p
    PROVE  LET u == [q EXCEPT !.lost = @ \cup {p}]
           IN Agree(u) /\ u.dead = q.dead
<1>. DEFINE lost == q.lost \cup {p}
            u == [q EXCEPT !.lost = @ \cup {p}]
<1>1. q \in Worlds /\ MembersAgree(q) /\ ListsApart(q) /\ ReturnsApart(q)
  BY DEF Agree
<1>2. lost \in SUBSET PHolders /\ lost \subseteq q.phs
  BY <1>1, WorldFields DEF ReturnsApart
<1>3. u = [q EXCEPT !.lost = lost]
  OBVIOUS
<1>. HIDE DEF u
<1>4. /\ u \in Worlds /\ u.ret = q.ret
      /\ u.stack = q.stack /\ u.node = q.node /\ u.mapped = q.mapped
      /\ u.group = q.group /\ u.phs = q.phs /\ u.rings = q.rings
      /\ u.up = q.up /\ u.dead = q.dead /\ u.lost = lost
  <2>. HIDE DEF lost
  <2>. QED BY <1>1, <1>2, <1>3 DEF Worlds
<1>5. MembersAgree(u)
  <2>1. u.up \subseteq Alive(q)
    BY <1>1, <1>4 DEF MembersAgree
  <2>. QED BY <1>1, <1>4, <2>1, MembersFrame
<1>6. ListsApart(u)
  <2>1. Alive(u) = Alive(q)
    BY <1>4 DEF Alive
  <2>. QED BY <1>1, <1>4, <2>1, ListsFrame
<1>7. ReturnsApart(u)
  BY <1>1, <1>2, <1>4 DEF ReturnsApart
<1>. QED BY <1>4, <1>5, <1>6, <1>7 DEF Agree, u

\* region_enter_fullscreen
LEMMA FullscreenedAgrees ==
    ASSUME AtRest(w), NEW r \in Regions, w.node[r].mgr # None, NEW p \in ReturnOf(r)
    PROVE  AtRest(Fullscreened(r, p))
<1>. DEFINE a == WithReturn(w, r, p)
            b == Detached(a, r)
            c == Disposed(b, DisposeRoot(w, r))
            d == [c EXCEPT !.ret[r] = p]
            root == DisposeRoot(w, r)
<1>1. Agree(w) /\ w.dead = <<>> /\ root \in Groups \cup {None}
  BY DisposeRootIs DEF AtRest, Agree
<1>2. /\ Agree(a) /\ p \in a.phs \ a.lost /\ p \notin ToSet(a.dead) /\ a.ret[r] = None
      /\ (\A x \in Regions : a.ret[x] # p) /\ a.dead = w.dead
  <2>1. p \in IF w.ret[r] # None THEN {w.ret[r]} ELSE PHolders \ w.phs
    BY DEF ReturnOf
  <2>. QED BY <1>1, <2>1, WithReturnIs
<1>3. p \in PHolders
  BY <1>2, WorldFields DEF Agree
<1>. HIDE DEF a
<1>4. /\ Agree(b) /\ b.phs = a.phs /\ b.lost = a.lost /\ b.dead = a.dead
      /\ b.ret[r] = None /\ \A x \in Regions \ {r} : b.ret[x] = a.ret[x]
  BY <1>2, DetachedIs
<1>5. \A x \in Regions : b.ret[x] # p
  BY <1>2, <1>3, <1>4, WorldFields, GroupsAssumption DEF Agree
<1>. HIDE DEF b, root
<1>6. /\ Agree(c) /\ c.ret = b.ret /\ c.dead = b.dead /\ p \in c.phs \ c.lost
  <2>1. Agree(c) /\ c.ret = b.ret /\ c.dead = b.dead
    BY <1>1, <1>4, DisposedIs DEF root
  <2>2. c.lost \subseteq b.lost /\ b.phs \ b.lost \subseteq c.phs
    BY <1>1, <1>4, DisposedIs DEF root
  <2>. QED BY <1>2, <1>4, <2>1, <2>2
<1>. HIDE DEF c
<1>7. Agree(d)
  <2>1. /\ Agree(c) /\ p \in c.phs \ c.lost /\ p \notin ToSet(c.dead)
        /\ \A x \in Regions : c.ret[x] # p
    BY <1>2, <1>4, <1>5, <1>6
  <2>. QED BY <1>3, <2>1, ReturningIs
<1>8. Fullscreened(r, p) = Settled(d)
  BY DEF Fullscreened, d, c, b, a
<1>. HIDE DEF d
<1>. QED BY <1>7, <1>8, SettledIs DEF AtRest

\* ioncore_do_detach
LEMMA DetachToAgrees ==
    ASSUME AtRest(w), NEW r \in Regions, NEW g \in Groups, DetachTo(r, g)
    PROVE  AtRest(w')
<1>1. Agree(w) /\ w.dead = <<>> /\ g \in Alive(w) /\ w.node[r].mgr # None
  BY GroupsAssumption DEF AtRest, DetachTo, Groups
<1>2. PICK p \in ReturnOf(r) :
         w' = Settled([Attach(WithReturn(w, r, p), g, r, NoPlace, FALSE)
                          EXCEPT !.ret[r] = p])
  BY DEF DetachTo, Becomes
<1>3. PICK mapped \in BOOLEAN : mapped = FALSE
  OBVIOUS
<1>4. PICK place \in Places : place = NoPlace
  BY DEF Places, NoPlace, Normal
<1>. DEFINE a == WithReturn(w, r, p)
            b == Attach(a, g, r, place, mapped)
            d == [b EXCEPT !.ret[r] = p]
<1>5. /\ Agree(a) /\ p \in a.phs \ a.lost /\ p \notin ToSet(a.dead) /\ a.ret[r] = None
      /\ (\A x \in Regions : a.ret[x] # p) /\ a.dead = w.dead
      /\ g \in Alive(a)
  <2>1. p \in IF w.ret[r] # None THEN {w.ret[r]} ELSE PHolders \ w.phs
    BY DEF ReturnOf
  <2>2. Agree(a) /\ p \in a.phs \ a.lost /\ p \notin ToSet(a.dead) /\ a.ret[r] = None
    BY <1>1, <2>1, WithReturnIs
  <2>3. (\A x \in Regions : a.ret[x] # p) /\ a.dead = w.dead
    BY <1>1, <2>1, WithReturnIs
  <2>4. \A h \in Groups : a.group[h].win = w.group[h].win
    BY <1>1, <2>1, WithReturnIs
  <2>. HIDE DEF a
  <2>. QED BY <1>1, <2>2, <2>3, <2>4 DEF Alive
<1>6. p \in PHolders
  BY <1>5, WorldFields DEF Agree
<1>. HIDE DEF a
<1>7. /\ Agree(b) /\ b.dead = a.dead /\ b.lost \subseteq a.lost
      /\ a.phs \ a.lost \subseteq b.phs
      /\ b.ret[r] = None /\ \A x \in Regions \ {r} : b.ret[x] = a.ret[x]
  BY <1>5, AttachIs
<1>8. \A x \in Regions : b.ret[x] # p
  BY <1>5, <1>6, <1>7, GroupsAssumption
<1>. HIDE DEF b
<1>9. Agree(d)
  BY <1>5, <1>6, <1>7, <1>8, ReturningIs
<1>10. w' = Settled(d)
  BY <1>2, <1>3, <1>4 DEF d, b, a
<1>. HIDE DEF d
<1>. QED BY <1>9, <1>10, SettledIs DEF AtRest

\* region_leave_fullscreen, the placeholder taking the region or not
LEMMA LeaveFullscreenAgrees ==
    ASSUME AtRest(w), NEW r \in Regions, LeaveFullscreen(r) \/ LoseReturn(r)
    PROVE  AtRest(w')
<1>. DEFINE p == w.ret[r]
            taken == [w EXCEPT !.ret[r] = None]
<1>1. Agree(w) /\ w.dead = <<>> /\ p # None
  BY DEF AtRest, LeaveFullscreen, LoseReturn
<1>2. /\ Agree(taken) /\ taken.dead = w.dead /\ p \in taken.phs /\ p \in PHolders
      /\ taken.ret[r] = None /\ \A x \in Regions : taken.ret[x] # p
  BY <1>1, ReturnTakenIs
<1>3. CASE LeaveFullscreen(r)
  <2>0. PICK wasMapped \in Mapped(r) :
           \E q \in AndGone(At(taken, p, r, wasMapped), r) : w' = Settled(Dropped(q, p))
    BY <1>3 DEF LeaveFullscreen, Becomes
  <2>1. PICK q \in AndGone(At(taken, p, r, wasMapped), r) : w' = Settled(Dropped(q, p))
    BY <2>0
  <2>2. wasMapped \in BOOLEAN
    BY DEF Mapped
  <2>. HIDE DEF taken, p
  <2>3. /\ Agree(q) /\ q.ret[r] = None
        /\ \A x \in Regions \ {r} : q.ret[x] = taken.ret[x]
        /\ q.dead = taken.dead
    BY <1>2, <2>1, <2>2, AndGoneIs
  <2>4. \A x \in Regions : q.ret[x] # p
    BY <1>1, <1>2, <2>3
  <2>. DEFINE u == Dropped(q, p)
  <2>5. Agree(u)
    BY <1>2, <2>3, <2>4, DroppedIs
  <2>. HIDE DEF u
  <2>. QED BY <2>1, <2>5, SettledIs DEF AtRest, u
<1>4. CASE LoseReturn(r)
  <2>1. w' = IF GroupOf(w, p) = None THEN Dropped(taken, p)
             ELSE [taken EXCEPT !.lost = @ \cup {p}]
    BY <1>4 DEF LoseReturn, Becomes
  <2>. HIDE DEF taken, p
  <2>2. Agree(Dropped(taken, p)) /\ Dropped(taken, p).dead = taken.dead
    BY <1>2, DroppedIs
  <2>3. LET u == [taken EXCEPT !.lost = @ \cup {p}]
        IN Agree(u) /\ u.dead = taken.dead
    BY <1>2, LostIs
  <2>4. CASE GroupOf(w, p) = None
    BY <1>1, <1>2, <2>1, <2>2, <2>4 DEF AtRest
  <2>5. CASE GroupOf(w, p) # None
    <3>. DEFINE u == [taken EXCEPT !.lost = @ \cup {p}]
    <3>1. Agree(u) /\ u.dead = taken.dead
      BY <2>3
    <3>. HIDE DEF u
    <3>2. w' = u
      BY <2>1, <2>5 DEF u
    <3>. QED BY <1>1, <1>2, <3>1, <3>2 DEF AtRest
  <2>. QED BY <2>4, <2>5
<1>. QED BY <1>3, <1>4

\* The places that regions are attached at.
LEMMA PlacesAre ==
    ASSUME NEW r \in Regions, NEW g \in Groups
    PROVE  PlacesFor(r, g) \cup AboveLeader(r, g) \subseteq Places
<1>1. NoPlace \in Places
  BY DEF NoPlace, Places, Normal
<1>2. \A k \in {"bottom", "normal", "modal", "transient"} : Place(k) \in Places
  <2>1. Place("bottom") \in Places
    BY DEF Place, NoPlace, Places, Bottom, Normal
  <2>2. Place("normal") \in Places /\ Place("transient") \in Places
    BY <1>1 DEF Place
  <2>3. Place("modal") \in Places
    <3>1. Place("modal") = [NoPlace EXCEPT !.level = Modal]
      BY DEF Place
    <3>2. Modal \in Nat
      BY DEF Modal
    <3>3. [NoPlace EXCEPT !.level = Modal] \in Places
      BY <3>2 DEF NoPlace, Places, Normal
    <3>. QED BY <3>1, <3>3
  <2>. QED BY <2>1, <2>2, <2>3
<1>3. PlacesFor(r, g) \subseteq Places
  BY <1>2, GroupsAssumption DEF PlacesFor
<1>4. AboveLeader(r, g) \subseteq Places
  <2>1. \A l \in Leaders(g) : l \in Regions
    BY DEF Leaders, Members
  <2>2. \A l \in Regions : [NoPlace EXCEPT !.above = l] \in Places
    BY DEF NoPlace, Places, Normal
  <2>. QED BY <2>1, <2>2 DEF AboveLeader
<1>. QED BY <1>3, <1>4

LEMMA SettledRests ==
    ASSUME NEW q, Agree(q)
    PROVE  AtRest(Settled(q))
BY SettledIs DEF AtRest

LEMMA SameMembersRests ==
    ASSUME NEW q, AtRest(q), NEW u, Agree(u), SameMembers(q, u)
    PROVE  AtRest(u)
BY DEF AtRest, SameMembers

\* The steps that a group takes.
LEMMA GroupStepAgrees ==
    ASSUME AtRest(w), NEW g \in Groups,
           \/ \E v \in Windows : CreateGroup(g, v) \/ Move(g, v)
           \/ \E r \in Regions : \E place \in PlacesFor(r, g) : AttachTo(g, r, place)
           \/ \E rescued \in BOOLEAN : DestroyGroup(g, rescued)
           \/ Show(g) \/ Hide(g)
           \/ \E others \in SUBSET w.up : Display(g, others)
           \/ \E r \in Regions \cup {None} : SetBottom(g, r)
    PROVE  AtRest(w')
<1>0. Agree(w) /\ w.dead = <<>>
  BY DEF AtRest
<1>1. ASSUME NEW v \in Windows, CreateGroup(g, v) PROVE AtRest(w')
  <2>. DEFINE u == [w EXCEPT !.group[g] = [NoGroup EXCEPT !.win = v]]
  <2>1. w' = u /\ g \notin Alive(w)
    BY <1>1 DEF CreateGroup, Becomes
  <2>2. Agree(u) /\ u.dead = w.dead
    BY <1>0, <2>1, CreatedIs
  <2>. HIDE DEF u
  <2>. QED BY <1>0, <2>1, <2>2 DEF AtRest
<1>2. ASSUME NEW v \in Windows, Move(g, v) PROVE AtRest(w')
  <2>. DEFINE u == w.group[g].win
              moved == Unweaved(Above(w), Members(w, g))
              n == [w EXCEPT !.group[g].win = v,
                             !.stack[u] = Dropping(@, moved),
                             !.stack[v] = Weave(@, Only(w.stack[u], moved), Level(w),
                                                FALSE)]
  <2>1. w' = n /\ g \in Alive(w) /\ v # w.group[g].win
    BY <1>2 DEF Move, Becomes
  <2>2. Agree(n) /\ n.dead = w.dead
    BY <1>0, <2>1, MovedIs
  <2>. HIDE DEF n
  <2>. QED BY <1>0, <2>1, <2>2 DEF AtRest
<1>3. ASSUME NEW r \in Regions, NEW place \in PlacesFor(r, g), AttachTo(g, r, place)
      PROVE  AtRest(w')
  <2>1. PICK wasMapped \in BOOLEAN : w' = Settled(Attach(w, g, r, place, wasMapped))
    BY <1>3 DEF AttachTo, Becomes, Mapped
  <2>2. place \in Places /\ g \in Alive(w)
    BY <1>3, PlacesAre DEF AttachTo
  <2>3. Agree(Attach(w, g, r, place, wasMapped))
    BY <1>0, <2>2, AttachIs
  <2>. QED BY <2>1, <2>3, SettledRests
<1>4. ASSUME NEW rescued \in BOOLEAN, DestroyGroup(g, rescued) PROVE AtRest(w')
  <2>. DEFINE q == IF rescued THEN Rescued(w, g) ELSE w
  <2>1. w' = Settled(GroupDestroyed(q, g)) /\ g \in Alive(w)
    BY <1>4 DEF DestroyGroup, Becomes
  <2>2. Agree(q) /\ q.group[g].win = w.group[g].win
    <3>1. Agree(Rescued(w, g)) /\ Rescued(w, g).group[g].win = w.group[g].win
      BY <1>0, RescuedIs
    <3>. QED BY <1>0, <3>1
  <2>. HIDE DEF q
  <2>3. g \in Alive(q)
    BY <2>1, <2>2 DEF Alive
  <2>4. Agree(GroupDestroyed(q, g))
    BY <2>2, <2>3, GroupDestroyedIs
  <2>. QED BY <2>1, <2>4, SettledRests
<1>5. ASSUME Show(g) PROVE AtRest(w')
  <2>1. w' = Shown(w, g) /\ g \in Alive(w)
    BY <1>5 DEF Show, Becomes
  <2>2. Agree(Shown(w, g)) /\ SameMembers(w, Shown(w, g))
    BY <1>0, <2>1, ShownIs
  <2>. QED BY <2>1, <2>2, SameMembersRests
<1>6. ASSUME Hide(g) PROVE AtRest(w')
  <2>1. w' = HiddenAll(w, {g})
    BY <1>6 DEF Hide, Becomes
  <2>2. Agree(HiddenAll(w, {g})) /\ SameMembers(w, HiddenAll(w, {g}))
    BY <1>0, HiddenAllIs
  <2>. QED BY <2>1, <2>2, SameMembersRests
<1>7. ASSUME NEW others \in SUBSET w.up, Display(g, others) PROVE AtRest(w')
  <2>1. w' = Displayed(w, g, others) /\ g \in Alive(w)
    BY <1>7 DEF Display, Becomes
  <2>2. Agree(Displayed(w, g, others)) /\ SameMembers(w, Displayed(w, g, others))
    BY <1>0, <2>1, DisplayedIs
  <2>. QED BY <2>1, <2>2, SameMembersRests
<1>8. ASSUME NEW r \in Regions \cup {None}, SetBottom(g, r) PROVE AtRest(w')
  <2>. DEFINE n == [w EXCEPT !.group[g].bottom = r]
  <2>1. w' = n /\ g \in Alive(w) /\ r \in Members(w, g) \cup {None}
    BY <1>8 DEF SetBottom, Becomes
  <2>2. Agree(n) /\ n.dead = w.dead
    BY <1>0, <2>1, BottomSetIs
  <2>. HIDE DEF n
  <2>. QED BY <1>0, <2>1, <2>2 DEF AtRest
<1>. QED BY <1>1, <1>2, <1>3, <1>4, <1>5, <1>6, <1>7, <1>8

\* Those of a region.
LEMMA RegionStepAgrees ==
    ASSUME AtRest(w), NEW r \in Regions,
           \/ \E destroyed \in BOOLEAN, chain \in BOOLEAN :
                  LeaveGroup(r, destroyed, chain)
           \/ \E lower \in BOOLEAN : RqOrder(r, lower)
           \/ \E others \in SUBSET w.up, raise \in BOOLEAN : Goto(r, others, raise)
           \/ EnterFullscreen(r) \/ LeaveFullscreen(r) \/ LoseReturn(r)
           \/ Reattach(r) \/ Forget(r)
    PROVE  AtRest(w')
<1>0. Agree(w) /\ w.dead = <<>>
  BY DEF AtRest
<1>1. ASSUME NEW destroyed \in BOOLEAN, NEW chain \in BOOLEAN,
             LeaveGroup(r, destroyed, chain)
      PROVE  AtRest(w')
  <2>. DEFINE root == IF chain THEN DisposeRoot(w, r) ELSE None
              q == Disposed(Detached(w, r), root)
              u == IF destroyed THEN Unwatched(q, r) ELSE q
  <2>1. w' = Settled(u)
    BY <1>1 DEF LeaveGroup, Becomes
  <2>2. root \in Groups \cup {None}
    BY <1>0, DisposeRootIs DEF Agree
  <2>3. Agree(Detached(w, r))
    BY <1>0, DetachedIs
  <2>. HIDE DEF root
  <2>4. Agree(q)
    BY <2>2, <2>3, DisposedIs
  <2>. HIDE DEF q
  <2>5. Agree(u)
    BY <2>4, UnwatchedAgrees
  <2>. HIDE DEF u
  <2>. QED BY <2>1, <2>5, SettledRests
<1>2. ASSUME NEW lower \in BOOLEAN, RqOrder(r, lower) PROVE AtRest(w')
  <2>1. w' = Restacked(w, r, lower) /\ w.node[r].mgr # None
    BY <1>2 DEF RqOrder, Becomes
  <2>2. Agree(Restacked(w, r, lower)) /\ SameMembers(w, Restacked(w, r, lower))
    BY <1>0, <2>1, RestackedIs
  <2>. QED BY <2>1, <2>2, SameMembersRests
<1>3. ASSUME NEW others \in SUBSET w.up, NEW raise \in BOOLEAN, Goto(r, others, raise)
      PROVE  AtRest(w')
  <2>1. w' = Gone(w, r, others, raise) /\ w.node[r].mgr # None
    BY <1>3 DEF Goto, Becomes
  <2>2. Agree(Gone(w, r, others, raise)) /\ SameMembers(w, Gone(w, r, others, raise))
    BY <1>0, <2>1, GoneIs
  <2>. QED BY <2>1, <2>2, SameMembersRests
<1>4. ASSUME EnterFullscreen(r) PROVE AtRest(w')
  <2>1. PICK p \in ReturnOf(r) : w' = Fullscreened(r, p)
    BY <1>4 DEF EnterFullscreen, Becomes
  <2>2. w.node[r].mgr # None
    BY <1>4 DEF EnterFullscreen
  <2>. QED BY <2>1, <2>2, FullscreenedAgrees
<1>5. ASSUME LeaveFullscreen(r) \/ LoseReturn(r) PROVE AtRest(w')
  BY <1>5, LeaveFullscreenAgrees
<1>6. ASSUME Reattach(r) PROVE AtRest(w')
  <2>1. PICK wasMapped \in Mapped(r) :
           \E q \in AndGone(At(w, w.ret[r], r, wasMapped), r) : w' = Settled(q)
    BY <1>6 DEF Reattach, Becomes
  <2>2. PICK q \in AndGone(At(w, w.ret[r], r, wasMapped), r) : w' = Settled(q)
    BY <2>1
  <2>3. w.ret[r] \in PHolders /\ wasMapped \in BOOLEAN
    <3>1. w.ret[r] # None
      BY <1>6 DEF Reattach
    <3>2. w \in Worlds
      BY <1>0 DEF Agree
    <3>3. w.ret[r] \in PHolders \cup {None}
      BY <3>2, WorldFields
    <3>4. wasMapped \in BOOLEAN
      BY DEF Mapped
    <3>. QED BY <3>1, <3>3, <3>4
  <2>4. Agree(q)
    BY <1>0, <2>3, AndGoneIs
  <2>. QED BY <2>2, <2>4, SettledRests
<1>7. ASSUME Forget(r) PROVE AtRest(w')
  <2>1. w' = Settled(UnsetReturn(w, r))
    BY <1>7 DEF Forget, Becomes
  <2>. QED BY <1>0, <2>1, UnsetReturnAgrees, SettledRests
<1>. QED BY <1>1, <1>2, <1>3, <1>4, <1>5, <1>6, <1>7

\* Those with a placeholder.
LEMMA PHolderStepAgrees ==
    ASSUME AtRest(w), NEW p \in PHolders,
           \/ \E g \in Groups, r \in Regions :
                 \E place \in PlacesFor(r, g) \cup AboveLeader(r, g) :
                     MakePHolder(p, g, place)
           \/ DropPHolder(p) \/ \E r \in Regions : UsePHolder(p, r)
    PROVE  AtRest(w')
<1>0. Agree(w) /\ w.dead = <<>>
  BY DEF AtRest
<1>1. ASSUME NEW g \in Groups, NEW r \in Regions,
             NEW place \in PlacesFor(r, g) \cup AboveLeader(r, g),
             MakePHolder(p, g, place)
      PROVE  AtRest(w')
  <2>1. w' = NewPHolder(w, p, g, place) /\ p \in PHolders \ w.phs /\ g \in Alive(w)
    BY <1>1 DEF MakePHolder, Becomes
  <2>2. place \in Places
    BY PlacesAre
  <2>3. Agree(NewPHolder(w, p, g, place))
    BY <1>0, <2>1, <2>2, NewPHolderIs
  <2>4. NewPHolder(w, p, g, place).dead = w.dead
    BY <1>0, <2>1, <2>2, NewPHolderIs
  <2>. QED BY <1>0, <2>1, <2>3, <2>4 DEF AtRest
<1>2. ASSUME DropPHolder(p) PROVE AtRest(w')
  <2>1. w' = Dropped(w, p) /\ \A r \in Regions : w.ret[r] # p
    BY <1>2 DEF DropPHolder, Becomes, Kept
  <2>2. Agree(Dropped(w, p)) /\ Dropped(w, p).dead = w.dead
    BY <1>0, <2>1, DroppedIs
  <2>. QED BY <1>0, <2>1, <2>2 DEF AtRest
<1>3. ASSUME NEW r \in Regions, UsePHolder(p, r) PROVE AtRest(w')
  <2>1. PICK wasMapped \in Mapped(r) :
           \E q \in At(w, p, r, wasMapped) : w' = Settled(q)
    BY <1>3 DEF UsePHolder, Becomes
  <2>2. PICK q \in At(w, p, r, wasMapped) : w' = Settled(q)
    BY <2>1
  <2>3. wasMapped \in BOOLEAN
    BY DEF Mapped
  <2>4. Agree(q)
    BY <1>0, <2>3, AtIs
  <2>. QED BY <2>2, <2>4, SettledRests
<1>. QED BY <1>1, <1>2, <1>3

\* Nothing has a group yet.
LEMMA InitAgrees ==
    ASSUME Init
    PROVE  AtRest(w)
<1>1. /\ w.stack = [v \in Windows |-> <<>>] /\ w.node = [r \in Regions |-> NoNode]
      /\ w.mapped = {} /\ w.group = [g \in Groups |-> NoGroup] /\ w.up = {}
      /\ w.phs = {} /\ w.place = [p \in PHolders |-> NoPlace]
      /\ w.rings = {} /\ w.ret = [r \in Regions |-> None] /\ w.lost = {}
      /\ w.dead = <<>> /\ w.failed = "no"
  BY DEF Init
<1>2. /\ NoNode \in Nodes /\ NoPlace \in Places /\ NoGroup \in GroupStates
      /\ \A S : <<>> \in Seq(S)
  <2>1. \A S : <<>> \in Seq(S)
    OBVIOUS
  <2>2. NoNode \in Nodes /\ NoPlace \in Places
    BY DEF NoNode, Nodes, NoPlace, Places, Normal
  <2>3. NoGroup \in GroupStates
    BY <2>1 DEF NoGroup, GroupStates
  <2>. QED BY <2>1, <2>2, <2>3
<1>3. w \in Worlds
  <2>1. [v \in Windows |-> <<>>] \in [Windows -> Seq(Regions)]
    BY <1>2
  <2>2. [g \in Groups |-> NoGroup] \in [Groups -> GroupStates]
    BY <1>2
  <2>3. <<>> \in Seq(PHolders)
    BY <1>2
  <2>. DEFINE none == <<>>
              stack == [v \in Windows |-> <<>>]
              group == [g \in Groups |-> NoGroup]
              node == [r \in Regions |-> NoNode]
              place == [p \in PHolders |-> NoPlace]
              ret == [r \in Regions |-> None]
  <2>4. /\ none \in Seq(PHolders) /\ stack \in [Windows -> Seq(Regions)]
        /\ group \in [Groups -> GroupStates] /\ node \in [Regions -> Nodes]
        /\ place \in [PHolders -> Places] /\ ret \in [Regions -> PHolders \cup {None}]
    BY <1>2, <2>1, <2>2, <2>3
  <2>5. w = [stack |-> stack, node |-> node, mapped |-> {}, group |-> group,
             up |-> {}, phs |-> {}, place |-> place, rings |-> {}, ret |-> ret,
             lost |-> {}, dead |-> none, failed |-> "no"]
    BY DEF Init
  <2>. HIDE DEF none, stack, group, node, place, ret
  <2>. QED BY <2>4, <2>5 DEF Worlds
<1>4. ToSet(<<>>) = {} /\ IsInjective(<<>>) /\ Order(<<>>) = {}
  BY DEF ToSet, IsInjective, Order
<1>5. \A r \in Regions : w.node[r].mgr = None /\ w.node[r].above = None
  BY <1>1 DEF NoNode
<1>6. \A g \in Groups : w.group[g].bottom = None /\ w.group[g].phs = <<>>
  BY <1>1 DEF NoGroup
<1>7. MembersAgree(w)
  <2>1. TreesAgree(w)
    BY <1>5 DEF TreesAgree
  <2>2. \A v \in Windows : Shows(w, v) = {}
    BY <1>5 DEF Shows
  <2>3. \A v \in Windows : Stacked(w.stack[v], Shows(w, v), Level(w), Above(w))
    <3>. SUFFICES ASSUME NEW v \in Windows
                  PROVE  Stacked(w.stack[v], Shows(w, v), Level(w), Above(w))
      OBVIOUS
    <3>1. w.stack[v] = <<>>
      BY <1>1
    <3>. QED BY <1>2, <1>4, <2>2, <3>1 DEF Stacked, Sorted
  <2>. QED BY <1>1, <1>5, <1>6, <2>1, <2>3 DEF MembersAgree
<1>8. ListsApart(w)
  BY <1>1, <1>4, <1>6 DEF ListsApart
<1>9. ReturnsApart(w)
  BY <1>1 DEF ReturnsApart
<1>. QED BY <1>1, <1>3, <1>7, <1>8, <1>9 DEF AtRest, Agree

\* Whenever no handler runs the stacking lists, the groups and the lists of
\* placeholders agree, each region that is to return has a placeholder of its
\* own, and none is left that is to be destroyed.
THEOREM AlwaysAtRest == Spec => []AtRest(w)
<1>1. Init => AtRest(w)
  BY InitAgrees
<1>2. AtRest(w) /\ [Next]_w => AtRest(w)'
  <2>. SUFFICES ASSUME AtRest(w), Next PROVE AtRest(w')
    <3>1. ASSUME AtRest(w), UNCHANGED w PROVE AtRest(w)'
      BY <3>1 DEF AtRest, Agree
    <3>. QED BY <3>1
  <2>1. ASSUME NEW g \in Groups, NEW r \in Regions, DetachTo(r, g) PROVE AtRest(w')
    BY <2>1, DetachToAgrees
  <2>. QED BY <2>1, GroupStepAgrees, RegionStepAgrees, PHolderStepAgrees DEF Next
<1>. QED BY <1>1, <1>2, PTL DEF Spec

-----------------------------------------------------------------------------
(* What it says of the properties.                                         *)

LEMMA StackAgreesAtRest ==
    ASSUME AtRest(w), NEW v \in Windows
    PROVE  StackAgrees(v)
<1>. DEFINE s == w.stack[v]
<1>1. w \in Worlds /\ MembersAgree(w) /\ TreesAgree(w)
  BY DEF AtRest, Agree, MembersAgree
<1>2. Stacked(s, Shows(w, v), Level(w), Above(w))
  BY <1>1 DEF MembersAgree
<1>. HIDE DEF s
<1>3. /\ s \in Seq(Regions) /\ IsInjective(s) /\ ToSet(s) = Shows(w, v)
      /\ Sorted(s, Level(w))
      /\ \A x \in Shows(w, v) : Above(w)[x] # None => <<Above(w)[x], x>> \in Order(s)
  BY <1>2 DEF Stacked
<1>4. \A r \in Regions : r \in ToSet(s) <=>
         w.node[r].mgr # None /\ w.group[w.node[r].mgr].win = v
  BY <1>3 DEF Shows
<1>5. ASSUME NEW i \in DOMAIN s, NEW j \in DOMAIN s
      PROVE  /\ i < j => w.node[s[i]].level <= w.node[s[j]].level
             /\ w.node[s[i]].above = s[j] =>
                   /\ j < i /\ w.node[s[j]].mgr = w.node[s[i]].mgr
                   /\ w.node[s[j]].level = w.node[s[i]].level
  <2>1. /\ DOMAIN s = 1 .. Len(s) /\ Len(s) \in Nat
        /\ s[i] \in Regions /\ s[j] \in Regions /\ s[i] \in Shows(w, v)
    BY <1>3 DEF ToSet
  <2>2. ASSUME i < j PROVE w.node[s[i]].level <= w.node[s[j]].level
    <3>1. <<s[i], s[j]>> \in Order(s)
      BY <1>3, <2>1, <2>2, OrderOf
    <3>2. Level(w)[s[i]] <= Level(w)[s[j]]
      BY <1>3, <3>1 DEF Sorted
    <3>. QED BY <2>1, <3>2 DEF Level
  <2>3. ASSUME w.node[s[i]].above = s[j]
        PROVE  /\ j < i /\ w.node[s[j]].mgr = w.node[s[i]].mgr
               /\ w.node[s[j]].level = w.node[s[i]].level
    <3>1. w.node[s[i]].above # None /\ s[j] # None
      BY <2>1, <2>3, GroupsAssumption
    <3>2. /\ s[j] # s[i] /\ w.node[s[j]].mgr = w.node[s[i]].mgr
          /\ w.node[s[j]].level = w.node[s[i]].level
      BY <1>1, <2>1, <2>3, <3>1 DEF TreesAgree
    <3>3. <<s[j], s[i]>> \in Order(s)
      BY <1>3, <2>1, <2>3, <3>1 DEF Above
    <3>4. PICK k \in 1 .. Len(s), l \in 1 .. Len(s) : k <= l /\ s[k] = s[j] /\ s[l] = s[i]
      BY <1>3, <3>3, OrderOf
    <3>5. k = j /\ l = i
      BY <1>3, <2>1, <3>4 DEF IsInjective
    <3>. QED BY <2>1, <3>2, <3>4, <3>5
  <2>. QED BY <2>2, <2>3
<1>. QED BY <1>3, <1>4, <1>5 DEF StackAgrees, s

LEMMA OnOneList ==
    ASSUME AtRest(w), NEW p \in PHolders
    PROVE  Cardinality({g \in Groups : p \in ToSet(w.group[g].phs)})
           + Cardinality(InRing(w, p)) <= (IF p \in w.phs THEN 1 ELSE 0)
<1>. DEFINE A == {g \in Groups : p \in ToSet(w.group[g].phs)}
            B == InRing(w, p)
<1>1. ListsApart(w)
  BY DEF AtRest, Agree
<1>2. /\ \A g, h \in A : g = h
      /\ \A s, t \in B : s = t
      /\ A = {} \/ B = {}
      /\ p \notin w.phs => A = {} /\ B = {}
  BY <1>1 DEF ListsApart, InRing
<1>3. Cardinality({}) = 0 /\ \A x : Cardinality({x}) = 1
  BY FS_EmptySet, FS_Singleton
<1>4. A = {} \/ \E x : A = {x}
  <2>. HIDE DEF A
  <2>. QED BY <1>2
<1>5. B = {} \/ \E x : B = {x}
  <2>. HIDE DEF B
  <2>. QED BY <1>2
<1>. HIDE DEF A, B
<1>6. Cardinality(A) + Cardinality(B) <= IF p \in w.phs THEN 1 ELSE 0
  <2>1. CASE A = {} /\ B = {}
    BY <1>3, <2>1
  <2>2. CASE A # {}
    <3>1. p \in w.phs /\ B = {} /\ Cardinality(A) = 1
      BY <1>2, <1>3, <1>4, <2>2
    <3>. QED BY <1>3, <3>1
  <2>3. CASE B # {}
    <3>1. p \in w.phs /\ A = {} /\ Cardinality(B) = 1
      BY <1>2, <1>3, <1>5, <2>3
    <3>. QED BY <1>3, <3>1
  <2>. QED BY <2>1, <2>2, <2>3
<1>. QED BY <1>6 DEF A, B

LEMMA ListsAgreeAtRest ==
    ASSUME AtRest(w)
    PROVE  ListsAgree
<1>1. /\ w \in Worlds /\ MembersAgree(w) /\ TreesAgree(w) /\ ReturnsApart(w)
      /\ w.dead = <<>>
  BY DEF AtRest, Agree, MembersAgree
<1>2. TypeOK
  <2>1. w.ret \in [Regions -> w.phs \cup {None}]
    <3>1. w.ret \in [Regions -> PHolders \cup {None}]
      BY <1>1, WorldFields
    <3>2. \A r \in Regions : w.ret[r] \in w.phs \cup {None}
      BY <1>1 DEF ReturnsApart
    <3>. QED BY <3>1, <3>2
  <2>2. w.up \subseteq Alive(w) /\ w.lost \subseteq w.phs
    BY <1>1 DEF MembersAgree, ReturnsApart
  <2>. QED BY <1>1, <2>1, <2>2, WorldFields DEF TypeOK, Nodes, GroupStates
<1>3. \A r \in Regions : w.node[r].above # None =>
         w.node[r].mgr = w.node[w.node[r].above].mgr
  BY <1>1 DEF TreesAgree
<1>4. \A g \in Groups :
         w.group[g].bottom # None => w.group[g].bottom \in Members(w, g)
  <2>1. \A g \in Groups : w.group[g].bottom \in Regions \cup {None}
    BY <1>1, WorldFields
  <2>. QED BY <1>1, <2>1 DEF MembersAgree, Members
<1>. QED BY <1>2, <1>3, <1>4, StackAgreesAtRest, OnOneList DEF ListsAgree

LEMMA ModalFocusAtRest ==
    ASSUME AtRest(w)
    PROVE  ModalKeepsFocus
<1>. SUFFICES
       ASSUME NEW g \in Alive(w)
       PROVE  LET here == ToSet(StackOf(w, g)) \cap w.mapped
              IN /\ \A t \in Members(w, g) \cup {None} :
                      \A f \in {WindowFocus(w, g, t), GroupFocus(w, g, t)} \ {None} :
                          /\ f \in here \cup {t}
                          /\ \A m \in here : w.node[m].level < Modal
                                          \/ w.node[m].level <= w.node[f].level
                 /\ \A x \in here \cap Members(w, g) :
                      MustFocus(StackOf(w, g), Level(w), x, here) =>
                          {WindowFocus(w, g, x), WindowFocus(w, g, None)} = {x}
  BY DEF ModalKeepsFocus
<1>. DEFINE s == StackOf(w, g)
            here == ToSet(s) \cap w.mapped
            level == Level(w)
<1>1. w \in Worlds /\ MembersAgree(w)
  BY DEF AtRest, Agree
<1>2. w.group[g].win \in Windows
  BY <1>1, WorldFields DEF Alive
<1>3. /\ s \in Seq(Regions) /\ IsInjective(s) /\ Sorted(s, level)
      /\ ToSet(s) \subseteq Regions /\ None \notin ToSet(s)
  <2>1. Stacked(s, Shows(w, w.group[g].win), Level(w), Above(w))
    BY <1>1, <1>2 DEF MembersAgree, StackOf
  <2>. HIDE DEF s
  <2>. QED BY <2>1, GroupsAssumption DEF Stacked, Shows
<1>4. \A x \in Regions : level[x] \in Nat /\ level[x] = w.node[x].level
  BY <1>1, WorldFields DEF Level
<1>. HIDE DEF s, level
<1>5. ASSUME NEW t \in Members(w, g) \cup {None}, NEW approve,
             NEW f, f = FindToFocus(s, level, t, w.mapped, approve), f # None
      PROVE  /\ f \in here \cup {t}
             /\ \A m \in here : w.node[m].level < Modal
                             \/ w.node[m].level <= w.node[f].level
  <2>1. /\ f \in ToSet(s) \cap (w.mapped \cup {t})
        /\ \A m \in ToSet(s) \cap (w.mapped \cup {t}) :
              level[m] < Modal \/ level[m] <= level[f]
    BY <1>3, <1>4, <1>5, FindToFocusIs
  <2>2. f \in Regions /\ \A m \in here : m \in Regions
    BY <1>3, <2>1
  <2>. QED BY <1>4, <2>1, <2>2
<1>6. ASSUME NEW x \in here \cap Members(w, g), MustFocus(s, level, x, here)
      PROVE  \A y \in here : <<y, x>> \in Order(s)
  <2>. DEFINE top == FindToFocus(s, level, None, here \ {x}, here)
              rest == ToSet(s) \cap ((here \ {x}) \cup {None})
  <2>1. rest = here \ {x}
    BY <1>3
  <2>2. top = None \/ (level[x] > level[top] /\ level[x] >= Modal)
    BY <1>6 DEF MustFocus
  <2>3. rest \subseteq here /\ None \notin rest /\ x \in Regions
    BY <1>3
  <2>4. /\ top # None => top \in rest
        /\ rest \subseteq here /\ top = None => rest = {}
        /\ None \notin rest /\ rest \subseteq here /\ rest # {} =>
              \A y \in rest : <<y, top>> \in Order(s)
    BY <1>3, <1>4, FindToFocusIs
  <2>. HIDE DEF top, rest, here
  <2>5. CASE top = None
    <3>1. here = {x}
      BY <2>1, <2>3, <2>4, <2>5
    <3>. QED BY <1>3, <3>1, OrderIsTotal DEF here
  <2>6. CASE top # None
    <3>. SUFFICES ASSUME NEW y \in here, y # x PROVE <<y, x>> \in Order(s)
      BY <1>3, OrderIsTotal DEF here
    <3>1. y \in rest /\ top \in rest /\ <<y, top>> \in Order(s)
      BY <2>1, <2>3, <2>4, <2>6
    <3>2. level[y] <= level[top]
      BY <1>3, <3>1 DEF Sorted
    <3>3. y \in Regions /\ top \in Regions /\ y \in ToSet(s) /\ x \in ToSet(s)
      BY <1>3, <2>3, <3>1 DEF here
    <3>4. ~(level[x] <= level[y])
      BY <1>4, <2>2, <2>3, <2>6, <3>2, <3>3
    <3>5. <<x, y>> \notin Order(s)
      BY <1>3, <3>4 DEF Sorted
    <3>. QED BY <1>3, <3>3, <3>5, OrderIsTotal
  <2>. QED BY <2>5, <2>6
<1>7. ASSUME NEW x \in here \cap Members(w, g), MustFocus(s, level, x, here)
      PROVE  /\ FindToFocus(s, level, x, w.mapped, Regions) = x
             /\ FindToFocus(s, level, None, w.mapped, Regions) = x
  <2>1. \A y \in here : <<y, x>> \in Order(s)
    BY <1>6, <1>7
  <2>2. /\ ToSet(s) \cap (w.mapped \cup {x}) = here
        /\ ToSet(s) \cap (w.mapped \cup {None}) = here
        /\ None \notin here /\ x \in Regions /\ x \in here
    BY <1>3
  <2>. HIDE DEF here
  <2>. QED BY <1>3, <1>4, <2>1, <2>2, FindToFocusIs
<1>8. \A t : /\ WindowFocus(w, g, t) = FindToFocus(s, level, t, w.mapped, Regions)
             /\ GroupFocus(w, g, t) = FindToFocus(s, level, t, w.mapped, Members(w, g))
  BY DEF WindowFocus, GroupFocus, s, level
<1>9. \A t \in Members(w, g) \cup {None} :
         \A f \in {WindowFocus(w, g, t), GroupFocus(w, g, t)} \ {None} :
             /\ f \in here \cup {t}
             /\ \A m \in here : w.node[m].level < Modal
                             \/ w.node[m].level <= w.node[f].level
  <2>. HIDE DEF here
  <2>. QED BY <1>5, <1>8
<1>10. \A x \in here \cap Members(w, g) :
          MustFocus(s, level, x, here) =>
              {WindowFocus(w, g, x), WindowFocus(w, g, None)} = {x}
  <2>. HIDE DEF here
  <2>. QED BY <1>7, <1>8
<1>. QED BY <1>9, <1>10 DEF s, level

\* A window's stacking list holds the members of the groups in it, once and by
\* level; what is stacked above another is above it, and of its group; each
\* placeholder is on one list (ListsAgree).
THEOREM GroupsListsAgree == Spec => []ListsAgree
<1>1. AtRest(w) => ListsAgree
  BY ListsAgreeAtRest
<1>. QED BY <1>1, AlwaysAtRest, PTL

\* While a modal member is mapped in a window, stacking_find_to_focus finds
\* nothing under its level there, and agrees with stacking_must_focus.
THEOREM GroupsModalFocus == Spec => []ModalKeepsFocus
<1>1. AtRest(w) => ModalKeepsFocus
  BY ModalFocusAtRest
<1>. QED BY <1>1, AlwaysAtRest, PTL

-----------------------------------------------------------------------------
(* The placeholder a region returns by keeps its place.                    *)

Remembers(q, u, p) ==
    /\ u.place[p] = q.place[p]
    /\ \A h \in Groups : p \in ToSet(u.group[h].phs) <=> p \in ToSet(q.group[h].phs)
    /\ InRing(u, p) # {} <=> InRing(q, p) # {}

\* While others are destroyed.
LEMMA DroppedRemembers ==
    ASSUME NEW q, Agree(q), NEW p \in PHolders, NEW x \in PHolders, x # p
    PROVE  Remembers(q, Dropped(q, p), x)
<1>. DEFINE u == Dropped(q, p)
            place == [q.place EXCEPT ![p] = NoPlace]
            gone == [q EXCEPT !.phs = @ \ {p}, !.lost = @ \ {p}, !.place[p] = NoPlace]
            g == GroupOf(q, p)
            ring == CHOOSE s \in q.rings : p \in ToSet(s)
            rest == Unlink(ring, p)
            others == q.rings \ {ring}
<1>1. q \in Worlds /\ ListsApart(q)
  BY DEF Agree
<1>2. place[x] = q.place[x]
  BY <1>1, WorldFields
<1>3. gone.place = place /\ gone.group = q.group /\ gone.rings = q.rings
      /\ gone = [q EXCEPT !.phs = @ \ {p}, !.lost = @ \ {p}, !.place = place]
  <2>1. gone = [q EXCEPT !.phs = @ \ {p}, !.lost = @ \ {p}, !.place = place]
    OBVIOUS
  <2>. HIDE DEF place, gone
  <2>. QED BY <1>1, <2>1 DEF Worlds
<1>4. u = CASE g # None -> [gone EXCEPT !.group[g].phs = Unlink(@, p)]
            [] g = None /\ InRing(q, p) = {} -> gone
            [] OTHER ->
                 [gone EXCEPT
                    !.rings = others \cup ({rest} \ {<<>>}),
                    !.failed = CASE Len(ring) > 1 /\ p = Head(ring) -> "loop"
                                 [] Len(ring) > 1 /\ p = Last(ring) -> "assertion"
                                 [] OTHER -> @]
  BY Zenon DEF Dropped
<1>5. /\ q.rings \subseteq Seq(PHolders) /\ q.group \in [Groups -> GroupStates]
      /\ \A h \in Groups : q.group[h] \in GroupStates /\ q.group[h].phs \in Seq(PHolders)
      /\ \A h \in Groups : IsInjective(q.group[h].phs)
      /\ \A s \in q.rings : IsInjective(s)
  BY <1>1, WorldFields DEF ListsApart
<1>6. g # None => g \in Groups /\ p \in ToSet(q.group[g].phs)
  BY DEF GroupOf, Alive
<1>7. \A h \in DOMAIN q : h \in DOMAIN gone
  BY <1>3
<1>8. {"group", "rings", "place", "failed"} \subseteq DOMAIN gone
  BY <1>1, <1>3 DEF Worlds
<1>. HIDE DEF gone, u, g, place
<1>9. CASE g # None
  <2>. DEFINE l == Unlink(q.group[g].phs, p)
              group == [q.group EXCEPT ![g].phs = l]
  <2>1. g \in Groups /\ ToSet(l) = ToSet(q.group[g].phs) \ {p}
    <3>1. g \in Groups /\ p \in ToSet(q.group[g].phs)
      BY <1>6, <1>9
    <3>2. q.group[g].phs \in Seq(PHolders) /\ IsInjective(q.group[g].phs)
      BY <1>5, <3>1
    <3>. QED BY <3>1, <3>2, UnlinkElements
  <2>2. u = [gone EXCEPT !.group = group]
    BY <1>3, <1>4, <1>9
  <2>. HIDE DEF l
  <2>3. \A h \in Groups : group[h].phs = IF h = g THEN l ELSE q.group[h].phs
    <3>. SUFFICES ASSUME NEW h \in Groups
                  PROVE  group[h].phs = IF h = g THEN l ELSE q.group[h].phs
      OBVIOUS
    <3>1. group[h] = IF h = g THEN [q.group[h] EXCEPT !.phs = l] ELSE q.group[h]
      BY <1>5
    <3>2. q.group[h] \in GroupStates
      BY <1>5
    <3>. HIDE DEF group
    <3>. QED BY <3>1, <3>2 DEF GroupStates
  <2>. HIDE DEF group
  <2>4. u.group = group /\ u.rings = gone.rings /\ u.place = gone.place
    BY <1>8, <2>2
  <2>. QED BY <1>2, <1>3, <2>1, <2>3, <2>4 DEF Remembers, InRing, u
<1>10. CASE g = None /\ InRing(q, p) = {}
  <2>1. u = gone
    BY <1>4, <1>10
  <2>. QED BY <1>2, <1>3, <2>1 DEF Remembers, InRing, u
<1>11. CASE g = None /\ InRing(q, p) # {}
  <2>1. ring \in q.rings /\ p \in ToSet(ring)
    BY <1>11 DEF InRing
  <2>. HIDE DEF ring
  <2>2. ToSet(rest) = ToSet(ring) \ {p}
    <3>1. ring \in Seq(PHolders) /\ IsInjective(ring)
      BY <1>5, <2>1
    <3>. QED BY <2>1, <3>1, UnlinkElements
  <2>. DEFINE rings == others \cup ({rest} \ {<<>>})
              fails == CASE Len(ring) > 1 /\ p = Head(ring) -> "loop"
                         [] Len(ring) > 1 /\ p = Last(ring) -> "assertion"
                         [] OTHER -> gone.failed
  <2>3. u = [gone EXCEPT !.rings = rings, !.failed = fails]
    BY <1>4, <1>11
  <2>. HIDE DEF rings, fails
  <2>4. u.group = gone.group /\ u.rings = rings /\ u.place = gone.place
    BY <1>8, <2>3
  <2>5. (\E s \in rings : x \in ToSet(s)) <=> (\E s \in q.rings : x \in ToSet(s))
    <3>1. ToSet(<<>>) = {}
      BY DEF ToSet
    <3>2. \A s : s \in rings <=> (s \in q.rings /\ s # ring) \/ (s = rest /\ s # <<>>)
      BY DEF rings
    <3>. HIDE DEF rest
    <3>. QED BY <2>1, <2>2, <3>1, <3>2
  <2>. QED BY <1>2, <1>3, <2>4, <2>5 DEF Remembers, InRing, u
<1>. QED BY <1>9, <1>10, <1>11

LEMMA SettledRemembers ==
    ASSUME NEW q, Agree(q), NEW x \in PHolders \ ToSet(q.dead)
    PROVE  Remembers(q, Settled(q), x)
<1>. DEFINE N == Len(q.dead)
            q0 == [q EXCEPT !.dead = <<>>]
            next(n, z) == Dropped(z, q.dead[n])
            Good(z) == /\ Agree(z) /\ z.ret = q.ret
                       /\ Remembers(q, z, x)
            G == {z \in Worlds : Good(z)}
            Body(f) == [n \in 0 .. N |-> IF n = 0 THEN q0 ELSE next(n, f[n - 1])]
            step == [n \in 1 .. N |-> [z \in G |-> next(n, z)]]
            settled == CHOOSE f : f = Body(f)
<1>1. q \in Worlds /\ MembersAgree(q) /\ ListsApart(q) /\ ReturnsApart(q)
  BY DEF Agree
<1>2. q.dead \in Seq(PHolders)
  BY <1>1, WorldFields
<1>3. N \in Nat /\ \A n \in 1 .. N : q.dead[n] \in PHolders /\ q.dead[n] \in ToSet(q.dead)
  BY <1>2 DEF ToSet
<1>4. Settled(q) = settled[N]
  BY DEF Settled
<1>5. q0 \in G
  <2>1. /\ q0 \in Worlds /\ q0.dead = <<>>
        /\ q0.stack = q.stack /\ q0.node = q.node /\ q0.mapped = q.mapped
        /\ q0.up = q.up /\ q0.ret = q.ret /\ q0.group = q.group
        /\ q0.phs = q.phs /\ q0.rings = q.rings /\ q0.lost = q.lost
        /\ q0.place = q.place
    <3>. DEFINE none == <<>>
    <3>1. none \in Seq(PHolders)
      OBVIOUS
    <3>2. q0 = [q EXCEPT !.dead = none]
      OBVIOUS
    <3>. HIDE DEF none, q0
    <3>3. /\ q0 \in Worlds /\ q0.dead = none
          /\ q0.stack = q.stack /\ q0.node = q.node /\ q0.mapped = q.mapped
          /\ q0.up = q.up /\ q0.ret = q.ret /\ q0.group = q.group
          /\ q0.phs = q.phs /\ q0.rings = q.rings /\ q0.lost = q.lost
          /\ q0.place = q.place
      BY <1>1, <3>1, <3>2 DEF Worlds
    <3>. QED BY <3>3 DEF none
  <2>. HIDE DEF q0
  <2>2. MembersAgree(q0)
    <3>1. q0.up \subseteq Alive(q)
      BY <1>1, <2>1 DEF MembersAgree
    <3>. QED BY <1>1, <2>1, <3>1, MembersFrame
  <2>3. ListsApart(q0)
    <3>1. Alive(q0) = Alive(q)
      BY <2>1 DEF Alive
    <3>. QED BY <1>1, <2>1, <3>1, ListsFrame
  <2>4. ReturnsApart(q0)
    <3>1. ToSet(q0.dead) = {}
      BY <2>1 DEF ToSet
    <3>. QED BY <1>1, <2>1, <3>1 DEF ReturnsApart
  <2>5. Remembers(q, q0, x)
    BY <2>1 DEF Remembers, InRing
  <2>. QED BY <2>1, <2>2, <2>3, <2>4, <2>5 DEF Agree
<1>6. ASSUME NEW n \in 1 .. N, NEW z \in G PROVE next(n, z) \in G
  <2>. DEFINE p == q.dead[n]
              y == Dropped(z, p)
  <2>1. p \in PHolders /\ p # x /\ \A r \in Regions : q.ret[r] # p
    BY <1>1, <1>3, GroupsAssumption DEF ReturnsApart
  <2>2. Agree(z) /\ z.ret = q.ret /\ Remembers(q, z, x)
    OBVIOUS
  <2>. HIDE DEF p, y
  <2>3. Agree(y) /\ y.ret = z.ret
    <3>1. Agree(z) /\ \A r \in Regions : z.ret[r] # p
      BY <2>1, <2>2
    <3>. QED BY <2>1, <3>1, DroppedIs DEF y
  <2>4. Remembers(z, y, x)
    BY <2>1, <2>2, DroppedRemembers DEF y
  <2>5. Remembers(q, y, x)
    BY <2>2, <2>4 DEF Remembers
  <2>. QED BY <2>2, <2>3, <2>5 DEF Agree, y, p
<1>7. settled[0] = q0 /\ \A n \in 1 .. N : settled[n] = next(n, settled[n - 1])
  <2>. HIDE DEF next, N, G
  <2>1. step \in [1 .. N -> [G -> G]]
    BY <1>6
  <2>2. PICK f \in [0 .. N -> G] : Recurs(f, N, q0, step)
    <3>. HIDE DEF step, q0
    <3>. QED BY <1>3, <1>5, <2>1, RecursionExists
  <2>3. ASSUME NEW n \in 1 .. N PROVE f[n] = next(n, f[n - 1])
    <3>1. f[n - 1] \in G /\ f[n] = step[n][f[n - 1]]
      <4>. HIDE DEF step
      <4>. QED BY <1>3, <2>2 DEF Recurs
    <3>. QED BY <3>1
  <2>4. f[0] = q0
    BY <2>2 DEF Recurs
  <2>5. f = Body(f)
    <3>. HIDE DEF q0
    <3>1. \A n \in 0 .. N : f[n] = Body(f)[n]
      BY <1>3, <2>3, <2>4
    <3>. QED BY <3>1
  <2>6. settled = Body(settled)
    <3>. HIDE DEF Body
    <3>. QED BY <2>5
  <2>. HIDE DEF settled, q0
  <2>. QED BY <1>3, <2>6
<1>8. settled[N] \in G
  <2>. DEFINE S == {n \in 0 .. N : settled[n] \in G}
  <2>. HIDE DEF settled, G, next, q0
  <2>1. 0 \in S /\ \A n \in 1 .. N : n - 1 \in S => n \in S
    BY <1>3, <1>5, <1>6, <1>7
  <2>. HIDE DEF S, N
  <2>2. \A n \in 0 .. N : n \in S
    BY <1>3, <2>1, Induction
  <2>. QED BY <1>3, <2>2 DEF S
<1>. HIDE DEF settled
<1>. QED BY <1>4, <1>8

-----------------------------------------------------------------------------
(* Returning.                                                              *)

\* The placeholder p is still good for the place of a member of g: it is on the
\* list of g or, if g was a WGroupCW and is gone, on one that a group left.
Known(q, p, g, place) ==
    \/ g \in Alive(q) /\ p \in ToSet(q.group[g].phs) /\ q.place[p] = place
    \/ /\ g \notin Alive(q)
       /\ g \in GroupsCW => InRing(q, p) # {} /\ q.place[p] = place

\* What does not matter to it.
LEMMA KnownFrame ==
    ASSUME NEW q, NEW u, NEW p, NEW g \in Groups, NEW place, Known(q, p, g, place),
           u.place[p] = q.place[p], u.group[g].win = q.group[g].win,
           p \in ToSet(u.group[g].phs) <=> p \in ToSet(q.group[g].phs),
           InRing(q, p) # {} => InRing(u, p) # {}
    PROVE  Known(u, p, g, place)
BY DEF Known, Alive

\* Only a group that goes can forget it, and a WGroupCW that goes leaves it.
LEMMA DisposedKnows ==
    ASSUME NEW q, Agree(q), NEW root \in Groups \cup {None}, NEW p \in PHolders,
           NEW g \in Groups, NEW place, Known(q, p, g, place)
    PROVE  Known(Disposed(q, root), p, g, place)
<1>. DEFINE u == Disposed(q, root)
<1>1. q \in Worlds /\ ListsApart(q)
  BY DEF Agree
<1>2. CASE ~Goes(q, root)
  <2>1. u = q
    BY <1>2, DisposedIs
  <2>. QED BY <2>1
<1>3. CASE Goes(q, root)
  <2>1. root \in Groups /\ root \in Alive(q) /\ Members(q, root) = {} /\ root # None
    BY <1>3, GroupsAssumption DEF Goes, Alive
  <2>2. /\ \A h \in Groups \ {root} : u.group[h] = q.group[h]
        /\ u.group[root] = NoGroup /\ q.rings \subseteq u.rings
    <3>. HIDE DEF u
    <3>1. \A h \in Groups \ {root} : u.group[h] = q.group[h]
      BY DisposedIs DEF u
    <3>2. u.group[root] = NoGroup
      BY <1>3, DisposedIs DEF u
    <3>3. q.rings \subseteq u.rings
      BY DisposedIs DEF u
    <3>. QED BY <3>1, <3>2, <3>3
  <2>3. InRing(q, p) # {} => InRing(u, p) # {}
    BY <2>2 DEF InRing
  <2>4. root \notin Alive(u)
    BY <2>2 DEF Alive, NoGroup
  <2>5. CASE root \in GroupsCW
    <3>1. /\ u.place[p] = q.place[p]
          /\ u.rings = q.rings \cup ({q.group[root].phs} \ {<<>>})
      <4>1. u.place[p] = q.place[p]
        BY <2>5, DisposedIs
      <4>2. u.rings = q.rings \cup ({q.group[root].phs} \ {<<>>})
        BY <1>3, <2>5, DisposedIs
      <4>. QED BY <4>1, <4>2
    <3>. HIDE DEF u
    <3>2. CASE g = root
      <4>1. p \in ToSet(q.group[root].phs) /\ q.place[p] = place
        BY <2>1, <3>2 DEF Known
      <4>2. q.group[root].phs # <<>>
        BY <4>1 DEF ToSet
      <4>3. InRing(u, p) # {}
        BY <3>1, <4>1, <4>2 DEF InRing
      <4>. QED BY <2>4, <3>1, <3>2, <4>1, <4>3 DEF Known, u
    <3>3. CASE g # root
      <4>1. Known(u, p, g, place)
        BY <2>2, <2>3, <3>1, <3>3, KnownFrame
      <4>. QED BY <4>1 DEF u
    <3>. QED BY <3>2, <3>3
  <2>6. CASE root \notin GroupsCW
    <3>1. CASE g = root
      BY <2>4, <2>6, <3>1 DEF Known
    <3>2. CASE g # root
      <4>1. CASE g \notin Alive(q) /\ g \notin GroupsCW
        <5>1. g \notin Alive(u)
          BY <2>2, <3>2, <4>1 DEF Alive
        <5>. QED BY <4>1, <5>1 DEF Known
      <4>2. CASE g \in Alive(q) \/ g \in GroupsCW
        <5>1. p \in ToSet(q.group[g].phs) \/ \E s \in q.rings : p \in ToSet(s)
          BY <4>2 DEF Known, InRing
        <5>2. p \notin ToSet(q.group[root].phs)
          BY <1>1, <2>1, <3>2, <5>1 DEF ListsApart
        <5>3. u.place[p] = q.place[p]
          <6>1. u = GroupDestroyed(q, root)
            BY <2>1, <2>6 DEF Disposed, Rescued
          <6>. HIDE DEF u
          <6>. QED BY <2>1, <5>2, <6>1, GroupDestroyedIs
        <5>. HIDE DEF u
        <5>4. Known(u, p, g, place)
          BY <2>2, <2>3, <3>2, <5>3, KnownFrame
        <5>. QED BY <5>4 DEF u
      <4>. QED BY <4>1, <4>2
    <3>. QED BY <3>1, <3>2
  <2>. QED BY <2>5, <2>6
<1>. QED BY <1>2, <1>3

\* Leaving a group leaves its placeholders.
LEMMA DetachedKnows ==
    ASSUME NEW q, Agree(q), NEW r \in Regions, NEW p \in PHolders,
           NEW g \in Groups, NEW place, Known(q, p, g, place)
    PROVE  Known(Detached(q, r), p, g, place)
<1>. DEFINE u == Detached(q, r)
<1>1. u.group[g].win = q.group[g].win /\ u.group[g].phs = q.group[g].phs
  BY DetachedIs
<1>2. u.place = q.place /\ u.rings = q.rings
  BY DetachedIs
<1>. HIDE DEF u
<1>3. InRing(u, p) = InRing(q, p)
  BY <1>2 DEF InRing
<1>4. Known(u, p, g, place)
  BY <1>1, <1>2, <1>3, KnownFrame
<1>. QED BY <1>4 DEF u

\* Others than the placeholders to be destroyed stay where they are.
LEMMA SettledKnows ==
    ASSUME NEW q, Agree(q), NEW p \in PHolders \ ToSet(q.dead),
           NEW g \in Groups, NEW place, Known(q, p, g, place)
    PROVE  Known(Settled(q), p, g, place)
<1>. DEFINE u == Settled(q)
<1>1. \A h \in Groups : u.group[h].win = q.group[h].win
  BY SettledIs
<1>2. Remembers(q, u, p)
  BY SettledRemembers
<1>. HIDE DEF u
<1>3. Known(u, p, g, place)
  BY <1>1, <1>2, KnownFrame DEF Remembers
<1>. QED BY <1>3 DEF u

\* In q the region r is full screen and is to return by the placeholder p to
\* where it is in w, which x alone has left since.
Waiting(q, r, p, x) ==
    LET g == w.node[r].mgr
    IN /\ AtRest(q) /\ q.ret[r] = p /\ q.node[r].mgr = None
       /\ Known(q, p, g, PlaceOf(w, r))
       /\ \A y \in Regions \ {r, x} :
            q.node[y].mgr = w.node[y].mgr /\ q.node[y].level = w.node[y].level
       /\ x \in Regions => q.node[x].mgr = None
       /\ w.group[g].bottom = r /\ g \in Alive(q) => q.group[g].bottom = None

\* region_enter_fullscreen
LEMMA FullscreenedWaits ==
    ASSUME AtRest(w), NEW r \in Regions, NEW p \in PHolders \ w.phs,
           w.node[r].mgr # None, w.ret[r] = None
    PROVE  Waiting(Fullscreened(r, p), r, p, None)
<1>. DEFINE g == w.node[r].mgr
            place == PlaceOf(w, r)
            a == NewPHolder(w, p, g, place)
            b == Detached(a, r)
            root == DisposeRoot(w, r)
            c == Disposed(b, root)
            d == [c EXCEPT !.ret[r] = p]
            u == Settled(d)
<1>1. Agree(w) /\ w.dead = <<>> /\ w \in Worlds /\ MembersAgree(w)
  BY DEF AtRest, Agree
<1>2. /\ root \in Groups \cup {None} /\ place \in Places
      /\ g \in Groups /\ g \in Alive(w) /\ p # None
  BY <1>1, DisposeRootIs, PlaceOfIs, MemberIsOnList, GroupsAssumption
<1>3. Fullscreened(r, p) = u
  <2>1. w.ret[r] # p
    BY <1>2
  <2>2. WithReturn(w, r, p) = a
    BY <2>1 DEF WithReturn
  <2>. QED BY <2>2 DEF Fullscreened
<1>4. AtRest(u)
  BY <1>1, <1>3, FullscreenedAgrees DEF ReturnOf, AtRest
<1>5. /\ Agree(a) /\ a.node = w.node /\ a.ret = w.ret /\ a.dead = w.dead
      /\ a.lost = w.lost
      /\ \A h \in Groups : a.group[h].win = w.group[h].win
                           /\ a.group[h].bottom = w.group[h].bottom
      /\ ToSet(a.group[g].phs) = ToSet(w.group[g].phs) \cup {p}
      /\ a.phs = w.phs \cup {p} /\ a.place[p] = place
  <2>. HIDE DEF place, g
  <2>1. /\ Agree(a) /\ a.node = w.node /\ a.ret = w.ret /\ a.dead = w.dead
        /\ a.lost = w.lost /\ a.phs = w.phs \cup {p}
    BY <1>1, <1>2, NewPHolderIs
  <2>2. \A h \in Groups : a.group[h].win = w.group[h].win
                          /\ a.group[h].bottom = w.group[h].bottom
    BY <1>1, <1>2, NewPHolderIs
  <2>3. ToSet(a.group[g].phs) = ToSet(w.group[g].phs) \cup {p}
    <3>1. Agree(w) /\ p \in PHolders \ w.phs /\ g \in Alive(w) /\ place \in Places
      BY <1>1, <1>2
    <3>. QED BY <3>1, NewPHolderIs, SMTT(60)
  <2>4. a.place[p] = place
    BY <1>1, <1>2, NewPHolderIs
  <2>. QED BY <2>1, <2>2, <2>3, <2>4
<1>6. Known(a, p, g, place)
  <2>. HIDE DEF a, place, g
  <2>. QED BY <1>2, <1>5 DEF Known, Alive
<1>. HIDE DEF a, place
<1>7. /\ Agree(b) /\ b.node[r].mgr = None
      /\ \A y \in Regions \ {r} : b.node[y].mgr = a.node[y].mgr
                                  /\ b.node[y].level = a.node[y].level
  BY <1>5, DetachedIs
<1>8. \A h \in Groups :
         b.group[h].bottom = IF a.group[h].bottom = r THEN None ELSE a.group[h].bottom
  BY <1>5, DetachedIs
<1>9. b.ret[r] = None /\ \A y \in Regions \ {r} : b.ret[y] = a.ret[y]
  BY <1>5, DetachedIs
<1>10. b.dead = <<>> /\ b.lost = a.lost /\ b.phs = a.phs
  <2>1. a.ret[r] = None /\ a.dead = <<>>
    BY <1>1, <1>5
  <2>. QED BY <1>5, <2>1, DetachedIs
<1>11. Known(b, p, g, place)
  BY <1>2, <1>5, <1>6, DetachedKnows
<1>. HIDE DEF b, root
<1>12. /\ Agree(c) /\ c.node = b.node /\ c.ret = b.ret /\ c.dead = b.dead
       /\ c.lost \subseteq b.lost /\ b.phs \ b.lost \subseteq c.phs
  BY <1>2, <1>7, DisposedIs
<1>13. \A h \in Groups : c.group[h] = b.group[h] \/ c.group[h] = NoGroup
  BY <1>2, <1>7, DisposedIs
<1>14. Known(c, p, g, place)
  BY <1>2, <1>7, <1>11, DisposedKnows
<1>. HIDE DEF c
<1>15. /\ Agree(d) /\ d.node = c.node /\ d.group = c.group /\ d.dead = c.dead
       /\ d.place = c.place /\ d.rings = c.rings /\ d.ret = [c.ret EXCEPT ![r] = p]
  <2>1. w.lost \subseteq w.phs /\ p \notin w.lost
    BY <1>1 DEF Agree, ReturnsApart
  <2>2. p \in c.phs \ c.lost /\ p \notin ToSet(c.dead)
    <3>1. ToSet(c.dead) = {}
      BY <1>10, <1>12 DEF ToSet
    <3>. QED BY <1>5, <1>10, <1>12, <2>1, <3>1
  <2>3. \A y \in Regions : c.ret[y] # p
    <3>1. \A y \in Regions : w.ret[y] # p
      BY <1>1, <1>2 DEF Agree, ReturnsApart
    <3>. QED BY <1>2, <1>5, <1>9, <1>12, <3>1
  <2>. QED BY <1>12, <2>2, <2>3, ReturningIs
<1>16. d.ret[r] = p
  BY <1>12, <1>15, WorldFields DEF Agree
<1>. HIDE DEF d
<1>17. Known(d, p, g, place)
  BY <1>2, <1>14, <1>15, KnownFrame DEF InRing
<1>18. /\ u.node = d.node /\ u.ret = d.ret
       /\ \A h \in Groups : u.group[h].win = d.group[h].win
                            /\ u.group[h].bottom = d.group[h].bottom
  BY <1>15, SettledIs
<1>19. Known(u, p, g, place)
  <2>1. p \in PHolders \ ToSet(d.dead)
    BY <1>10, <1>12, <1>15 DEF ToSet
  <2>. QED BY <1>2, <1>15, <1>17, <2>1, SettledKnows
<1>. HIDE DEF u
<1>20. u.ret[r] = p /\ u.node[r].mgr = None
  BY <1>7, <1>12, <1>15, <1>16, <1>18
<1>21. \A y \in Regions \ {r, None} :
          u.node[y].mgr = w.node[y].mgr /\ u.node[y].level = w.node[y].level
  BY <1>5, <1>7, <1>12, <1>15, <1>18
<1>22. w.group[g].bottom = r /\ g \in Alive(u) => u.group[g].bottom = None
  BY <1>2, <1>5, <1>8, <1>13, <1>15, <1>18 DEF NoGroup
<1>23. None \notin Regions
  BY GroupsAssumption
<1>24. Waiting(u, r, p, None)
  BY <1>4, <1>19, <1>20, <1>21, <1>22, <1>23 DEF Waiting, place
<1>. QED BY <1>3, <1>24

\* Another member leaves its group, which goes if that leaves it empty.
LEMMA WaitsOn ==
    ASSUME NEW r \in Regions, w.node[r].mgr \in Groups, NEW p \in PHolders, NEW q,
           Waiting(q, r, p, None), NEW x \in Regions \ {r}
    PROVE  Waiting(Settled(Disposed(Detached(q, x), DisposeRoot(q, x))), r, p, x)
<1>. DEFINE g == w.node[r].mgr
            place == PlaceOf(w, r)
            b == Detached(q, x)
            root == DisposeRoot(q, x)
            c == Disposed(b, root)
            u == Settled(c)
<1>1. /\ Agree(q) /\ q \in Worlds /\ q.dead = <<>> /\ q.ret[r] = p
      /\ q.node[r].mgr = None /\ Known(q, p, g, place) /\ g \in Groups
      /\ \A y \in Regions \ {r} :
            q.node[y].mgr = w.node[y].mgr /\ q.node[y].level = w.node[y].level
      /\ w.group[g].bottom = r /\ g \in Alive(q) => q.group[g].bottom = None
  <2>1. \A y \in Regions \ {r, None} :
            q.node[y].mgr = w.node[y].mgr /\ q.node[y].level = w.node[y].level
    BY DEF Waiting
  <2>2. None \notin Regions
    BY GroupsAssumption
  <2>. QED BY <2>1, <2>2 DEF Waiting, AtRest, Agree
<1>2. root \in Groups \cup {None}
  BY <1>1, DisposeRootIs
<1>3. p # None
  BY GroupsAssumption
<1>. HIDE DEF place, g
<1>4. /\ Agree(b) /\ b.node[x].mgr = None
      /\ \A y \in Regions \ {x} : b.node[y].mgr = q.node[y].mgr
                                  /\ b.node[y].level = q.node[y].level
  BY <1>1, DetachedIs
<1>5. \A h \in Groups :
         /\ b.group[h].win = q.group[h].win
         /\ b.group[h].bottom = IF q.group[h].bottom = x THEN None ELSE q.group[h].bottom
  BY <1>1, DetachedIs
<1>6. b.ret[x] = None /\ \A y \in Regions \ {x} : b.ret[y] = q.ret[y]
  BY <1>1, DetachedIs
<1>7. p \notin ToSet(b.dead)
  <2>1. b.ret[r] = p
    BY <1>1, <1>6
  <2>. HIDE DEF b
  <2>. QED BY <1>3, <1>4, <2>1 DEF Agree, ReturnsApart
<1>8. Known(b, p, g, place)
  BY <1>1, DetachedKnows
<1>. HIDE DEF b, root
<1>9. Agree(c) /\ c.node = b.node /\ c.ret = b.ret /\ c.dead = b.dead
  BY <1>2, <1>4, DisposedIs
<1>10. \A h \in Groups : c.group[h] = b.group[h] \/ c.group[h] = NoGroup
  BY <1>2, <1>4, DisposedIs
<1>11. Known(c, p, g, place)
  BY <1>1, <1>2, <1>4, <1>8, DisposedKnows
<1>. HIDE DEF c
<1>12. /\ Agree(u) /\ u.dead = <<>> /\ u.node = c.node /\ u.ret = c.ret
       /\ \A h \in Groups : u.group[h].win = c.group[h].win
                            /\ u.group[h].bottom = c.group[h].bottom
  BY <1>9, SettledIs
<1>13. Known(u, p, g, place)
  <2>1. p \in PHolders \ ToSet(c.dead)
    BY <1>7, <1>9
  <2>. QED BY <1>1, <1>9, <1>11, <2>1, SettledKnows
<1>. HIDE DEF u
<1>14. u.ret[r] = p /\ u.node[r].mgr = None /\ u.node[x].mgr = None
  BY <1>1, <1>4, <1>6, <1>9, <1>12
<1>15. \A y \in Regions \ {r, x} :
          u.node[y].mgr = w.node[y].mgr /\ u.node[y].level = w.node[y].level
  BY <1>1, <1>4, <1>9, <1>12
<1>16. w.group[g].bottom = r /\ g \in Alive(u) => u.group[g].bottom = None
  BY <1>1, <1>5, <1>10, <1>12 DEF NoGroup, Alive
<1>17. Waiting(u, r, p, x)
  BY <1>12, <1>13, <1>14, <1>15, <1>16 DEF Waiting, AtRest, place, g
<1>. QED BY <1>17 DEF u, c, b, root

\* A placeholder is where it is on a list.
LEMMA WhereIs ==
    ASSUME NEW q, Agree(q), NEW p \in PHolders
    PROVE  /\ \A g \in Groups : p \in ToSet(q.group[g].phs) => GroupOf(q, p) = g
           /\ InRing(q, p) # {} => GroupOf(q, p) = None
<1>. DEFINE at == {g \in Alive(q) : p \in ToSet(q.group[g].phs)}
<1>1. ListsApart(q)
  BY DEF Agree
<1>2. GroupOf(q, p) = IF at = {} THEN None ELSE CHOOSE g \in at : TRUE
  BY DEF GroupOf
<1>3. ASSUME NEW g \in Groups, p \in ToSet(q.group[g].phs)
      PROVE  GroupOf(q, p) = g
  <2>1. g \in Alive(q)
    BY <1>1, <1>3 DEF ListsApart, ToSet
  <2>2. \A h \in at : h = g
    BY <1>1, <1>3 DEF ListsApart, Alive
  <2>3. g \in at
    BY <1>3, <2>1
  <2>. HIDE DEF at
  <2>. QED BY <1>2, <2>2, <2>3
<1>4. ASSUME InRing(q, p) # {} PROVE GroupOf(q, p) = None
  <2>1. PICK s \in q.rings : p \in ToSet(s)
    BY <1>4 DEF InRing
  <2>2. at = {}
    BY <1>1, <2>1 DEF ListsApart, Alive
  <2>. HIDE DEF at
  <2>. QED BY <1>2, <2>2
<1>. QED BY <1>3, <1>4

\* A region that has neither a group nor a placeholder to return by is only
\* linked.
LEMMA AttachFresh ==
    ASSUME NEW q, NEW g, NEW r, NEW place, NEW wasMapped,
           q.node[r].mgr = None, q.ret[r] = None
    PROVE  Attach(q, g, r, place, wasMapped)
             = Attached(q, g, r, place, wasMapped \/ r \in q.mapped)
<1>1. Detached(q, r) = q
  BY DEF Detached, UnsetReturn
<1>2. DisposeRoot(q, r) = None
  BY DEF DisposeRoot
<1>. QED BY <1>1, <1>2 DEF Attach, Disposed

\* So is q when the placeholder has been taken for r to return by.
Returning(q, r, p, x) ==
    LET g == w.node[r].mgr
    IN /\ Agree(q) /\ q.ret[r] = None /\ q.node[r].mgr = None
       /\ Known(q, p, g, PlaceOf(w, r))
       /\ \A y \in Regions \ {r, x} :
            q.node[y].mgr = w.node[y].mgr /\ q.node[y].level = w.node[y].level
       /\ x \in Regions => q.node[x].mgr = None
       /\ w.group[g].bottom = r /\ g \in Alive(q) => q.group[g].bottom = None

LEMMA WaitingTaken ==
    ASSUME NEW r \in Regions, NEW p \in PHolders, NEW q, NEW x,
           Waiting(q, r, p, x), w.node[r].mgr \in Groups
    PROVE  LET u == [q EXCEPT !.ret[r] = None]
           IN Returning(u, r, p, x) /\ Alive(u) = Alive(q)
<1>. DEFINE u == [q EXCEPT !.ret[r] = None]
            g == w.node[r].mgr
<1>1. Agree(q) /\ q.ret[r] = p /\ p # None /\ Known(q, p, g, PlaceOf(w, r))
  BY GroupsAssumption DEF Waiting, AtRest
<1>2. Agree(u) /\ u.node = q.node /\ u.ret[r] = None
  BY <1>1, ReturnTakenIs
<1>3. u.group = q.group /\ u.place = q.place /\ u.rings = q.rings
  BY <1>1 DEF Agree, Worlds
<1>. HIDE DEF u, g
<1>4. g \in Groups
  BY DEF g
<1>5. Known(u, p, g, PlaceOf(w, r))
  BY <1>1, <1>3, <1>4, KnownFrame DEF InRing
<1>6. Alive(u) = Alive(q)
  BY <1>3 DEF Alive
<1>7. Returning(u, r, p, x)
  BY <1>2, <1>3, <1>5, <1>6 DEF Waiting, Returning, g
<1>. QED BY <1>6, <1>7 DEF u

\* To its group.
LEMMA ReturnsToGroup ==
    ASSUME AtRest(w), NEW r \in Regions, NEW p \in PHolders, NEW l,
           NEW x \in (Regions \ {r}) \cup {None}, w.node[r].mgr # None,
           NEW wasMapped \in BOOLEAN, Returning(l, r, p, x), w.node[r].mgr \in Alive(l)
    PROVE  LET g == w.node[r].mgr
               back == At(l, p, r, wasMapped)
           IN /\ back # {}
              /\ \A u \in back :
                   /\ u.node[r] \in Nodes /\ u.node[r].mgr = g
                   /\ u.node[r].level = w.node[r].level
                   /\ u.node[r].above = IF w.node[r].above # x THEN w.node[r].above
                                        ELSE None
                   /\ u.group[g].bottom = r <=> w.group[g].bottom = r
<1>. DEFINE g == w.node[r].mgr
            place == PlaceOf(w, r)
            a == w.node[r].above
            m == wasMapped \/ r \in l.mapped
            u == Attached(l, g, r, place, m)
<1>1. /\ Agree(w) /\ w \in Worlds /\ MembersAgree(w) /\ TreesAgree(w)
      /\ r # None
  BY GroupsAssumption DEF AtRest, Agree, MembersAgree
<1>2. g \in Groups /\ place \in Places /\ a \in Regions \cup {None}
  BY <1>1, MemberIsOnList, PlaceOfIs, WorldFields
<1>3. /\ place.level = w.node[r].level /\ place.above = a
      /\ place.bottom <=> w.group[g].bottom = r
  BY DEF PlaceOf
<1>4. Agree(l) /\ l.ret[r] = None /\ Known(l, p, g, place)
  BY DEF Returning
<1>5. /\ l.node[r].mgr = None /\ g \in Alive(l)
      /\ \A y \in Regions \ {r, x} :
            l.node[y].mgr = w.node[y].mgr /\ l.node[y].level = w.node[y].level
      /\ x \in Regions => l.node[x].mgr = None
      /\ w.group[g].bottom = r => l.group[g].bottom = None
  BY DEF Returning
<1>. HIDE DEF place, g, a
<1>6. p \in ToSet(l.group[g].phs) /\ l.place[p] = place
  BY <1>4, <1>5 DEF Known
<1>7. GroupOf(l, p) = g /\ g # None
  BY <1>2, <1>4, <1>6, WhereIs, GroupsAssumption
<1>8. ~Refused(l, g, l.place[p])
  BY <1>3, <1>5, <1>6 DEF Refused
<1>9. At(l, p, r, wasMapped) = {u}
  <2>1. At(l, p, r, wasMapped) = {Attach(l, g, r, place, wasMapped)}
    BY <1>6, <1>7, <1>8 DEF At
  <2>2. Attach(l, g, r, place, wasMapped) = u
    BY <1>4, <1>5, AttachFresh
  <2>. QED BY <2>1, <2>2
<1>10. m \in BOOLEAN
  OBVIOUS
<1>. HIDE DEF m
<1>11. u.node[r].mgr = g /\ u.node[r].above = StackAbove(l, g, place)
  BY <1>2, <1>4, <1>5, <1>10, AttachedIs
<1>12. u.node[r].level = IF StackAbove(l, g, place) = None THEN place.level
                         ELSE l.node[StackAbove(l, g, place)].level
  BY <1>2, <1>4, <1>5, <1>10, AttachedIs
<1>13. /\ place.bottom => u.group[g].bottom = r
       /\ ~place.bottom => u.group[g].bottom = l.group[g].bottom
  BY <1>2, <1>4, <1>5, <1>10, AttachedIs
<1>14. u.node[r] \in Nodes
  BY <1>2, <1>4, <1>5, <1>10, AttachedIs, WorldFields DEF Agree
<1>. HIDE DEF u
<1>15. StackAbove(l, g, place) = IF a # x THEN a ELSE None
  <2>1. CASE a = None
    BY <1>3, <2>1, GroupsAssumption DEF StackAbove, Members
  <2>2. CASE a = x /\ a # None
    BY <1>2, <1>3, <1>5, <1>7, <2>2 DEF StackAbove, Members
  <2>3. CASE a # x /\ a # None
    <3>1. a \in Regions \ {r, x} /\ w.node[a].mgr = g
      BY <1>1, <1>2, <2>3 DEF TreesAgree, a, g
    <3>. QED BY <1>3, <1>5, <2>3, <3>1 DEF StackAbove, Members
  <2>. QED BY <2>1, <2>2, <2>3
<1>16. u.node[r].level = w.node[r].level
  <2>1. CASE a = None \/ a = x
    BY <1>3, <1>12, <1>15, <2>1
  <2>2. CASE a # x /\ a # None
    <3>1. a \in Regions \ {r, x} /\ w.node[a].level = w.node[r].level
      BY <1>1, <1>2, <2>2 DEF TreesAgree, a
    <3>. QED BY <1>5, <1>12, <1>15, <2>2, <3>1
  <2>. QED BY <2>1, <2>2
<1>17. u.group[g].bottom = r <=> w.group[g].bottom = r
  <2>1. l.group[g].bottom # r
    BY <1>1, <1>2, <1>4, <1>5, <1>7 DEF Agree, MembersAgree
  <2>. QED BY <1>3, <1>13, <2>1
<1>. QED BY <1>9, <1>11, <1>14, <1>15, <1>16, <1>17 DEF g, a

\* To a group that is made again for it.
LEMMA RecreatedFor ==
    ASSUME NEW q, Agree(q), NEW p \in PHolders, InRing(q, p) # {},
           NEW g \in Groups \ Alive(q), NEW v \in Windows, NEW r \in Regions,
           q.node[r].mgr = None, q.ret[r] = None, NEW wasMapped \in BOOLEAN, NEW up
    PROVE  LET u == Recreated(q, p, g, v, r, wasMapped, up)
           IN /\ u.node[r] \in Nodes /\ u.node[r].mgr = g
              /\ u.node[r].above = None /\ u.node[r].level = q.place[p].level
              /\ u.group[g].bottom = r <=> q.place[p].bottom
<1>. DEFINE ring == CHOOSE s \in q.rings : p \in ToSet(s)
            place == [q.place[p] EXCEPT !.above = None]
            made == [q EXCEPT !.group[g] = [NoGroup EXCEPT !.win = v]]
            full == Attach(made, g, r, place, wasMapped)
            taken == [full EXCEPT !.rings = @ \ {ring}, !.group[g].phs = ring]
            u == Recreated(q, p, g, v, r, wasMapped, up)
            m == wasMapped \/ r \in made.mapped
<1>1. ring \in q.rings /\ r # None
  BY GroupsAssumption DEF InRing
<1>2. /\ place \in Places /\ place.above = None /\ place.level = q.place[p].level
      /\ place.bottom = q.place[p].bottom /\ place.bottom \in BOOLEAN
  <2>1. q.place[p] \in Places
    BY WorldFields DEF Agree
  <2>. QED BY <2>1 DEF Places
<1>3. /\ Agree(made) /\ g \in Alive(made) /\ made.group[g].bottom = None
      /\ made.node = q.node /\ made.ret = q.ret /\ made.rings = q.rings
  <2>1. Agree(made) /\ g \in Alive(made) /\ made.group[g].bottom = None
    BY CreatedIs
  <2>2. made.node = q.node /\ made.ret = q.ret /\ made.rings = q.rings
    BY CreatedIs
  <2>. QED BY <2>1, <2>2
<1>5. u = IF up THEN Shown(taken, g) ELSE taken
  BY DEF Recreated
<1>. HIDE DEF u, ring, place, made
<1>6. made.node[r].mgr = None /\ m \in BOOLEAN /\ full = Attached(made, g, r, place, m)
  BY <1>3, AttachFresh
<1>. HIDE DEF m, full
<1>7. Agree(full) /\ full.node[r].mgr = g
  BY <1>2, <1>3, <1>6, AttachedIs
<1>8. StackAbove(made, g, place) = None
  BY <1>2, GroupsAssumption DEF StackAbove, Members
<1>9. full.node[r].above = None /\ full.node[r].level = place.level
  BY <1>2, <1>3, <1>6, <1>8, AttachedIs
<1>10. /\ place.bottom => full.group[g].bottom = r
       /\ ~place.bottom => full.group[g].bottom = made.group[g].bottom
  BY <1>2, <1>3, <1>6, AttachedIs
<1>11. full.rings = made.rings
  BY <1>2, <1>3, <1>6, AttachedIs
<1>12. g \in Alive(full) /\ full.node[r] \in Nodes
  <2>1. g # None
    BY GroupsAssumption
  <2>. QED BY <1>7, <2>1, WorldFields DEF Agree, MembersAgree
<1>13. /\ Agree(taken) /\ g \in Alive(taken) /\ taken.node = full.node
       /\ taken.group[g].bottom = full.group[g].bottom
  <2>1. ring \in full.rings
    BY <1>1, <1>3, <1>11
  <2>2. Agree(taken) /\ g \in Alive(taken)
    BY <1>7, <1>12, <2>1, TakenOver
  <2>3. taken.node = full.node
    BY <1>7 DEF Agree, Worlds
  <2>4. taken.group[g].bottom = full.group[g].bottom
    BY <1>7, WorldFields DEF Agree, Worlds, GroupStates
  <2>. QED BY <2>2, <2>3, <2>4
<1>. HIDE DEF taken
<1>14. u.node = taken.node /\ u.group[g].bottom = taken.group[g].bottom
  <2>1. CASE up
    <3>1. SameMembers(taken, Shown(taken, g))
      BY <1>13, ShownIs
    <3>. QED BY <1>5, <2>1, <3>1 DEF SameMembers
  <2>2. CASE ~up
    BY <1>5, <2>2
  <2>. QED BY <2>1, <2>2
<1>15. u.group[g].bottom = r <=> q.place[p].bottom
  BY <1>1, <1>2, <1>3, <1>10, <1>13, <1>14
<1>. QED BY <1>2, <1>7, <1>9, <1>12, <1>13, <1>14, <1>15 DEF u

\* The group it was in is gone, but was a WGroupCW.
LEMMA ReturnsToNewGroup ==
    ASSUME AtRest(w), NEW r \in Regions, NEW p \in PHolders, NEW l,
           NEW x \in (Regions \ {r}) \cup {None}, w.node[r].mgr \in GroupsCW,
           NEW wasMapped \in BOOLEAN, Returning(l, r, p, x), w.node[r].mgr \notin Alive(l)
    PROVE  LET g == w.node[r].mgr
               back == At(l, p, r, wasMapped)
           IN /\ back # {}
              /\ \A u \in back :
                   /\ u.node[r] \in Nodes /\ u.node[r].above = None
                   /\ u.node[r].level = w.node[r].level
                   /\ u.node[r].mgr \in GroupsCW
                   /\ u.group[u.node[r].mgr].bottom = r <=> w.group[g].bottom = r
<1>. DEFINE g == w.node[r].mgr
            place == PlaceOf(w, r)
<1>1. Agree(w) /\ w \in Worlds /\ MembersAgree(w)
  BY DEF AtRest, Agree
<1>2. g \in Groups /\ g # None /\ w.group[g].win \in Windows
  <2>1. g \in Groups /\ g # None
    BY GroupsAssumption DEF Groups
  <2>. QED BY <1>1, <2>1, MemberIsOnList
<1>3. place.level = w.node[r].level /\ (place.bottom <=> w.group[g].bottom = r)
  BY DEF PlaceOf
<1>4. Agree(l) /\ l.ret[r] = None /\ Known(l, p, g, place)
  BY DEF Returning
<1>5. l.node[r].mgr = None /\ g \notin Alive(l)
  BY DEF Returning
<1>. HIDE DEF place
<1>6. InRing(l, p) # {} /\ l.place[p] = place
  BY <1>4, <1>5 DEF Known
<1>7. GroupOf(l, p) = None
  BY <1>4, <1>6, WhereIs
<1>8. At(l, p, r, wasMapped) = {Recreated(l, p, h, v, r, wasMapped, up) :
                               h \in GroupsCW \ Alive(l), v \in Windows, up \in BOOLEAN}
  BY <1>6, <1>7 DEF At
<1>9. At(l, p, r, wasMapped) # {}
  <2>1. PICK h \in GroupsCW \ Alive(l), v \in Windows, up \in BOOLEAN : h = g
    BY <1>2, <1>5
  <2>2. Recreated(l, p, h, v, r, wasMapped, up) \in At(l, p, r, wasMapped)
    BY <1>8
  <2>. QED BY <2>2
<1>10. ASSUME NEW u \in At(l, p, r, wasMapped)
       PROVE  /\ u.node[r] \in Nodes /\ u.node[r].above = None
              /\ u.node[r].level = w.node[r].level
              /\ u.node[r].mgr \in GroupsCW
              /\ u.group[u.node[r].mgr].bottom = r <=> w.group[g].bottom = r
  <2>1. PICK h \in GroupsCW \ Alive(l), v \in Windows, up \in BOOLEAN :
           u = Recreated(l, p, h, v, r, wasMapped, up)
    BY <1>8
  <2>2. h \in Groups \ Alive(l)
    BY DEF Groups
  <2>3. u.node[r] \in Nodes /\ u.node[r].mgr = h
    BY <1>4, <1>5, <1>6, <2>1, <2>2, RecreatedFor
  <2>4. u.node[r].above = None /\ u.node[r].level = l.place[p].level
    BY <1>4, <1>5, <1>6, <2>1, <2>2, RecreatedFor
  <2>5. u.group[h].bottom = r <=> l.place[p].bottom
    BY <1>4, <1>5, <1>6, <2>1, <2>2, RecreatedFor
  <2>. QED BY <1>3, <1>6, <2>3, <2>4, <2>5
<1>. QED BY <1>9, <1>10 DEF g

\* ReturnsAsLeft.
LEMMA ComesBackAtRest ==
    ASSUME AtRest(w), NEW r \in Regions, NEW p \in PHolders \ w.phs,
           w.node[r].mgr # None, w.ret[r] = None,
           NEW x \in (Regions \ {r}) \cup {None}
    PROVE  ComesBack(r, p, x)
<1>. DEFINE g == w.node[r].mgr
            out == Fullscreened(r, p)
            left == Settled(Disposed(Detached(out, x), DisposeRoot(out, x)))
            later == IF x = None \/ out.node[x].mgr = None THEN out ELSE left
            stays == g \in Alive(later)
            l == [later EXCEPT !.ret[r] = None]
            back == At([later EXCEPT !.ret[r] = None], p, r, FALSE)
<1>1. w.node[r].mgr \in Groups
  BY MemberIsOnList DEF AtRest, Agree
<1>2. Waiting(out, r, p, None)
  BY FullscreenedWaits
<1>. HIDE DEF out
<1>3. Waiting(later, r, p, x)
  <2>1. CASE x = None
    BY <1>2, <2>1
  <2>2. CASE x # None /\ out.node[x].mgr = None
    <3>1. None \notin Regions
      BY GroupsAssumption
    <3>2. \A y \in Regions \ {r, x} : y \in Regions \ {r, None}
      BY <3>1
    <3>. QED BY <1>2, <2>2, <3>2 DEF Waiting
  <2>3. CASE x # None /\ out.node[x].mgr # None
    <3>1. later = left /\ x \in Regions \ {r}
      BY <2>3
    <3>. HIDE DEF later
    <3>. QED BY <1>1, <1>2, <3>1, WaitsOn
  <2>. QED BY <2>1, <2>2, <2>3
<1>. HIDE DEF later
<1>4. PICK no \in BOOLEAN : no = FALSE
  OBVIOUS
<1>5. back = At(l, p, r, no)
  BY <1>4
<1>. HIDE DEF back
<1>9. Returning(l, r, p, x) /\ Alive(l) = Alive(later)
  BY <1>1, <1>3, WaitingTaken
<1>. HIDE DEF l
<1>10. w.node[r] \in Nodes
  BY WorldFields DEF AtRest, Agree
<1>6. CASE stays
  <2>1. /\ back # {}
        /\ \A u \in back :
             /\ u.node[r] \in Nodes /\ u.node[r].mgr = g
             /\ u.node[r].level = w.node[r].level
             /\ u.node[r].above = IF w.node[r].above # x THEN w.node[r].above
                                  ELSE None
             /\ u.group[g].bottom = r <=> w.group[g].bottom = r
    BY <1>3, <1>5, <1>6, <1>9, ReturnsToGroup
  <2>2. ASSUME NEW u \in back
        PROVE  /\ u.node[r] = [w.node[r] EXCEPT
                       !.mgr = IF stays THEN g ELSE u.node[r].mgr,
                       !.above = IF stays /\ @ # x THEN @ ELSE None]
               /\ u.node[r].mgr \in {g} \cup GroupsCW
               /\ u.group[u.node[r].mgr].bottom = r <=> w.group[g].bottom = r
    BY <1>6, <1>10, <2>1 DEF Nodes
  <2>. QED BY <2>1, <2>2 DEF ComesBack, out, later, back, l
<1>7. CASE ~stays /\ g \in GroupsCW
  <2>1. /\ back # {}
        /\ \A u \in back :
             /\ u.node[r] \in Nodes /\ u.node[r].above = None
             /\ u.node[r].level = w.node[r].level
             /\ u.node[r].mgr \in GroupsCW
             /\ u.group[u.node[r].mgr].bottom = r <=> w.group[g].bottom = r
    BY <1>3, <1>5, <1>7, <1>9, ReturnsToNewGroup
  <2>2. ASSUME NEW u \in back
        PROVE  /\ u.node[r] = [w.node[r] EXCEPT
                       !.mgr = IF stays THEN g ELSE u.node[r].mgr,
                       !.above = IF stays /\ @ # x THEN @ ELSE None]
               /\ u.node[r].mgr \in {g} \cup GroupsCW
               /\ u.group[u.node[r].mgr].bottom = r <=> w.group[g].bottom = r
    BY <1>7, <1>10, <2>1 DEF Nodes
  <2>. QED BY <2>1, <2>2 DEF ComesBack, out, later, back, l
<1>8. CASE ~stays /\ g \notin GroupsCW
  BY <1>8 DEF ComesBack, out, later
<1>. QED BY <1>6, <1>7, <1>8

\* A member that goes full screen returns to the place it left, whatever member
\* leaves in between and though the group goes with it (ReturnsAsLeft).
THEOREM GroupsReturn == Spec => []ReturnsAsLeft
<1>1. AtRest(w) => ReturnsAsLeft
  BY ComesBackAtRest DEF ReturnsAsLeft
<1>. QED BY <1>1, AlwaysAtRest, PTL
=============================================================================
