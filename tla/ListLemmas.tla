------------------------------ MODULE ListLemmas ------------------------------
(***************************************************************************)
(* What the operations of libtu/dlist.h, as Lists models them on           *)
(* sequences without repetition, do to the elements of a list; for what is *)
(* defined by recursion or as the least of something, that it exists; and  *)
(* what the operations of libtu/objlist.c, as ObjList models them, do to a *)
(* list with dead nodes.                                                   *)
(***************************************************************************)
EXTENDS Lists, ObjList, SequenceTheorems, FiniteSetTheorems, TLAPS

LEMMA AppendElements ==
    ASSUME NEW S, NEW s \in Seq(S), NEW c \in S
    PROVE  /\ Append(s, c) \in Seq(S)
           /\ ToSet(Append(s, c)) = ToSet(s) \cup {c}
           /\ IsInjective(s) /\ c \notin ToSet(s) => IsInjective(Append(s, c))
<1>1. Append(s, c) \in Seq(S) /\ Len(Append(s, c)) = Len(s) + 1
  OBVIOUS
<1>2. \A i \in 1 .. Len(s) : Append(s, c)[i] = s[i]
  OBVIOUS
<1>3. Append(s, c)[Len(s) + 1] = c
  OBVIOUS
<1>4. \A i \in 1 .. Len(s) + 1 : i \in 1 .. Len(s) \/ i = Len(s) + 1
  OBVIOUS
<1>5. ToSet(Append(s, c)) = ToSet(s) \cup {c}
  BY <1>1, <1>2, <1>3, <1>4 DEF ToSet
<1>6. IsInjective(s) /\ c \notin ToSet(s) => IsInjective(Append(s, c))
  BY <1>1, <1>2, <1>3, <1>4 DEF ToSet, IsInjective
<1>. QED BY <1>1, <1>5, <1>6

LEMMA PrependElements ==
    ASSUME NEW S, NEW s \in Seq(S), NEW c \in S
    PROVE  /\ <<c>> \o s \in Seq(S) /\ <<c>> \o s # <<>> /\ Head(<<c>> \o s) = c
           /\ Len(<<c>> \o s) = Len(s) + 1
           /\ \A i \in 1 .. Len(s) : (<<c>> \o s)[i + 1] = s[i]
           /\ ToSet(<<c>> \o s) = {c} \cup ToSet(s)
           /\ IsInjective(s) /\ c \notin ToSet(s) => IsInjective(<<c>> \o s)
<1>. DEFINE r == <<c>> \o s
<1>1. /\ r \in Seq(S) /\ r # <<>> /\ Head(r) = c /\ r[1] = c
      /\ Len(r) = Len(s) + 1 /\ Len(s) \in Nat
      /\ \A i \in 1 .. Len(s) : r[i + 1] = s[i]
  OBVIOUS
<1>. HIDE DEF r
<1>2. \A i \in 1 .. Len(r) : i = 1 \/ \E k \in 1 .. Len(s) : i = k + 1
  <2>. SUFFICES ASSUME NEW i \in 1 .. Len(r), i # 1
                PROVE  i - 1 \in 1 .. Len(s) /\ i = (i - 1) + 1
    OBVIOUS
  <2>. QED BY <1>1
<1>3. \A i \in 1 .. Len(s) : s[i] \in ToSet(s) /\ i + 1 \in 1 .. Len(r)
  BY <1>1 DEF ToSet
<1>4. ToSet(r) = {c} \cup ToSet(s)
  <2>1. \A i \in 1 .. Len(r) : r[i] \in {c} \cup ToSet(s)
    BY <1>1, <1>2, <1>3
  <2>2. c \in ToSet(r)
    <3>1. 1 \in 1 .. Len(r)
      BY <1>1
    <3>. QED BY <1>1, <3>1 DEF ToSet
  <2>3. \A i \in 1 .. Len(s) : s[i] \in ToSet(r)
    <3>1. DOMAIN r = 1 .. Len(r)
      BY <1>1
    <3>2. \A i \in 1 .. Len(s) : i + 1 \in DOMAIN r /\ r[i + 1] = s[i]
      BY <1>1, <1>3, <3>1
    <3>. QED BY <3>2 DEF ToSet
  <2>4. ToSet(s) \subseteq ToSet(r)
    BY <2>3 DEF ToSet
  <2>5. ToSet(r) \subseteq {c} \cup ToSet(s)
    BY <1>1, <2>1 DEF ToSet
  <2>. QED BY <2>2, <2>4, <2>5
<1>5. ASSUME IsInjective(s), c \notin ToSet(s) PROVE IsInjective(r)
  <2>. SUFFICES ASSUME NEW i \in 1 .. Len(r), NEW j \in 1 .. Len(r), r[i] = r[j]
                PROVE  i = j
    BY <1>1 DEF IsInjective
  <2>1. ASSUME i = 1, NEW k \in 1 .. Len(s), j = k + 1 PROVE FALSE
    BY <1>1, <1>3, <1>5, <2>1
  <2>2. ASSUME j = 1, NEW k \in 1 .. Len(s), i = k + 1 PROVE FALSE
    BY <1>1, <1>3, <1>5, <2>2
  <2>3. ASSUME NEW k \in 1 .. Len(s), i = k + 1, NEW l \in 1 .. Len(s), j = l + 1
        PROVE  i = j
    <3>1. s[k] = s[l]
      BY <1>1, <2>3
    <3>2. k = l
      BY <1>5, <3>1 DEF IsInjective
    <3>. QED BY <2>3, <3>2
  <2>. QED BY <1>2, <2>1, <2>2, <2>3
<1>. QED BY <1>1, <1>4, <1>5 DEF r

LEMMA TailElements ==
    ASSUME NEW S, NEW s \in Seq(S), s # <<>>, IsInjective(s)
    PROVE  /\ Head(s) \in S /\ Head(s) \in ToSet(s)
           /\ Tail(s) \in Seq(S)
           /\ ToSet(Tail(s)) = ToSet(s) \ {Head(s)}
           /\ IsInjective(Tail(s))
<1>1. Len(s) \in Nat \ {0} /\ Head(s) = s[1]
  OBVIOUS
<1>2. Tail(s) \in Seq(S) /\ Len(Tail(s)) = Len(s) - 1
  OBVIOUS
<1>3. \A i \in 1 .. Len(s) - 1 : Tail(s)[i] = s[i + 1] /\ i + 1 \in 1 .. Len(s)
  BY <1>1
<1>4. \A i \in 1 .. Len(s) : i = 1 \/ i - 1 \in 1 .. Len(s) - 1
  BY <1>1
<1>5. ToSet(Tail(s)) = ToSet(s) \ {Head(s)}
  <2>1. ToSet(Tail(s)) \subseteq ToSet(s) \ {Head(s)}
    BY <1>1, <1>2, <1>3 DEF ToSet, IsInjective
  <2>2. ASSUME NEW i \in 1 .. Len(s), s[i] # Head(s)
        PROVE  s[i] \in ToSet(Tail(s))
    <3>1. i # 1 /\ i - 1 \in 1 .. Len(s) - 1
      BY <1>1, <1>4, <2>2
    <3>2. Tail(s)[i - 1] = s[i]
      BY <1>1, <1>3, <3>1
    <3>3. i - 1 \in DOMAIN Tail(s)
      BY <1>2, <3>1
    <3>. QED BY <3>2, <3>3 DEF ToSet
  <2>. QED BY <2>1, <2>2 DEF ToSet
<1>6. IsInjective(Tail(s))
  BY <1>1, <1>2, <1>3 DEF IsInjective
<1>7. Head(s) \in S /\ Head(s) \in ToSet(s)
  BY <1>1 DEF ToSet
<1>. QED BY <1>2, <1>5, <1>6, <1>7

LEMMA RemoveAtElements ==
    ASSUME NEW S, NEW s \in Seq(S), NEW at \in 1 .. Len(s)
    PROVE  /\ RemoveAt(s, at) \in Seq(S)
           /\ Len(RemoveAt(s, at)) = Len(s) - 1
           /\ \A i \in 1 .. Len(s) - 1 :
                 RemoveAt(s, at)[i] = IF i < at THEN s[i] ELSE s[i + 1]
<1>. DEFINE w == RemoveAt(s, at)
            before == SubSeq(s, 1, at - 1)
            after == SubSeq(s, at + 1, Len(s))
<1>2. Len(s) \in Nat /\ Len(s) - 1 \in Nat
  OBVIOUS
<1>a. /\ before \in Seq(S) /\ Len(before) = at - 1
      /\ \A i \in 1 .. at - 1 : before[i] = s[i]
  BY <1>2
<1>b. /\ after \in Seq(S) /\ Len(after) = Len(s) - at
      /\ \A i \in 1 .. Len(s) - at : after[i] = s[i + at]
  BY <1>2
<1>c. w = before \o after
  BY DEF RemoveAt
<1>. HIDE DEF before, after
<1>e. /\ before \o after \in Seq(S)
      /\ Len(before \o after) = Len(before) + Len(after)
      /\ \A i \in 1 .. Len(before) + Len(after) :
            (before \o after)[i] = IF i <= Len(before) THEN before[i]
                                   ELSE after[i - Len(before)]
  BY <1>a, <1>b, ConcatProperties
<1>f. at \in Int /\ Len(s) \in Int
  BY <1>2
<1>4. w \in Seq(S) /\ Len(w) = Len(s) - 1
  BY <1>a, <1>b, <1>c, <1>e, <1>f
<1>5. \A i \in 1 .. Len(s) - 1 : w[i] = IF i < at THEN s[i] ELSE s[i + 1]
  <2>. SUFFICES ASSUME NEW i \in 1 .. Len(s) - 1
                PROVE  w[i] = IF i < at THEN s[i] ELSE s[i + 1]
    OBVIOUS
  <2>. HIDE DEF w
  <2>1. i \in 1 .. Len(before) + Len(after)
    BY <1>a, <1>b, <1>f
  <2>2. CASE i < at
    BY <1>a, <1>c, <1>e, <1>f, <2>1, <2>2
  <2>3. CASE ~(i < at)
    <3>1. w[i] = after[i - (at - 1)]
      BY <1>a, <1>c, <1>e, <1>f, <2>1, <2>3
    <3>2. i - (at - 1) \in 1 .. Len(s) - at /\ i - (at - 1) + at = i + 1
      BY <1>f, <2>3
    <3>. QED BY <1>b, <2>3, <3>1, <3>2
  <2>. QED BY <2>2, <2>3
<1>. QED BY <1>4, <1>5

LEMMA InsertAtElements ==
    ASSUME NEW S, NEW s \in Seq(S), NEW at \in 1 .. Len(s) + 1, NEW c \in S
    PROVE  /\ InsertAt(s, at, c) \in Seq(S)
           /\ Len(InsertAt(s, at, c)) = Len(s) + 1
           /\ \A i \in 1 .. Len(s) + 1 :
                 InsertAt(s, at, c)[i] = IF i < at THEN s[i]
                                         ELSE IF i = at THEN c ELSE s[i - 1]
<1>. DEFINE w == InsertAt(s, at, c)
            before == SubSeq(s, 1, at - 1)
            start == before \o <<c>>
            after == SubSeq(s, at, Len(s))
<1>1. Len(s) \in Nat /\ at \in Int
  OBVIOUS
<1>2. /\ before \in Seq(S) /\ Len(before) = at - 1
      /\ \A i \in 1 .. at - 1 : before[i] = s[i]
  BY <1>1
<1>3. /\ after \in Seq(S) /\ Len(after) = Len(s) - at + 1
      /\ \A i \in 1 .. Len(s) - at + 1 : after[i] = s[i + at - 1]
  BY <1>1
<1>4. w = start \o after
  BY DEF InsertAt
<1>. HIDE DEF before, after, w
<1>5. /\ start \in Seq(S) /\ Len(start) = at
      /\ \A i \in 1 .. at : start[i] = IF i < at THEN s[i] ELSE c
  <2>1. <<c>> \in Seq(S) /\ Len(<<c>>) = 1 /\ <<c>>[1] = c
    OBVIOUS
  <2>2. /\ start \in Seq(S) /\ Len(start) = Len(before) + Len(<<c>>)
        /\ \A i \in 1 .. Len(before) + Len(<<c>>) :
              start[i] = IF i <= Len(before) THEN before[i]
                         ELSE <<c>>[i - Len(before)]
    BY <1>2, <2>1, ConcatProperties
  <2>3. ASSUME NEW i \in 1 .. at
        PROVE  start[i] = IF i < at THEN s[i] ELSE c
    <3>1. CASE i < at
      BY <1>1, <1>2, <2>1, <2>2, <3>1
    <3>2. CASE i = at
      <4>1. start[i] = <<c>>[i - Len(before)] /\ i - Len(before) = 1
        BY <1>1, <1>2, <2>1, <2>2, <3>2
      <4>2. ~(i < at)
        BY <1>1, <3>2
      <4>. QED BY <2>1, <4>1, <4>2
    <3>3. i < at \/ i = at
      BY <1>1
    <3>. QED BY <3>1, <3>2, <3>3
  <2>. QED BY <1>1, <1>2, <2>1, <2>2, <2>3
<1>. HIDE DEF start
<1>6. /\ w \in Seq(S) /\ Len(w) = Len(start) + Len(after)
      /\ \A i \in 1 .. Len(start) + Len(after) :
            w[i] = IF i <= Len(start) THEN start[i]
                   ELSE after[i - Len(start)]
  BY <1>3, <1>4, <1>5, ConcatProperties
<1>7. w \in Seq(S) /\ Len(w) = Len(s) + 1
  BY <1>1, <1>3, <1>5, <1>6
<1>8. ASSUME NEW i \in 1 .. Len(s) + 1
      PROVE  w[i] = IF i < at THEN s[i] ELSE IF i = at THEN c ELSE s[i - 1]
  <2>1. CASE i <= at
    BY <1>1, <1>3, <1>5, <1>6, <2>1
  <2>2. CASE i > at
    <3>1. w[i] = after[i - at] /\ i - at \in 1 .. Len(s) - at + 1
      BY <1>1, <1>3, <1>5, <1>6, <2>2
    <3>2. after[i - at] = s[i - at + at - 1] /\ i - at + at - 1 = i - 1
      BY <1>1, <1>3, <3>1
    <3>. QED BY <1>1, <2>2, <3>1, <3>2
  <2>. QED BY <1>1, <2>1, <2>2
<1>. QED BY <1>7, <1>8 DEF w

LEMMA UnlinkElements ==
    ASSUME NEW S, NEW s \in Seq(S), IsInjective(s), NEW c \in ToSet(s)
    PROVE  /\ Unlink(s, c) \in Seq(S)
           /\ ToSet(Unlink(s, c)) = ToSet(s) \ {c}
           /\ IsInjective(Unlink(s, c))
<1>. DEFINE at == CHOOSE i \in DOMAIN s : s[i] = c
            w == RemoveAt(s, at)
<1>1. at \in 1 .. Len(s) /\ s[at] = c
  BY DEF ToSet
<1>2. Len(s) \in Nat /\ Len(s) - 1 \in Nat
  BY <1>1
<1>3. Unlink(s, c) = w
  BY DEF Unlink
<1>. HIDE DEF at
<1>4. w \in Seq(S) /\ Len(w) = Len(s) - 1
  BY <1>1, RemoveAtElements
<1>5. \A i \in 1 .. Len(s) - 1 : w[i] = IF i < at THEN s[i] ELSE s[i + 1]
  BY <1>1, RemoveAtElements
<1>. HIDE DEF w
<1>d. DOMAIN s = 1 .. Len(s)
  OBVIOUS
<1>6. \A i \in 1 .. Len(s) - 1 :
        \E k \in 1 .. Len(s) : /\ w[i] = s[k] /\ k # at
                               /\ k = (IF i < at THEN i ELSE i + 1)
  BY <1>1, <1>2, <1>5
<1>7. ASSUME NEW k \in 1 .. Len(s), k # at
      PROVE  \E i \in 1 .. Len(s) - 1 : w[i] = s[k]
  <2>1. CASE k < at
    BY <1>1, <1>2, <1>5, <2>1
  <2>2. CASE k > at
    <3>1. k - 1 \in 1 .. Len(s) - 1 /\ ~(k - 1 < at) /\ (k - 1) + 1 = k
      BY <1>1, <1>2, <2>2
    <3>. QED BY <1>5, <3>1
  <2>. QED BY <1>1, <1>2, <1>7, <2>1, <2>2
<1>8. ToSet(w) = ToSet(s) \ {c}
  <2>1. ASSUME NEW i \in 1 .. Len(w) PROVE w[i] \in ToSet(s) \ {c}
    <3>1. PICK k \in 1 .. Len(s) : w[i] = s[k] /\ k # at
      BY <1>4, <1>6
    <3>2. s[k] \in ToSet(s)
      BY <1>d DEF ToSet
    <3>3. s[k] # c
      BY <1>d, <1>1, <3>1 DEF IsInjective
    <3>. QED BY <3>1, <3>2, <3>3
  <2>2. ASSUME NEW k \in 1 .. Len(s), s[k] # c PROVE s[k] \in ToSet(w)
    <3>1. PICK i \in 1 .. Len(s) - 1 : w[i] = s[k]
      BY <1>1, <1>7, <2>2
    <3>2. i \in DOMAIN w
      BY <1>4
    <3>. QED BY <3>1, <3>2 DEF ToSet
  <2>3. ToSet(w) \subseteq ToSet(s) \ {c}
    BY <1>4, <2>1 DEF ToSet
  <2>4. ToSet(s) \ {c} \subseteq ToSet(w)
    BY <1>d, <2>2 DEF ToSet
  <2>. QED BY <2>3, <2>4
<1>9. IsInjective(w)
  <2>. SUFFICES ASSUME NEW i \in 1 .. Len(s) - 1, NEW j \in 1 .. Len(s) - 1,
                       w[i] = w[j]
                PROVE  i = j
    BY <1>4 DEF IsInjective
  <2>1. PICK k \in 1 .. Len(s) : w[i] = s[k] /\ k = (IF i < at THEN i ELSE i + 1)
    BY <1>6
  <2>2. PICK m \in 1 .. Len(s) : w[j] = s[m] /\ m = (IF j < at THEN j ELSE j + 1)
    BY <1>6
  <2>3. k = m
    BY <1>d, <2>1, <2>2 DEF IsInjective
  <2>. QED BY <1>1, <2>1, <2>2, <2>3
<1>. QED BY <1>3, <1>4, <1>8, <1>9
-----------------------------------------------------------------------------
(* The least and the greatest, induction and recursion.                    *)

LEMMA LeastInt ==
    ASSUME NEW S \in SUBSET Int, S # {}, IsFiniteSet(S)
    PROVE  \E x \in S : \A y \in S : x <= y
<1>. DEFINE T == {U \in FiniteSubsetsOf(S) :
                    U # {} /\ \A x \in U : \E y \in U : y < x}
<1>. SUFFICES ASSUME S \in T PROVE FALSE
  BY DEF FiniteSubsetsOf
<1>1. PICK U \in T : \A V \in T : <<V, U>> \notin StrictSubsetOrdering(S)
  <2>1. T \subseteq FiniteSubsetsOf(S) /\ T # {}
    OBVIOUS
  <2>. HIDE DEF T
  <2>. QED BY <2>1, FS_StrictSubsetOrderingWellFounded, WFMin
<1>2. U \subseteq Int /\ U \subseteq S /\ IsFiniteSet(U)
  BY DEF FiniteSubsetsOf
<1>3. PICK x \in U : TRUE
  OBVIOUS
<1>. DEFINE V == {y \in U : y < x}
<1>4. V \subseteq U /\ x \notin V /\ IsFiniteSet(V)
  BY <1>2, FS_Subset
<1>5. V \in FiniteSubsetsOf(S)
  BY <1>2, <1>4 DEF FiniteSubsetsOf
<1>6. V # {}
  OBVIOUS
<1>7. \A z \in V : \E y \in V : y < z
  BY <1>2
<1>8. V \in T
  BY <1>5, <1>6, <1>7
<1>9. <<V, U>> \in StrictSubsetOrdering(S)
  BY <1>2, <1>4 DEF StrictSubsetOrdering
<1>. QED BY <1>1, <1>8, <1>9

LEMMA GreatestInt ==
    ASSUME NEW S \in SUBSET Int, S # {}, IsFiniteSet(S)
    PROVE  \E x \in S : \A y \in S : y <= x
<1>. DEFINE N == {-x : x \in S}
<1>1. N \in SUBSET Int /\ N # {}
  OBVIOUS
<1>2. IsFiniteSet(N)
  <2>1. [x \in S |-> -x] \in Surjection(S, N)
    BY DEF Surjection
  <2>. QED BY <2>1, FS_Surjection
<1>3. PICK n \in N : \A y \in N : n <= y
  BY <1>1, <1>2, LeastInt
<1>4. PICK x \in S : n = -x
  OBVIOUS
<1>. QED BY <1>3, <1>4

\* Induction up to a number, over a set.
LEMMA Induction ==
    ASSUME NEW N \in Nat, NEW T, 0 \in T, \A n \in 1..N : n - 1 \in T => n \in T
    PROVE  \A n \in 0..N : n \in T
<1>. DEFINE B == {n \in 0..N : n \notin T}
<1>. SUFFICES ASSUME B # {} PROVE FALSE
  OBVIOUS
<1>1. IsFiniteSet(B) /\ B \in SUBSET Int
  <2>1. IsFiniteSet(0..N)
    BY FS_Interval
  <2>. QED BY <2>1, FS_Subset
<1>2. PICK n \in B : \A m \in B : n <= m
  BY <1>1, LeastInt
<1>3. n \in 1..N /\ n - 1 \in 0..N /\ n - 1 \notin B
  BY <1>2
<1>. QED BY <1>2, <1>3

\* f begins with base, and step goes from each of its values to the next.
Recurs(f, N, base, step) ==
    f[0] = base /\ \A n \in 1..N : f[n] = step[n][f[n - 1]]

\* A function that is defined by recursion on its numbers exists.
LEMMA RecursionExists ==
    ASSUME NEW N \in Nat, NEW S, NEW base \in S, NEW step \in [1..N -> [S -> S]]
    PROVE  \E f \in [0..N -> S] : Recurs(f, N, base, step)
<1>. DEFINE Upto(n, f) == /\ f \in [0..n -> S]
                          /\ f[0] = base
                          /\ \A k \in 1..n : f[k] = step[k][f[k - 1]]
            T == {n \in 0..N : \E f : Upto(n, f)}
<1>1. 0 \in T
  <2>1. Upto(0, [k \in 0..0 |-> base])
    OBVIOUS
  <2>. HIDE DEF Upto
  <2>. QED BY <2>1
<1>2. ASSUME NEW n \in 1..N, n - 1 \in T PROVE n \in T
  <2>1. PICK f : Upto(n - 1, f)
    <3>. HIDE DEF Upto
    <3>. QED BY <1>2
  <2>. DEFINE g == [k \in 0..n |-> IF k = n THEN step[n][f[n - 1]] ELSE f[k]]
  <2>2. f[n - 1] \in S /\ step[n] \in [S -> S]
    BY <2>1
  <2>3. step[n][f[n - 1]] \in S
    BY <2>2
  <2>4. g \in [0..n -> S] /\ g[0] = base
    BY <2>1, <2>3
  <2>5. ASSUME NEW k \in 1..n PROVE g[k] = step[k][g[k - 1]]
    <3>1. CASE k = n
      BY <3>1
    <3>2. CASE k # n
      BY <3>2, <2>1
    <3>. QED BY <3>1, <3>2
  <2>6. Upto(n, g)
    BY <2>4, <2>5
  <2>. HIDE DEF Upto, g
  <2>. QED BY <2>6
<1>3. N \in T
  <2>. HIDE DEF T
  <2>1. \A n \in 1..N : n - 1 \in T => n \in T
    BY <1>2
  <2>2. \A n \in 0..N : n \in T
    BY <1>1, <2>1, Induction
  <2>. QED BY <2>2
<1>4. PICK f : Upto(N, f)
  <2>. HIDE DEF Upto
  <2>. QED BY <1>3
<1>. QED BY <1>4 DEF Recurs

\* How Only goes through a list.
LEMMA OnlyRecurs ==
    ASSUME NEW T, NEW s \in Seq(T), NEW S
    PROVE  \E kept :
              /\ kept[0] = <<>> /\ kept[Len(s)] = Only(s, S)
              /\ \A n \in 1..Len(s) :
                    kept[n] = IF s[n] \in S THEN Append(kept[n - 1], s[n])
                              ELSE kept[n - 1]
<1>. DEFINE N == Len(s)
            next(n, l) == IF s[n] \in S THEN Append(l, s[n]) ELSE l
            step == [n \in 1..N |-> [l \in Seq(T) |-> next(n, l)]]
            Body(f) == [n \in 0..N |-> IF n = 0 THEN <<>> ELSE next(n, f[n - 1])]
            kept == CHOOSE f : f = Body(f)
<1>1. N \in Nat /\ DOMAIN s = 1..N /\ \A n \in 1..N : s[n] \in T
  OBVIOUS
<1>2. Only(s, S) = kept[N]
  BY DEF Only
<1>3. step \in [1..N -> [Seq(T) -> Seq(T)]]
  BY <1>1
<1>4. PICK f \in [0..N -> Seq(T)] : Recurs(f, N, <<>>, step)
  <2>1. <<>> \in Seq(T)
    OBVIOUS
  <2>. HIDE DEF step
  <2>. QED BY <1>1, <1>3, <2>1, RecursionExists
<1>5. f = Body(f)
  <2>1. ASSUME NEW n \in 1..N PROVE f[n] = next(n, f[n - 1])
    <3>1. f[n - 1] \in Seq(T) /\ f[n] = step[n][f[n - 1]]
      <4>. HIDE DEF step
      <4>. QED BY <1>1, <1>4 DEF Recurs
    <3>. QED BY <3>1
  <2>2. f[0] = <<>>
    BY <1>4 DEF Recurs
  <2>. HIDE DEF next
  <2>3. \A n \in 0..N : f[n] = Body(f)[n]
    BY <1>1, <2>1, <2>2
  <2>. QED BY <2>3
<1>6. kept = Body(kept)
  <2>. HIDE DEF Body
  <2>. QED BY <1>5
<1>7. kept[0] = <<>> /\ \A n \in 1..N : kept[n] = next(n, kept[n - 1])
  <2>. HIDE DEF kept, next
  <2>. QED BY <1>1, <1>6
<1>. QED BY <1>2, <1>7

\* What Only leaves of a list.
LEMMA OnlyElements ==
    ASSUME NEW T, NEW s \in Seq(T), NEW S
    PROVE  /\ Only(s, S) \in Seq(T)
           /\ ToSet(Only(s, S)) = ToSet(s) \cap S
           /\ IsInjective(s) => IsInjective(Only(s, S))
<1>. DEFINE N == Len(s)
            next(n, l) == IF s[n] \in S THEN Append(l, s[n]) ELSE l
<1>1. N \in Nat /\ DOMAIN s = 1..N /\ \A n \in 1..N : s[n] \in T
  OBVIOUS
<1>2. PICK kept : /\ kept[0] = <<>> /\ kept[N] = Only(s, S)
                  /\ \A n \in 1..N : kept[n] = next(n, kept[n - 1])
  BY OnlyRecurs
<1>. DEFINE Good(n, l) == /\ l \in Seq(T)
                          /\ ToSet(l) = {s[i] : i \in 1..n} \cap S
                          /\ IsInjective(s) => IsInjective(l)
            G == {n \in 0..N : Good(n, kept[n])}
<1>8. 0 \in G
  <2>1. <<>> \in Seq(T) /\ DOMAIN <<>> = {} /\ {s[i] : i \in 1..0} = {}
    OBVIOUS
  <2>2. Good(0, <<>>)
    BY <2>1 DEF ToSet, IsInjective
  <2>. HIDE DEF Good
  <2>. QED BY <1>1, <1>2, <2>2
<1>9. ASSUME NEW n \in 1..N, n - 1 \in G PROVE n \in G
  <2>. DEFINE l == kept[n - 1]
  <2>1. kept[n] = next(n, l)
    <3>. HIDE DEF next
    <3>. QED BY <1>2, <1>9
  <2>2. Good(n - 1, l)
    BY <1>9
  <2>. HIDE DEF l
  <2>3. {s[i] : i \in 1..n} = {s[i] : i \in 1..(n - 1)} \cup {s[n]}
    BY <1>1
  <2>4. Good(n, next(n, l))
    <3>1. CASE s[n] \notin S
      BY <2>2, <2>3, <3>1
    <3>2. CASE s[n] \in S
      <4>1. next(n, l) = Append(l, s[n]) /\ s[n] \in T
        BY <1>1, <3>2
      <4>2. /\ Append(l, s[n]) \in Seq(T)
            /\ ToSet(Append(l, s[n])) = ToSet(l) \cup {s[n]}
            /\ IsInjective(l) /\ s[n] \notin ToSet(l) => IsInjective(Append(l, s[n]))
        BY <2>2, <4>1, AppendElements
      <4>3. IsInjective(s) => s[n] \notin ToSet(l)
        BY <1>1, <2>2 DEF IsInjective
      <4>. HIDE DEF next
      <4>. QED BY <2>2, <2>3, <3>2, <4>1, <4>2, <4>3
    <3>. QED BY <3>1, <3>2
  <2>. HIDE DEF Good, next
  <2>. QED BY <2>1, <2>4
<1>10. N \in G
  <2>. HIDE DEF G
  <2>1. \A n \in 1..N : n - 1 \in G => n \in G
    BY <1>9
  <2>2. \A n \in 0..N : n \in G
    BY <1>1, <1>8, <2>1, Induction
  <2>. QED BY <1>1, <2>2
<1>11. ToSet(s) = {s[i] : i \in 1..N}
  BY <1>1 DEF ToSet
<1>. QED BY <1>2, <1>10, <1>11

LEMMA DroppingElements ==
    ASSUME NEW T, NEW s \in Seq(T), NEW S
    PROVE  /\ Dropping(s, S) \in Seq(T)
           /\ ToSet(Dropping(s, S)) = ToSet(s) \ S
           /\ IsInjective(s) => IsInjective(Dropping(s, S))
BY OnlyElements DEF Dropping

-----------------------------------------------------------------------------
(* The order of lists, and of what is made of them.                        *)

\* The order of a list: <<x, y>> if y is x or comes after it.
Order(s) ==
    {p \in ToSet(s) \X ToSet(s) :
        \E i, j \in DOMAIN s : i <= j /\ s[i] = p[1] /\ s[j] = p[2]}

LEMMA OrderOf ==
    ASSUME NEW T, NEW s \in Seq(T), NEW x, NEW y
    PROVE  <<x, y>> \in Order(s) <=>
             \E i, j \in 1 .. Len(s) : i <= j /\ s[i] = x /\ s[j] = y
BY DEF Order, ToSet

\* A list without repetition is ordered totally.
LEMMA OrderIsTotal ==
    ASSUME NEW T, NEW s \in Seq(T), IsInjective(s)
    PROVE  /\ \A x \in ToSet(s) : <<x, x>> \in Order(s)
           /\ \A x, y : <<x, y>> \in Order(s) => x \in ToSet(s) /\ y \in ToSet(s)
           /\ \A x, y \in ToSet(s) : <<x, y>> \in Order(s) \/ <<y, x>> \in Order(s)
           /\ \A x, y : <<x, y>> \in Order(s) /\ <<y, x>> \in Order(s) => x = y
           /\ \A x, y, z : <<x, y>> \in Order(s) /\ <<y, z>> \in Order(s)
                             => <<x, z>> \in Order(s)
<1>1. Len(s) \in Nat /\ DOMAIN s = 1 .. Len(s)
  OBVIOUS
<1>2. \A i, j \in 1 .. Len(s) : s[i] = s[j] => i = j
  BY DEF IsInjective
<1>3. \A x : x \in ToSet(s) <=> \E i \in 1 .. Len(s) : s[i] = x
  BY DEF ToSet
<1>4. \A x, y : <<x, y>> \in Order(s) <=>
                \E i, j \in 1 .. Len(s) : i <= j /\ s[i] = x /\ s[j] = y
  BY OrderOf
<1>5. \A x \in ToSet(s) : <<x, x>> \in Order(s)
  BY <1>1, <1>3, <1>4
<1>6. \A x, y : <<x, y>> \in Order(s) => x \in ToSet(s) /\ y \in ToSet(s)
  BY <1>3, <1>4
<1>7. \A x, y \in ToSet(s) : <<x, y>> \in Order(s) \/ <<y, x>> \in Order(s)
  <2>. SUFFICES ASSUME NEW x \in ToSet(s), NEW y \in ToSet(s)
                PROVE  <<x, y>> \in Order(s) \/ <<y, x>> \in Order(s)
    OBVIOUS
  <2>1. PICK i \in 1 .. Len(s) : s[i] = x
    BY <1>3
  <2>2. PICK j \in 1 .. Len(s) : s[j] = y
    BY <1>3
  <2>3. i <= j \/ j <= i
    OBVIOUS
  <2>. QED BY <1>4, <2>1, <2>2, <2>3
<1>8. \A x, y : <<x, y>> \in Order(s) /\ <<y, x>> \in Order(s) => x = y
  <2>. SUFFICES ASSUME NEW x, NEW y, <<x, y>> \in Order(s), <<y, x>> \in Order(s)
                PROVE  x = y
    OBVIOUS
  <2>1. PICK i, j \in 1 .. Len(s) : i <= j /\ s[i] = x /\ s[j] = y
    BY <1>4
  <2>2. PICK k, l \in 1 .. Len(s) : k <= l /\ s[k] = y /\ s[l] = x
    BY <1>4
  <2>3. i = l /\ j = k
    BY <1>2, <2>1, <2>2
  <2>4. i = j
    BY <2>1, <2>2, <2>3
  <2>. QED BY <2>1, <2>4
<1>9. \A x, y, z : <<x, y>> \in Order(s) /\ <<y, z>> \in Order(s)
                     => <<x, z>> \in Order(s)
  <2>. SUFFICES ASSUME NEW x, NEW y, NEW z,
                       <<x, y>> \in Order(s), <<y, z>> \in Order(s)
                PROVE  <<x, z>> \in Order(s)
    OBVIOUS
  <2>1. PICK i, j \in 1 .. Len(s) : i <= j /\ s[i] = x /\ s[j] = y
    BY <1>4
  <2>2. PICK k, l \in 1 .. Len(s) : k <= l /\ s[k] = y /\ s[l] = z
    BY <1>4
  <2>3. j = k
    BY <1>2, <2>1, <2>2
  <2>4. i <= l
    BY <2>1, <2>2, <2>3
  <2>. QED BY <1>4, <2>1, <2>2, <2>4
<1>. QED BY <1>5, <1>6, <1>7, <1>8, <1>9

\* It is known by its order.
LEMMA OrderDetermines ==
    ASSUME NEW T, NEW s \in Seq(T), NEW t \in Seq(T), IsInjective(s),
           IsInjective(t), \A x, y : <<x, y>> \in Order(s) <=> <<x, y>> \in Order(t)
    PROVE  s = t
<1>1. /\ Len(s) \in Nat /\ DOMAIN s = 1 .. Len(s)
      /\ Len(t) \in Nat /\ DOMAIN t = 1 .. Len(t)
  OBVIOUS
<1>2. /\ \A i, j \in 1 .. Len(s) : s[i] = s[j] => i = j
      /\ \A i, j \in 1 .. Len(t) : t[i] = t[j] => i = j
  BY DEF IsInjective
<1>3. ToSet(s) = ToSet(t)
  <2>1. \A x : x \in ToSet(s) <=> <<x, x>> \in Order(s)
    BY OrderIsTotal
  <2>2. \A x : x \in ToSet(t) <=> <<x, x>> \in Order(t)
    BY OrderIsTotal
  <2>. QED BY <2>1, <2>2
<1>4. /\ \A x : x \in ToSet(s) <=> \E i \in 1 .. Len(s) : s[i] = x
      /\ \A x : x \in ToSet(t) <=> \E i \in 1 .. Len(t) : t[i] = x
  BY DEF ToSet
<1>5. \A i, j \in 1 .. Len(s) : i <= j <=> <<s[i], s[j]>> \in Order(s)
  <2>. SUFFICES ASSUME NEW i \in 1 .. Len(s), NEW j \in 1 .. Len(s),
                       <<s[i], s[j]>> \in Order(s)
                PROVE  i <= j
    BY OrderOf
  <2>. QED BY <1>2, OrderOf
<1>6. \A i, j \in 1 .. Len(t) : i <= j <=> <<t[i], t[j]>> \in Order(t)
  <2>. SUFFICES ASSUME NEW i \in 1 .. Len(t), NEW j \in 1 .. Len(t),
                       <<t[i], t[j]>> \in Order(t)
                PROVE  i <= j
    BY OrderOf
  <2>. QED BY <1>2, OrderOf
<1>. DEFINE G == {n \in 0 .. Len(s) : \A k \in 1 .. n : k \in 1 .. Len(t) /\ s[k] = t[k]}
<1>7. 0 \in G
  BY <1>1
<1>8. ASSUME NEW n \in 1 .. Len(s), n - 1 \in G PROVE n \in G
  <2>1. \A k \in 1 .. n - 1 : k \in 1 .. Len(t) /\ s[k] = t[k]
    BY <1>8
  <2>2. PICK j \in 1 .. Len(t) : t[j] = s[n]
    BY <1>3, <1>4
  <2>3. j >= n
    <3>. SUFFICES ASSUME j < n PROVE FALSE
      OBVIOUS
    <3>1. j \in 1 .. n - 1 /\ j \in 1 .. Len(s) /\ j # n
      OBVIOUS
    <3>2. s[j] = s[n]
      BY <2>1, <2>2, <3>1
    <3>. QED BY <1>2, <3>1, <3>2
  <2>4. n \in 1 .. Len(t)
    BY <1>1, <2>3
  <2>5. PICK k \in 1 .. Len(s) : s[k] = t[n]
    BY <1>3, <1>4, <2>4
  <2>6. k >= n
    <3>. SUFFICES ASSUME k < n PROVE FALSE
      OBVIOUS
    <3>1. k \in 1 .. n - 1 /\ k # n
      OBVIOUS
    <3>2. k \in 1 .. Len(t) /\ t[k] = t[n]
      BY <2>1, <2>5, <3>1
    <3>. QED BY <1>2, <2>4, <3>1, <3>2
  <2>7. <<t[n], t[j]>> \in Order(t)
    BY <1>6, <2>3, <2>4
  <2>8. <<s[k], s[n]>> \in Order(s)
    BY <2>2, <2>5, <2>7
  <2>9. k = n
    BY <1>5, <2>6, <2>8
  <2>10. s[n] = t[n]
    BY <2>5, <2>9
  <2>11. \A i \in 1 .. n : i \in 1 .. n - 1 \/ i = n
    OBVIOUS
  <2>. QED BY <2>1, <2>4, <2>10, <2>11
<1>9. Len(s) \in G
  <2>. HIDE DEF G
  <2>1. \A n \in 1 .. Len(s) : n - 1 \in G => n \in G
    BY <1>8
  <2>2. \A n \in 0 .. Len(s) : n \in G
    BY <1>1, <1>7, <2>1, Induction
  <2>. QED BY <1>1, <2>2
<1>10. \A k \in 1 .. Len(s) : k \in 1 .. Len(t) /\ s[k] = t[k]
  BY <1>9
<1>11. Len(t) <= Len(s)
  <2>. SUFFICES ASSUME Len(s) < Len(t) PROVE FALSE
    BY <1>1
  <2>1. Len(s) + 1 \in 1 .. Len(t)
    BY <1>1
  <2>2. PICK k \in 1 .. Len(s) : s[k] = t[Len(s) + 1]
    BY <1>3, <1>4, <2>1
  <2>3. k \in 1 .. Len(t) /\ t[k] = t[Len(s) + 1] /\ k # Len(s) + 1
    BY <1>1, <1>10, <2>2
  <2>. QED BY <1>2, <2>1, <2>3
<1>12. Len(s) <= Len(t)
  <2>. SUFFICES ASSUME Len(s) > 0 PROVE Len(s) <= Len(t)
    BY <1>1
  <2>. QED BY <1>1, <1>10
<1>13. Len(s) = Len(t)
  <2>1. \A a, b \in Nat : a <= b /\ b <= a => a = b
    OBVIOUS
  <2>. QED BY <1>1, <1>11, <1>12, <2>1
<1>. QED BY <1>1, <1>10, <1>13

LEMMA ConcatElements ==
    ASSUME NEW T, NEW s \in Seq(T), NEW t \in Seq(T)
    PROVE  /\ s \o t \in Seq(T) /\ Len(s \o t) = Len(s) + Len(t)
           /\ ToSet(s \o t) = ToSet(s) \cup ToSet(t)
           /\ IsInjective(s \o t) <=>
                IsInjective(s) /\ IsInjective(t) /\ ToSet(s) \cap ToSet(t) = {}
           /\ \A x, y : <<x, y>> \in Order(s \o t) <=>
                \/ <<x, y>> \in Order(s) \/ <<x, y>> \in Order(t)
                \/ x \in ToSet(s) /\ y \in ToSet(t)
<1>. DEFINE r == s \o t
            M == Len(s)
            N == Len(t)
<1>1. /\ M \in Nat /\ N \in Nat /\ r \in Seq(T) /\ Len(r) = M + N
      /\ DOMAIN s = 1 .. M /\ DOMAIN t = 1 .. N /\ DOMAIN r = 1 .. M + N
  OBVIOUS
<1>2. /\ \A i \in 1 .. M : r[i] = s[i]
      /\ \A i \in 1 .. N : r[M + i] = t[i]
  OBVIOUS
<1>. HIDE DEF r
<1>3. /\ \A i \in 1 .. M : i \in 1 .. M + N
      /\ \A i \in 1 .. N : M + i \in 1 .. M + N
      /\ \A i \in 1 .. M + N : i \in 1 .. M \/ \E j \in 1 .. N : i = M + j
  <2>1. ASSUME NEW i \in 1 .. M + N, i \notin 1 .. M
        PROVE  \E j \in 1 .. N : i = M + j
    <3>1. i - M \in 1 .. N /\ i = M + (i - M)
      BY <1>1, <2>1
    <3>. QED BY <3>1
  <2>2. /\ \A i \in 1 .. M : i \in 1 .. M + N
        /\ \A i \in 1 .. N : M + i \in 1 .. M + N
    BY <1>1
  <2>. QED BY <2>1, <2>2
<1>. HIDE DEF M, N
<1>4. /\ \A x : x \in ToSet(s) <=> \E i \in 1 .. M : s[i] = x
      /\ \A x : x \in ToSet(t) <=> \E i \in 1 .. N : t[i] = x
      /\ \A x : x \in ToSet(r) <=> \E i \in 1 .. M + N : r[i] = x
  BY <1>1 DEF ToSet
<1>5. ToSet(r) = ToSet(s) \cup ToSet(t)
  BY <1>2, <1>3, <1>4
<1>6. ASSUME IsInjective(r)
      PROVE  IsInjective(s) /\ IsInjective(t) /\ ToSet(s) \cap ToSet(t) = {}
  <2>1. \A i, j \in 1 .. M + N : r[i] = r[j] => i = j
    BY <1>1, <1>6 DEF IsInjective
  <2>2. \A i, j \in 1 .. M : s[i] = s[j] => i = j
    BY <1>2, <1>3, <2>1
  <2>3. ASSUME NEW i \in 1 .. N, NEW j \in 1 .. N, t[i] = t[j] PROVE i = j
    <3>1. M + i = M + j
      BY <1>2, <1>3, <2>1, <2>3
    <3>. QED BY <1>1, <3>1
  <2>4. ASSUME NEW i \in 1 .. M, NEW j \in 1 .. N, s[i] = t[j] PROVE FALSE
    <3>1. i = M + j
      BY <1>2, <1>3, <2>1, <2>4
    <3>. QED BY <1>1, <3>1
  <2>5. IsInjective(s) /\ IsInjective(t)
    BY <1>1, <2>2, <2>3 DEF IsInjective
  <2>. QED BY <1>4, <2>4, <2>5
<1>7. ASSUME IsInjective(s), IsInjective(t), ToSet(s) \cap ToSet(t) = {}
      PROVE  IsInjective(r)
  <2>1. /\ \A i, j \in 1 .. M : s[i] = s[j] => i = j
        /\ \A i, j \in 1 .. N : t[i] = t[j] => i = j
    BY <1>1, <1>7 DEF IsInjective
  <2>2. \A i \in 1 .. M, j \in 1 .. N : s[i] # t[j]
    BY <1>4, <1>7
  <2>3. ASSUME NEW i \in 1 .. M + N, NEW j \in 1 .. M + N, r[i] = r[j]
        PROVE  i = j
    <3>1. CASE i \in 1 .. M /\ j \in 1 .. M
      BY <1>2, <2>1, <2>3, <3>1
    <3>2. CASE i \in 1 .. M /\ \E l \in 1 .. N : j = M + l
      BY <1>2, <2>2, <2>3, <3>2
    <3>3. CASE j \in 1 .. M /\ \E l \in 1 .. N : i = M + l
      BY <1>2, <2>2, <2>3, <3>3
    <3>4. CASE (\E l \in 1 .. N : i = M + l) /\ (\E l \in 1 .. N : j = M + l)
      BY <1>2, <2>1, <2>3, <3>4
    <3>. QED BY <1>3, <3>1, <3>2, <3>3, <3>4
  <2>. QED BY <1>1, <2>3 DEF IsInjective
<1>8. ASSUME NEW x, NEW y
      PROVE  <<x, y>> \in Order(r) <=>
                \/ <<x, y>> \in Order(s) \/ <<x, y>> \in Order(t)
                \/ x \in ToSet(s) /\ y \in ToSet(t)
  <2>1. /\ <<x, y>> \in Order(s) <=>
             \E i, j \in 1 .. M : i <= j /\ s[i] = x /\ s[j] = y
        /\ <<x, y>> \in Order(t) <=>
             \E i, j \in 1 .. N : i <= j /\ t[i] = x /\ t[j] = y
        /\ <<x, y>> \in Order(r) <=>
             \E i, j \in 1 .. M + N : i <= j /\ r[i] = x /\ r[j] = y
    <3>1. <<x, y>> \in Order(s) <=>
             \E i, j \in 1 .. M : i <= j /\ s[i] = x /\ s[j] = y
      BY OrderOf DEF M
    <3>2. <<x, y>> \in Order(t) <=>
             \E i, j \in 1 .. N : i <= j /\ t[i] = x /\ t[j] = y
      BY OrderOf DEF N
    <3>3. <<x, y>> \in Order(r) <=>
             \E i, j \in 1 .. Len(r) : i <= j /\ r[i] = x /\ r[j] = y
      <4>1. r \in Seq(T)
        BY <1>1
      <4>. QED BY <4>1, OrderOf
    <3>. QED BY <1>1, <3>1, <3>2, <3>3
  <2>2. <<x, y>> \in Order(s) => <<x, y>> \in Order(r)
    BY <1>2, <1>3, <2>1
  <2>3. ASSUME <<x, y>> \in Order(t) PROVE <<x, y>> \in Order(r)
    <3>1. PICK i, j \in 1 .. N : i <= j /\ t[i] = x /\ t[j] = y
      BY <2>1, <2>3
    <3>2. M + i <= M + j /\ r[M + i] = x /\ r[M + j] = y
      BY <1>1, <1>2, <3>1
    <3>3. M + i \in 1 .. M + N /\ M + j \in 1 .. M + N
      BY <1>3
    <3>. QED BY <2>1, <3>2, <3>3
  <2>4. ASSUME x \in ToSet(s), y \in ToSet(t) PROVE <<x, y>> \in Order(r)
    <3>1. PICK i \in 1 .. M : s[i] = x
      BY <1>4, <2>4
    <3>2. PICK j \in 1 .. N : t[j] = y
      BY <1>4, <2>4
    <3>3. i <= M + j /\ r[i] = x /\ r[M + j] = y
      BY <1>1, <1>2, <3>1, <3>2
    <3>4. i \in 1 .. M + N /\ M + j \in 1 .. M + N
      BY <1>3
    <3>. QED BY <2>1, <3>3, <3>4
  <2>5. ASSUME <<x, y>> \in Order(r)
        PROVE  \/ <<x, y>> \in Order(s) \/ <<x, y>> \in Order(t)
               \/ x \in ToSet(s) /\ y \in ToSet(t)
    <3>1. PICK i, j \in 1 .. M + N : i <= j /\ r[i] = x /\ r[j] = y
      BY <2>1, <2>5
    <3>2. CASE i \in 1 .. M /\ j \in 1 .. M
      BY <1>2, <2>1, <3>1, <3>2
    <3>3. CASE i \in 1 .. M /\ \E l \in 1 .. N : j = M + l
      BY <1>2, <1>4, <3>1, <3>3
    <3>4. CASE j \in 1 .. M /\ \E l \in 1 .. N : i = M + l
      BY <1>1, <3>1, <3>4
    <3>5. CASE (\E l \in 1 .. N : i = M + l) /\ (\E l \in 1 .. N : j = M + l)
      <4>1. PICK k, l \in 1 .. N : i = M + k /\ j = M + l
        BY <3>5
      <4>2. k <= l /\ t[k] = x /\ t[l] = y
        BY <1>1, <1>2, <3>1, <4>1
      <4>. QED BY <2>1, <4>2
    <3>. QED BY <1>3, <3>2, <3>3, <3>4, <3>5
  <2>. QED BY <2>2, <2>3, <2>4, <2>5
<1>. QED BY <1>1, <1>5, <1>6, <1>7, <1>8 DEF r, M, N

LEMMA AppendOrder ==
    ASSUME NEW T, NEW s \in Seq(T), NEW c \in T, NEW x, NEW y
    PROVE  <<x, y>> \in Order(Append(s, c)) <=>
              \/ <<x, y>> \in Order(s)
              \/ x \in ToSet(s) \cup {c} /\ y = c
<1>1. Append(s, c) = s \o <<c>> /\ <<c>> \in Seq(T)
  OBVIOUS
<1>2. ToSet(<<c>>) = {c} /\ (<<x, y>> \in Order(<<c>>) <=> x = c /\ y = c)
  BY DEF Order, ToSet
<1>. QED BY <1>1, <1>2, ConcatElements

\* Only and Dropping keep the order.
LEMMA OnlyOrder ==
    ASSUME NEW T, NEW s \in Seq(T), NEW S, NEW x, NEW y
    PROVE  <<x, y>> \in Order(Only(s, S)) <=>
              <<x, y>> \in Order(s) /\ x \in S /\ y \in S
<1>. DEFINE N == Len(s)
            next(n, l) == IF s[n] \in S THEN Append(l, s[n]) ELSE l
            Good(n, l) == /\ l \in Seq(T)
                          /\ ToSet(l) = {s[i] : i \in 1..n} \cap S
                          /\ <<x, y>> \in Order(l) <=>
                               /\ x \in S /\ y \in S
                               /\ \E i, j \in 1..n : i <= j /\ s[i] = x /\ s[j] = y
<1>1. N \in Nat /\ \A n \in 1..N : s[n] \in T
  OBVIOUS
<1>2. PICK kept : /\ kept[0] = <<>> /\ kept[N] = Only(s, S)
                  /\ \A n \in 1..N : kept[n] = next(n, kept[n - 1])
  BY OnlyRecurs
<1>. DEFINE G == {n \in 0..N : Good(n, kept[n])}
<1>3. 0 \in G
  <2>1. <<>> \in Seq(T) /\ ToSet(<<>>) = {} /\ 1..0 = {}
    BY DEF ToSet
  <2>2. <<x, y>> \notin Order(<<>>)
    BY <2>1 DEF Order
  <2>3. Good(0, <<>>)
    BY <2>1, <2>2
  <2>. HIDE DEF Good
  <2>. QED BY <1>1, <1>2, <2>3
<1>4. ASSUME NEW n \in 1..N, n - 1 \in G PROVE n \in G
  <2>. DEFINE l == kept[n - 1]
  <2>1. kept[n] = next(n, l)
    <3>. HIDE DEF next
    <3>. QED BY <1>2
  <2>2. Good(n - 1, l)
    BY <1>4
  <2>. HIDE DEF l
  <2>3. \A i : i \in 1..n <=> i \in 1..(n - 1) \/ i = n
    BY <1>1
  <2>4. {s[i] : i \in 1..n} = {s[i] : i \in 1..(n - 1)} \cup {s[n]}
    BY <2>3
  <2>5. (\E i, j \in 1..n : i <= j /\ s[i] = x /\ s[j] = y) <=>
          \/ \E i, j \in 1..(n - 1) : i <= j /\ s[i] = x /\ s[j] = y
          \/ x \in {s[i] : i \in 1..n} /\ y = s[n]
    <3>1. \A i \in 1..(n - 1) : i <= n /\ ~(n <= i)
      BY <1>1
    <3>. QED BY <1>1, <2>3, <3>1
  <2>6. Good(n, next(n, l))
    <3>1. CASE s[n] \notin S
      BY <2>2, <2>4, <2>5, <3>1
    <3>2. CASE s[n] \in S
      <4>1. next(n, l) = Append(l, s[n]) /\ s[n] \in T
        BY <1>1, <3>2
      <4>2. /\ Append(l, s[n]) \in Seq(T)
            /\ ToSet(Append(l, s[n])) = ToSet(l) \cup {s[n]}
            /\ <<x, y>> \in Order(Append(l, s[n])) <=>
                  \/ <<x, y>> \in Order(l)
                  \/ x \in ToSet(l) \cup {s[n]} /\ y = s[n]
        BY <2>2, <4>1, AppendElements, AppendOrder
      <4>. HIDE DEF next
      <4>. QED BY <2>2, <2>4, <2>5, <3>2, <4>1, <4>2
    <3>. QED BY <3>1, <3>2
  <2>. HIDE DEF Good, next
  <2>. QED BY <2>1, <2>6
<1>5. N \in G
  <2>. HIDE DEF G
  <2>1. \A n \in 1..N : n - 1 \in G => n \in G
    BY <1>4
  <2>2. \A n \in 0..N : n \in G
    BY <1>1, <1>3, <2>1, Induction
  <2>. QED BY <1>1, <2>2
<1>. QED BY <1>2, <1>5, OrderOf

LEMMA DroppingOrder ==
    ASSUME NEW T, NEW s \in Seq(T), NEW S, NEW x, NEW y
    PROVE  <<x, y>> \in Order(Dropping(s, S)) <=>
              <<x, y>> \in Order(s) /\ x \notin S /\ y \notin S
<1>1. <<x, y>> \in Order(s) => x \in ToSet(s) /\ y \in ToSet(s)
  BY DEF Order
<1>. QED BY <1>1, OnlyOrder DEF Dropping

-----------------------------------------------------------------------------
(* The operations of libtu/objlist.c add no other object than the one      *)
(* inserted and list nothing twice.                                        *)

LEMMA DropDeadHeadElements ==
    ASSUME NEW S, NEW l \in Seq(S \cup {Dead})
    PROVE  /\ DropDeadHead(l) \in Seq(S \cup {Dead})
           /\ Listed(DropDeadHead(l)) \subseteq Listed(l)
           /\ ListedOnce(l) => ListedOnce(DropDeadHead(l))
<1>1. CASE ~(l # <<>> /\ Head(l) = Dead)
  BY <1>1 DEF DropDeadHead
<1>2. CASE l # <<>> /\ Head(l) = Dead
  <2>1. DropDeadHead(l) = Tail(l)
    BY <1>2 DEF DropDeadHead
  <2>2. /\ Len(l) \in Nat \ {0} /\ Tail(l) \in Seq(S \cup {Dead})
        /\ Len(Tail(l)) = Len(l) - 1
        /\ \A i \in 1 .. Len(l) - 1 : Tail(l)[i] = l[i + 1] /\ i + 1 \in 1 .. Len(l)
    BY <1>2
  <2>3. DOMAIN l = 1 .. Len(l) /\ DOMAIN Tail(l) = 1 .. Len(l) - 1
    BY <2>2
  <2>4. Listed(Tail(l)) \subseteq Listed(l)
    BY <2>2, <2>3 DEF Listed, ToSet
  <2>5. ListedOnce(l) => ListedOnce(Tail(l))
    BY <2>2, <2>3 DEF ListedOnce
  <2>. QED BY <2>1, <2>2, <2>4, <2>5
<1>. QED BY <1>1, <1>2

LEMMA OptimiseElements ==
    ASSUME NEW S, NEW l \in Seq(S \cup {Dead})
    PROVE  /\ Optimise(l) \in Seq(S \cup {Dead})
           /\ Listed(Optimise(l)) \subseteq Listed(l)
           /\ ListedOnce(l) => ListedOnce(Optimise(l))
BY DropDeadHeadElements DEF Optimise

LEMMA AppendListed ==
    ASSUME NEW S, NEW l \in Seq(S \cup {Dead}), NEW o \in S \cup {Dead}
    PROVE  /\ Append(l, o) \in Seq(S \cup {Dead})
           /\ Listed(Append(l, o)) \subseteq Listed(l) \cup ({o} \ {Dead})
           /\ ListedOnce(l) /\ o \notin Listed(l) => ListedOnce(Append(l, o))
<1>1. /\ Append(l, o) \in Seq(S \cup {Dead})
      /\ ToSet(Append(l, o)) = ToSet(l) \cup {o}
  BY AppendElements
<1>2. /\ DOMAIN l = 1 .. Len(l) /\ DOMAIN Append(l, o) = 1 .. Len(l) + 1
      /\ \A i \in 1 .. Len(l) : Append(l, o)[i] = l[i]
      /\ Append(l, o)[Len(l) + 1] = o
  OBVIOUS
<1>3. \A i \in 1 .. Len(l) + 1 : i \in 1 .. Len(l) \/ i = Len(l) + 1
  OBVIOUS
<1>4. ListedOnce(l) /\ o \notin Listed(l) => ListedOnce(Append(l, o))
  BY <1>2, <1>3 DEF ListedOnce, Listed, ToSet
<1>. QED BY <1>1, <1>4 DEF Listed

LEMMA InsertLastElements ==
    ASSUME NEW S, NEW l \in Seq(S \cup {Dead}), NEW o \in S
    PROVE  /\ ObjListInsertLast(l, o) \in Seq(S \cup {Dead})
           /\ Listed(ObjListInsertLast(l, o)) \subseteq Listed(l) \cup {o}
           /\ ListedOnce(l) /\ o \notin Listed(l) =>
                ListedOnce(ObjListInsertLast(l, o))
<1>1. CASE l # <<>> /\ Head(l) = Dead
  <2>. DEFINE k == Optimise(l)
  <2>1. ObjListInsertLast(l, o) = Append(k, Dead)
    BY <1>1 DEF ObjListInsertLast
  <2>2. /\ k \in Seq(S \cup {Dead}) /\ Listed(k) \subseteq Listed(l)
        /\ ListedOnce(l) => ListedOnce(k)
    BY OptimiseElements
  <2>. HIDE DEF k
  <2>3. Dead \notin Listed(k)
    BY DEF Listed
  <2>4. /\ Append(k, Dead) \in Seq(S \cup {Dead})
        /\ Listed(Append(k, Dead)) \subseteq Listed(k)
        /\ ListedOnce(k) => ListedOnce(Append(k, Dead))
    BY <2>2, <2>3, AppendListed
  <2>. QED BY <2>1, <2>2, <2>4
<1>2. CASE ~(l # <<>> /\ Head(l) = Dead)
  BY <1>2, AppendListed DEF ObjListInsertLast
<1>. QED BY <1>1, <1>2

LEMMA RemoveAtListed ==
    ASSUME NEW S, NEW l \in Seq(S \cup {Dead}), NEW at \in 1 .. Len(l),
           ListedOnce(l)
    PROVE  /\ RemoveAt(l, at) \in Seq(S \cup {Dead})
           /\ Listed(RemoveAt(l, at)) \subseteq Listed(l) \ {l[at]}
           /\ ListedOnce(RemoveAt(l, at))
<1>. DEFINE w == RemoveAt(l, at)
<1>1. /\ w \in Seq(S \cup {Dead}) /\ Len(w) = Len(l) - 1
      /\ \A i \in 1 .. Len(l) - 1 : w[i] = IF i < at THEN l[i] ELSE l[i + 1]
  BY RemoveAtElements
<1>. HIDE DEF w
<1>2. DOMAIN l = 1 .. Len(l) /\ DOMAIN w = 1 .. Len(l) - 1 /\ Len(l) \in Nat
  BY <1>1
<1>3. \A i \in 1 .. Len(l) - 1 :
        \E k \in 1 .. Len(l) : /\ w[i] = l[k] /\ k # at
                               /\ k = (IF i < at THEN i ELSE i + 1)
  BY <1>1, <1>2
<1>4. Listed(w) \subseteq Listed(l) \ {l[at]}
  <2>. SUFFICES ASSUME NEW i \in 1 .. Len(l) - 1, w[i] # Dead
                PROVE  w[i] \in Listed(l) /\ w[i] # l[at]
    BY <1>2 DEF Listed, ToSet
  <2>1. PICK k \in 1 .. Len(l) : w[i] = l[k] /\ k # at
    BY <1>3
  <2>. QED BY <1>2, <2>1 DEF Listed, ToSet, ListedOnce
<1>5. ListedOnce(w)
  <2>. SUFFICES ASSUME NEW i \in 1 .. Len(l) - 1, NEW j \in 1 .. Len(l) - 1,
                       w[i] = w[j], w[i] # Dead
                PROVE  i = j
    BY <1>2 DEF ListedOnce
  <2>1. PICK k \in 1 .. Len(l) : w[i] = l[k] /\ k = (IF i < at THEN i ELSE i + 1)
    BY <1>3
  <2>2. PICK m \in 1 .. Len(l) : w[j] = l[m] /\ m = (IF j < at THEN j ELSE j + 1)
    BY <1>3
  <2>3. k = m
    BY <1>2, <2>1, <2>2 DEF ListedOnce
  <2>. QED BY <2>1, <2>2, <2>3
<1>. QED BY <1>1, <1>4, <1>5 DEF w

LEMMA RemoveElements ==
    ASSUME NEW S, NEW l \in Seq(S \cup {Dead}), NEW o \in S, ListedOnce(l)
    PROVE  /\ ObjListRemove(l, o) \in Seq(S \cup {Dead})
           /\ Listed(ObjListRemove(l, o)) \subseteq Listed(l) \ {o}
           /\ ListedOnce(ObjListRemove(l, o))
<1>1. CASE o \notin ToSet(l)
  <2>1. ObjListRemove(l, o) = Optimise(l) /\ o \notin Listed(l)
    BY <1>1 DEF ObjListRemove, Listed
  <2>2. /\ Optimise(l) \in Seq(S \cup {Dead})
        /\ Listed(Optimise(l)) \subseteq Listed(l)
        /\ ListedOnce(Optimise(l))
    BY OptimiseElements
  <2>. QED BY <2>1, <2>2
<1>2. CASE o \in ToSet(l)
  <2>1. NodeOf(l, o) \in 1 .. Len(l) /\ l[NodeOf(l, o)] = o
    BY <1>2 DEF NodeOf, ToSet
  <2>2. /\ RemoveAt(l, NodeOf(l, o)) \in Seq(S \cup {Dead})
        /\ Listed(RemoveAt(l, NodeOf(l, o))) \subseteq Listed(l) \ {o}
        /\ ListedOnce(RemoveAt(l, NodeOf(l, o)))
    BY <2>1, RemoveAtListed
  <2>. QED BY <1>2, <2>2, OptimiseElements DEF ObjListRemove
<1>. QED BY <1>1, <1>2

LEMMA WatchHandlerElements ==
    ASSUME NEW S, NEW l \in Seq(S \cup {Dead}), NEW o \in S, o # Dead,
           ListedOnce(l)
    PROVE  /\ WatchHandler(l, o) \in Seq(S \cup {Dead})
           /\ Listed(WatchHandler(l, o)) \subseteq Listed(l) \ {o}
           /\ ListedOnce(WatchHandler(l, o))
<1>. DEFINE at == NodeOf(l, o)
<1>1. CASE o \notin ToSet(l)
  BY <1>1 DEF WatchHandler, Listed
<1>2. CASE o \in ToSet(l)
  <2>1. at \in 1 .. Len(l) /\ l[at] = o
    BY <1>2 DEF NodeOf, ToSet
  <2>. HIDE DEF at
  <2>2. CASE at \in {1, Len(l)}
    <3>. DEFINE w == [l EXCEPT ![at] = Dead]
    <3>1. WatchHandler(l, o) = w
      BY <1>2, <2>2 DEF WatchHandler, at
    <3>2. /\ w \in Seq(S \cup {Dead}) /\ DOMAIN w = DOMAIN l
          /\ DOMAIN l = 1 .. Len(l)
          /\ \A i \in DOMAIN l : w[i] = IF i = at THEN Dead ELSE l[i]
      BY <2>1
    <3>. HIDE DEF w
    <3>3. Listed(w) \subseteq Listed(l) \ {o}
      BY <2>1, <3>2 DEF Listed, ToSet, ListedOnce
    <3>4. ListedOnce(w)
      BY <2>1, <3>2 DEF ListedOnce
    <3>. QED BY <3>1, <3>2, <3>3, <3>4
  <2>3. CASE at \notin {1, Len(l)}
    BY <1>2, <2>1, <2>3, RemoveAtListed DEF WatchHandler, at
  <2>. QED BY <2>2, <2>3
<1>. QED BY <1>1, <1>2

\* A sequence of the elements of a set.
LEMMA SetToSeqIs ==
    ASSUME NEW S, IsFiniteSet(S)
    PROVE  /\ SetToSeq(S) \in Seq(S) /\ IsInjective(SetToSeq(S))
           /\ ToSet(SetToSeq(S)) = S
           /\ Len(SetToSeq(S)) = Cardinality(S)
<1>. DEFINE n == Cardinality(S)
            f == SetToSeq(S)
<1>1. n \in Nat /\ ExistsBijection(1 .. n, S)
  BY FS_CardinalityType
<1>2. PICK e \in [1 .. n -> S] : IsInjective(e)
  BY <1>1, Zenon DEF ExistsBijection, Bijection, Injection, Surjection, IsInjective
<1>3. f \in [1 .. n -> S] /\ IsInjective(f)
  BY <1>2 DEF SetToSeq
<1>. HIDE DEF f
<1>4. f \in Seq(S) /\ Len(f) = n /\ DOMAIN f = 1 .. n
  BY <1>1, <1>3
<1>5. f \in Injection(1 .. n, S)
  BY <1>3 DEF Injection, IsInjective
<1>6. Cardinality(1 .. n) = n
  BY <1>1, FS_Interval
<1>7. f \in Surjection(1 .. n, S)
  <2>. HIDE DEF n
  <2>1. Cardinality(1 .. n) = Cardinality(S)
    BY <1>6 DEF n
  <2>. QED BY <1>5, <2>1, FS_Injection
<1>8. ToSet(f) = S
  BY <1>4, <1>7 DEF Surjection, ToSet
<1>. QED BY <1>3, <1>4, <1>8 DEF f
=============================================================================
