---------------------------- MODULE MPlexProofs ----------------------------
(***************************************************************************)
(* Proofs of what MPlex promises, for any set of regions, placeholders and *)
(* indices.                                                                *)
(***************************************************************************)
EXTENDS MPlex, ListLemmas

-----------------------------------------------------------------------------
(* What the operations on lists do to their order.                         *)

LEMMA Pieces ==
    ASSUME NEW T, NEW s \in Seq(T), NEW i \in 1 .. Len(s) + 1
    PROVE  /\ SubSeq(s, 1, i - 1) \in Seq(T) /\ SubSeq(s, i, Len(s)) \in Seq(T)
           /\ s = SubSeq(s, 1, i - 1) \o SubSeq(s, i, Len(s))
           /\ Len(SubSeq(s, 1, i - 1)) = i - 1
<1>. DEFINE a == SubSeq(s, 1, i - 1)
            b == SubSeq(s, i, Len(s))
<1>1. /\ Len(s) \in Nat /\ i \in Nat /\ i >= 1
      /\ \A k \in 1 .. Len(s) : s[k] \in T
  OBVIOUS
<1>2. /\ a \in Seq(T) /\ Len(a) = i - 1
      /\ \A k \in 1 .. i - 1 : a[k] = s[k]
  <2>1. a = [k \in 1 .. i - 1 |-> s[k]]
    OBVIOUS
  <2>2. \A k \in 1 .. i - 1 : s[k] \in T
    BY <1>1
  <2>. QED BY <1>1, <2>1, <2>2
<1>3. /\ b \in Seq(T) /\ Len(b) = Len(s) - i + 1
      /\ \A k \in 1 .. Len(s) - i + 1 : b[k] = s[i + k - 1]
  <2>. QED OBVIOUS
<1>. HIDE DEF a, b
<1>4. /\ a \o b \in Seq(T) /\ Len(a \o b) = Len(s)
      /\ \A k \in 1 .. Len(s) : (a \o b)[k] = s[k]
  <2>1. a \o b \in Seq(T) /\ Len(a \o b) = Len(a) + Len(b)
    <3>1. a \in Seq(T) /\ b \in Seq(T)
      BY <1>2, <1>3
    <3>. QED BY <3>1
  <2>2. ASSUME NEW k \in 1 .. Len(s) PROVE (a \o b)[k] = s[k]
    <3>1. CASE k < i
      BY <1>1, <1>2, <1>3, <3>1
    <3>2. CASE k >= i
      <4>1. (a \o b)[k] = b[k - Len(a)]
        BY <1>1, <1>2, <1>3, <3>2
      <4>2. k - Len(a) \in 1 .. Len(s) - i + 1 /\ i + (k - Len(a)) - 1 = k
        BY <1>1, <1>2, <3>2
      <4>. QED BY <1>3, <4>1, <4>2
    <3>3. k < i \/ k >= i
      BY <1>1
    <3>. QED BY <3>1, <3>2, <3>3
  <2>. QED BY <1>1, <1>2, <1>3, <2>1, <2>2
<1>5. s = a \o b
  <2>. DEFINE r == a \o b
  <2>1. r \in Seq(T) /\ Len(r) = Len(s) /\ \A k \in 1 .. Len(s) : r[k] = s[k]
    BY <1>4
  <2>. HIDE DEF r
  <2>2. s = r
    BY <2>1
  <2>. QED BY <2>2 DEF r
<1>. QED BY <1>2, <1>3, <1>5 DEF a, b

LEMMA IndexIs ==
    ASSUME NEW T, NEW s \in Seq(T), NEW c \in ToSet(s)
    PROVE  Index(s, c) \in 1 .. Len(s) /\ s[Index(s, c)] = c
BY DEF ToSet, Index

\* A list taken apart at one of its elements: a is what precedes c, b what
\* follows it.
IsPartedAt(s, c, a, b) ==
    /\ s = a \o (<<c>> \o b) /\ Unlink(s, c) = a \o b
    /\ Len(a) = Index(s, c) - 1
    /\ Index(s, c) \in 1 .. Len(s) /\ s[Index(s, c)] = c
    /\ c \notin ToSet(a) /\ c \notin ToSet(b) /\ IsInjective(a \o b)

LEMMA Parted ==
    ASSUME NEW T, NEW s \in Seq(T), IsInjective(s), NEW c \in ToSet(s)
    PROVE  \E a, b \in Seq(T) : IsPartedAt(s, c, a, b)
<1>. DEFINE i == Index(s, c)
            a == SubSeq(s, 1, i - 1)
            b == SubSeq(s, i + 1, Len(s))
<1>1. i \in 1 .. Len(s) /\ s[i] = c
  BY DEF ToSet, Index
<1>2. Unlink(s, c) = a \o b
  BY DEF Unlink, RemoveAt, Index
<1>. HIDE DEF i
<1>3. /\ a \in Seq(T) /\ SubSeq(s, i, Len(s)) \in Seq(T) /\ b \in Seq(T)
      /\ s = a \o SubSeq(s, i, Len(s)) /\ Len(a) = i - 1
  <2>1. i \in 1 .. Len(s) + 1 /\ i + 1 \in 1 .. Len(s) + 1
    BY <1>1
  <2>. QED BY <2>1, Pieces
<1>4. SubSeq(s, i, Len(s)) = <<c>> \o b
  <2>. DEFINE d == SubSeq(s, i, Len(s))
  <2>1. /\ d \in Seq(T) /\ Len(d) = Len(s) - i + 1
        /\ \A k \in 1 .. Len(s) - i + 1 : d[k] = s[i + k - 1]
    BY <1>1
  <2>2. /\ Len(b) = Len(s) - i
        /\ \A k \in 1 .. Len(s) - i : b[k] = s[i + k]
    BY <1>1
  <2>. HIDE DEF d, b
  <2>3. c \in T
    BY <1>1
  <2>4. /\ <<c>> \o b \in Seq(T) /\ Len(<<c>> \o b) = Len(d)
        /\ \A k \in 1 .. Len(d) : (<<c>> \o b)[k] = d[k]
    <3>1. /\ <<c>> \o b \in Seq(T) /\ Len(<<c>> \o b) = Len(b) + 1
          /\ (<<c>> \o b)[1] = c /\ \A k \in 1 .. Len(b) : (<<c>> \o b)[k + 1] = b[k]
      BY <1>3, <2>3
    <3>2. Len(<<c>> \o b) = Len(d)
      BY <1>1, <2>1, <2>2, <3>1
    <3>3. ASSUME NEW k \in 1 .. Len(d) PROVE (<<c>> \o b)[k] = d[k]
      <4>1. CASE k = 1
        BY <1>1, <2>1, <3>1, <4>1
      <4>2. CASE k # 1
        <5>1. k - 1 \in 1 .. Len(b) /\ (k - 1) + 1 = k /\ i + (k - 1) = i + k - 1
          BY <1>1, <2>1, <2>2, <4>2
        <5>. QED BY <2>1, <2>2, <3>1, <5>1
      <4>. QED BY <4>1, <4>2
    <3>. QED BY <3>1, <3>2, <3>3
  <2>5. <<c>> \o b = d
    BY <2>1, <2>4
  <2>. QED BY <2>5 DEF d
<1>5. s = a \o (<<c>> \o b)
  BY <1>3, <1>4
<1>6. /\ a \in Seq(T) /\ b \in Seq(T) /\ <<c>> \in Seq(T) /\ c \in T
      /\ ToSet(<<c>>) = {c}
  BY <1>1, <1>3 DEF ToSet
<1>. HIDE DEF a, b
<1>7. c \notin ToSet(a) /\ c \notin ToSet(b) /\ IsInjective(a \o b)
  <2>1. <<c>> \o b \in Seq(T) /\ ToSet(<<c>> \o b) = {c} \cup ToSet(b)
    BY <1>6, PrependElements
  <2>2. /\ IsInjective(a) /\ IsInjective(<<c>> \o b)
        /\ ToSet(a) \cap ({c} \cup ToSet(b)) = {}
    BY <1>5, <1>6, <2>1, ConcatElements
  <2>3. IsInjective(b) /\ {c} \cap ToSet(b) = {}
    BY <1>6, <2>2, ConcatElements
  <2>. QED BY <1>6, <2>2, <2>3, ConcatElements
<1>8. IsPartedAt(s, c, a, b)
  BY <1>1, <1>2, <1>3, <1>5, <1>7 DEF i, IsPartedAt
<1>. QED BY <1>6, <1>8

\* Taking an element out.
LEMMA UnlinkOrder ==
    ASSUME NEW T, NEW s \in Seq(T), IsInjective(s), NEW c \in ToSet(s)
    PROVE  /\ Unlink(s, c) \in Seq(T) /\ IsInjective(Unlink(s, c))
           /\ ToSet(Unlink(s, c)) = ToSet(s) \ {c}
           /\ \A x, y : <<x, y>> \in Order(Unlink(s, c)) <=>
                <<x, y>> \in Order(s) /\ x # c /\ y # c
           /\ Unlink(s, c) = Dropping(s, {c})
<1>0. PICK a, b \in Seq(T) : IsPartedAt(s, c, a, b)
  BY Parted
<1>1. /\ s = a \o (<<c>> \o b) /\ Unlink(s, c) = a \o b
      /\ Len(a) = Index(s, c) - 1
      /\ Index(s, c) \in 1 .. Len(s) /\ s[Index(s, c)] = c
      /\ c \notin ToSet(a) /\ c \notin ToSet(b) /\ IsInjective(a \o b)
  BY <1>0 DEF IsPartedAt
<1>2. c \in T /\ <<c>> \in Seq(T) /\ ToSet(<<c>>) = {c}
      /\ \A x, y : <<x, y>> \in Order(<<c>>) <=> x = c /\ y = c
  BY DEF ToSet, Order
<1>3. /\ <<c>> \o b \in Seq(T) /\ ToSet(<<c>> \o b) = {c} \cup ToSet(b)
      /\ \A x, y : <<x, y>> \in Order(<<c>> \o b) <=>
            \/ x = c /\ y = c
            \/ <<x, y>> \in Order(b)
            \/ x = c /\ y \in ToSet(b)
  <2>1. <<c>> \in Seq(T) /\ b \in Seq(T)
    BY <1>2
  <2>2. /\ <<c>> \o b \in Seq(T) /\ ToSet(<<c>> \o b) = ToSet(<<c>>) \cup ToSet(b)
        /\ \A x, y : <<x, y>> \in Order(<<c>> \o b) <=>
              \/ <<x, y>> \in Order(<<c>>) \/ <<x, y>> \in Order(b)
              \/ x \in ToSet(<<c>>) /\ y \in ToSet(b)
    BY <2>1, ConcatElements
  <2>. QED BY <1>2, <2>2
<1>4. /\ ToSet(s) = ToSet(a) \cup {c} \cup ToSet(b)
      /\ \A x, y : <<x, y>> \in Order(s) <=>
            \/ <<x, y>> \in Order(a) \/ <<x, y>> \in Order(<<c>> \o b)
            \/ x \in ToSet(a) /\ y \in {c} \cup ToSet(b)
  <2>. DEFINE d == <<c>> \o b
  <2>1. a \in Seq(T) /\ d \in Seq(T) /\ s = a \o d /\ ToSet(d) = {c} \cup ToSet(b)
    BY <1>1, <1>3
  <2>. HIDE DEF d
  <2>2. /\ ToSet(s) = ToSet(a) \cup ToSet(d)
        /\ \A x, y : <<x, y>> \in Order(s) <=>
              \/ <<x, y>> \in Order(a) \/ <<x, y>> \in Order(d)
              \/ x \in ToSet(a) /\ y \in ToSet(d)
    BY <2>1, ConcatElements
  <2>. QED BY <2>1, <2>2 DEF d
<1>5. /\ a \o b \in Seq(T) /\ ToSet(a \o b) = ToSet(a) \cup ToSet(b)
      /\ \A x, y : <<x, y>> \in Order(a \o b) <=>
            \/ <<x, y>> \in Order(a) \/ <<x, y>> \in Order(b)
            \/ x \in ToSet(a) /\ y \in ToSet(b)
  BY <1>1, ConcatElements
<1>6. \A x, y : /\ <<x, y>> \in Order(a) => x \in ToSet(a) /\ y \in ToSet(a)
                /\ <<x, y>> \in Order(b) => x \in ToSet(b) /\ y \in ToSet(b)
  BY DEF Order
<1>7. \A x, y : <<x, y>> \in Order(a \o b) <=>
                <<x, y>> \in Order(s) /\ x # c /\ y # c
  BY <1>1, <1>3, <1>4, <1>5, <1>6
<1>8. a \o b = Dropping(s, {c})
  <2>1. \A x, y : <<x, y>> \in Order(Dropping(s, {c})) <=>
                <<x, y>> \in Order(s) /\ x # c /\ y # c
    BY DroppingOrder
  <2>2. Dropping(s, {c}) \in Seq(T) /\ IsInjective(Dropping(s, {c}))
    BY DroppingElements
  <2>. QED BY <1>1, <1>5, <1>7, <2>1, <2>2, OrderDetermines
<1>9. Unlink(s, c) = a \o b /\ IsInjective(a \o b)
  BY <1>1
<1>10. ToSet(a \o b) = ToSet(s) \ {c}
  BY <1>1, <1>4, <1>5
<1>. QED BY <1>5, <1>7, <1>8, <1>9, <1>10

\* The node n is o or comes before it; None is before all nodes.
Upto(list, n, o) == n = None \/ <<n, o>> \in Order(list)

\* What comes before r is what comes before, or is, Previous(list, r).
LEMMA PreviousIsNext ==
    ASSUME NEW T, NEW s \in Seq(T), IsInjective(s), NEW r \in ToSet(s), None \notin T
    PROVE  /\ Previous(s, r) \in (ToSet(s) \ {r}) \cup {None}
           /\ \A n \in (ToSet(s) \ {r}) \cup {None} :
                Upto(s, n, r) <=> Upto(s, n, Previous(s, r))
<1>. DEFINE i == Index(s, r)
            p == Previous(s, r)
<1>1. i \in 1 .. Len(s) /\ s[i] = r /\ p = (IF i = 1 THEN None ELSE s[i - 1])
  <2>1. i \in 1 .. Len(s) /\ s[i] = r
    BY IndexIs
  <2>. QED BY <2>1 DEF Previous
<1>2. /\ \A j, k \in 1 .. Len(s) : s[j] = s[k] => j = k
      /\ \A j \in 1 .. Len(s) : s[j] \in T
      /\ \A x : x \in ToSet(s) <=> \E j \in 1 .. Len(s) : s[j] = x
  BY DEF IsInjective, ToSet
<1>. HIDE DEF i, p
<1>3. \A x, y : <<x, y>> \in Order(s) <=>
                \E j, k \in 1 .. Len(s) : j <= k /\ s[j] = x /\ s[k] = y
  BY OrderOf
<1>4. CASE i = 1
  <2>1. p = None
    BY <1>1, <1>4
  <2>2. ASSUME NEW n \in ToSet(s), n # r PROVE <<n, r>> \notin Order(s)
    <3>1. \A j \in 1 .. Len(s) : s[j] = r => j = 1
      BY <1>1, <1>2, <1>4
    <3>2. \A j \in 1 .. Len(s) : j <= 1 => s[j] = r
      BY <1>1, <1>4
    <3>. QED BY <1>3, <2>2, <3>1, <3>2
  <2>3. \A n : <<n, None>> \notin Order(s)
    BY <1>2, <1>3
  <2>4. None \notin ToSet(s)
    BY <1>2
  <2>5. \A n \in (ToSet(s) \ {r}) \cup {None} : Upto(s, n, r) <=> Upto(s, n, p)
    BY <2>1, <2>2, <2>3, <2>4 DEF Upto
  <2>. QED BY <2>1, <2>5 DEF p
<1>5. CASE i # 1
  <2>1. i - 1 \in 1 .. Len(s) /\ p = s[i - 1] /\ i - 1 # i
    BY <1>1, <1>5
  <2>2. p \in ToSet(s) \ {r}
    BY <1>1, <1>2, <2>1
  <2>3. ASSUME NEW n, n # r PROVE <<n, r>> \in Order(s) <=> <<n, p>> \in Order(s)
    <3>1. ASSUME <<n, r>> \in Order(s) PROVE <<n, p>> \in Order(s)
      <4>1. PICK j, k \in 1 .. Len(s) : j <= k /\ s[j] = n /\ s[k] = r
        BY <1>3, <3>1
      <4>2. k = i /\ j # i
        BY <1>1, <1>2, <2>3, <4>1
      <4>3. j <= i - 1
        BY <1>1, <4>1, <4>2
      <4>. QED BY <1>3, <2>1, <4>1, <4>3
    <3>2. ASSUME <<n, p>> \in Order(s) PROVE <<n, r>> \in Order(s)
      <4>1. PICK j, k \in 1 .. Len(s) : j <= k /\ s[j] = n /\ s[k] = p
        BY <1>3, <3>2
      <4>2. k = i - 1
        BY <1>2, <2>1, <4>1
      <4>3. j <= i
        BY <1>1, <4>1, <4>2
      <4>. QED BY <1>1, <1>3, <4>1, <4>3
    <3>. QED BY <3>1, <3>2
  <2>4. \A n \in (ToSet(s) \ {r}) \cup {None} : Upto(s, n, r) <=> Upto(s, n, p)
    BY <2>3 DEF Upto
  <2>. QED BY <2>2, <2>4 DEF p
<1>. QED BY <1>4, <1>5

\* What LinkAfter puts before r.
LEMMA LinkAfterOrder ==
    ASSUME NEW T, NEW s \in Seq(T), IsInjective(s), NEW r \in T, r \notin ToSet(s),
           None \notin T, NEW after \in ToSet(s) \cup {None}
    PROVE  /\ LinkAfter(s, after, r) \in Seq(T) /\ IsInjective(LinkAfter(s, after, r))
           /\ ToSet(LinkAfter(s, after, r)) = ToSet(s) \cup {r}
           /\ \A x, y : x # r /\ y # r =>
                (<<x, y>> \in Order(LinkAfter(s, after, r)) <=> <<x, y>> \in Order(s))
           /\ \A n \in ToSet(s) \cup {None} :
                Upto(LinkAfter(s, after, r), n, r)
                  <=> Upto(LinkAfter(s, after, r), n, after)
<1>1. PICK a, b \in Seq(T) :
          /\ LinkAfter(s, after, r) = a \o (<<r>> \o b) /\ s = a \o b
          /\ after = None => a = <<>>
          /\ after # None => after \in ToSet(a)
                            /\ \A x \in ToSet(a) : <<x, after>> \in Order(a)
  <2>1. CASE after = None
    <3>1. <<>> \in Seq(T) /\ s = <<>> \o s /\ <<r>> \o s = <<>> \o (<<r>> \o s)
      OBVIOUS
    <3>. QED BY <2>1, <3>1 DEF LinkAfter
  <2>2. CASE after # None
    <3>. DEFINE i == Index(s, after)
                a == SubSeq(s, 1, i)
                b == SubSeq(s, i + 1, Len(s))
    <3>1. i \in 1 .. Len(s) /\ s[i] = after
      BY <2>2, IndexIs
    <3>2. LinkAfter(s, after, r) = a \o <<r>> \o b
      <4>1. LinkAfter(s, after, r) = SubSeq(s, 1, (i + 1) - 1) \o <<r>> \o b
        BY <2>2 DEF LinkAfter, InsertAt
      <4>2. (i + 1) - 1 = i
        BY <3>1
      <4>. QED BY <4>1, <4>2
    <3>. HIDE DEF i
    <3>3. /\ a \in Seq(T) /\ b \in Seq(T) /\ s = a \o b /\ Len(a) = i
      <4>1. i + 1 \in 1 .. Len(s) + 1 /\ (i + 1) - 1 = i
        BY <3>1
      <4>. QED BY <4>1, Pieces
    <3>4. \A k \in 1 .. i : a[k] = s[k]
      BY <3>1
    <3>. HIDE DEF a, b
    <3>5. LinkAfter(s, after, r) = a \o (<<r>> \o b)
      BY <3>2, <3>3
    <3>6. after \in ToSet(a) /\ \A x \in ToSet(a) : <<x, after>> \in Order(a)
      <4>1. i \in 1 .. Len(a) /\ a[i] = after /\ a \in Seq(T) /\ Len(a) = i
        BY <3>1, <3>3, <3>4
      <4>2. \A x \in ToSet(a) : \E k \in 1 .. Len(a) : a[k] = x
        BY <4>1 DEF ToSet
      <4>3. ASSUME NEW x \in ToSet(a) PROVE <<x, after>> \in Order(a)
        <5>1. PICK k \in 1 .. Len(a) : a[k] = x
          BY <4>2
        <5>2. k <= i
          BY <4>1, <5>1
        <5>. QED BY <4>1, <5>1, <5>2, OrderOf
      <4>4. after \in ToSet(a)
        <5>1. DOMAIN a = 1 .. Len(a)
          BY <4>1
        <5>. QED BY <4>1, <5>1 DEF ToSet
      <4>. QED BY <4>3, <4>4
    <3>. QED BY <2>2, <3>3, <3>5, <3>6
  <2>. QED BY <2>1, <2>2
<1>. DEFINE t == LinkAfter(s, after, r)
            d == <<r>> \o b
<1>2. /\ d \in Seq(T) /\ ToSet(d) = {r} \cup ToSet(b)
      /\ \A x, y : <<x, y>> \in Order(d) <=>
            \/ x = r /\ y \in {r} \cup ToSet(b)
            \/ <<x, y>> \in Order(b)
      /\ IsInjective(d) <=> IsInjective(b) /\ r \notin ToSet(b)
  <2>1. <<r>> \in Seq(T) /\ ToSet(<<r>>) = {r} /\ IsInjective(<<r>>)
        /\ \A x, y : <<x, y>> \in Order(<<r>>) <=> x = r /\ y = r
    BY DEF ToSet, Order, IsInjective
  <2>2. /\ d \in Seq(T) /\ ToSet(d) = ToSet(<<r>>) \cup ToSet(b)
        /\ IsInjective(d) <=> IsInjective(<<r>>) /\ IsInjective(b)
                               /\ ToSet(<<r>>) \cap ToSet(b) = {}
        /\ \A x, y : <<x, y>> \in Order(d) <=>
              \/ <<x, y>> \in Order(<<r>>) \/ <<x, y>> \in Order(b)
              \/ x \in ToSet(<<r>>) /\ y \in ToSet(b)
    BY <2>1, ConcatElements
  <2>. HIDE DEF d
  <2>. QED BY <2>1, <2>2
<1>. HIDE DEF d
<1>3. /\ ToSet(s) = ToSet(a) \cup ToSet(b)
      /\ IsInjective(a) /\ IsInjective(b) /\ ToSet(a) \cap ToSet(b) = {}
      /\ \A x, y : <<x, y>> \in Order(s) <=>
            \/ <<x, y>> \in Order(a) \/ <<x, y>> \in Order(b)
            \/ x \in ToSet(a) /\ y \in ToSet(b)
  <2>1. s = a \o b /\ a \in Seq(T) /\ b \in Seq(T)
    BY <1>1
  <2>. QED BY <2>1, ConcatElements
<1>4. /\ t \in Seq(T) /\ ToSet(t) = ToSet(a) \cup ToSet(d)
      /\ IsInjective(t) <=> IsInjective(a) /\ IsInjective(d)
                             /\ ToSet(a) \cap ToSet(d) = {}
      /\ \A x, y : <<x, y>> \in Order(t) <=>
            \/ <<x, y>> \in Order(a) \/ <<x, y>> \in Order(d)
            \/ x \in ToSet(a) /\ y \in ToSet(d)
  <2>1. t = a \o d
    BY <1>1 DEF d
  <2>. HIDE DEF t
  <2>. QED BY <1>2, <2>1, ConcatElements
<1>. HIDE DEF t
<1>5. \A x, y : /\ <<x, y>> \in Order(a) => x \in ToSet(a) /\ y \in ToSet(a)
                /\ <<x, y>> \in Order(b) => x \in ToSet(b) /\ y \in ToSet(b)
  BY DEF Order
<1>6. IsInjective(t) /\ ToSet(t) = ToSet(s) \cup {r}
  BY <1>2, <1>3, <1>4
<1>7. \A x, y : x # r /\ y # r =>
                (<<x, y>> \in Order(t) <=> <<x, y>> \in Order(s))
  BY <1>2, <1>3, <1>4
<1>8. ASSUME NEW n \in ToSet(s) \cup {None} PROVE Upto(t, n, r) <=> Upto(t, n, after)
  <2>1. CASE n = None
    BY <2>1 DEF Upto
  <2>2. CASE n # None /\ after = None
    <3>1. ToSet(a) = {}
      BY <1>1, <2>2 DEF ToSet
    <3>2. \A x, y : <<x, y>> \in Order(t) => y \in ToSet(t)
      BY DEF Order
    <3>3. None \notin ToSet(t)
      BY <1>4 DEF ToSet
    <3>4. <<n, after>> \notin Order(t)
      BY <2>2, <3>2, <3>3
    <3>5. <<n, r>> \notin Order(t)
      BY <1>2, <1>3, <1>4, <1>5, <2>2, <3>1
    <3>. QED BY <2>2, <3>4, <3>5 DEF Upto
  <2>3. CASE n # None /\ after # None
    <3>1. after \in ToSet(a) /\ \A x \in ToSet(a) : <<x, after>> \in Order(a)
      BY <1>1, <2>3
    <3>2. <<n, r>> \in Order(t) <=> n \in ToSet(a)
      BY <1>2, <1>3, <1>4, <1>5, <2>3
    <3>3. <<n, after>> \in Order(t) <=> n \in ToSet(a)
      BY <1>2, <1>3, <1>4, <1>5, <2>3, <3>1
    <3>. QED BY <2>3, <3>2, <3>3 DEF Upto
  <2>. QED BY <2>1, <2>2, <2>3
<1>. QED BY <1>4, <1>6, <1>7, <1>8 DEF t

-----------------------------------------------------------------------------
(* The line of a list and its placeholders.                                *)

LEMMA PrependOrder ==
    ASSUME NEW T, NEW s \in Seq(T), NEW c \in T
    PROVE  /\ <<c>> \o s \in Seq(T) /\ ToSet(<<c>> \o s) = {c} \cup ToSet(s)
           /\ IsInjective(<<c>> \o s) <=> IsInjective(s) /\ c \notin ToSet(s)
           /\ \A x, y : <<x, y>> \in Order(<<c>> \o s) <=>
                \/ x = c /\ y \in {c} \cup ToSet(s)
                \/ <<x, y>> \in Order(s)
<1>1. <<c>> \in Seq(T) /\ ToSet(<<c>>) = {c} /\ IsInjective(<<c>>)
      /\ \A x, y : <<x, y>> \in Order(<<c>>) <=> x = c /\ y = c
  BY DEF ToSet, Order, IsInjective
<1>. DEFINE d == <<c>> \o s
<1>2. /\ d \in Seq(T) /\ ToSet(d) = ToSet(<<c>>) \cup ToSet(s)
      /\ IsInjective(d) <=> IsInjective(<<c>>) /\ IsInjective(s)
                             /\ ToSet(<<c>>) \cap ToSet(s) = {}
      /\ \A x, y : <<x, y>> \in Order(d) <=>
            \/ <<x, y>> \in Order(<<c>>) \/ <<x, y>> \in Order(s)
            \/ x \in ToSet(<<c>>) /\ y \in ToSet(s)
  BY <1>1, ConcatElements
<1>. HIDE DEF d
<1>3. /\ d \in Seq(T) /\ ToSet(d) = {c} \cup ToSet(s)
      /\ IsInjective(d) <=> IsInjective(s) /\ c \notin ToSet(s)
      /\ \A x, y : <<x, y>> \in Order(d) <=>
           \/ x = c /\ y \in {c} \cup ToSet(s)
           \/ <<x, y>> \in Order(s)
  BY <1>1, <1>2
<1>. QED BY <1>3 DEF d

\* All placeholders there are.
Marks == PHolders \cup {Temp}
All == Regions \cup Marks

\* The types of the fields while an operation goes on, and what Placed says
\* of the lists.
Fields(q) ==
    q \in [mgd : SUBSET Regions, mx : Seq(Regions), current : Regions \cup {None},
           misc : Seq(Marks), phs : [Regions -> Seq(Marks)],
           hidden : SUBSET Regions, mapped : SUBSET Regions,
           up : BOOLEAN, small : BOOLEAN]
FineLine(q) ==
    /\ Fields(q)
    /\ IsInjective(q.mx)
    /\ \A n \in Regions \cup {None} :
        /\ IsInjective(PhsOf(q, n))
        /\ \A o \in (Regions \cup {None}) \ {n} :
               ToSet(PhsOf(q, n)) \cap ToSet(PhsOf(q, o)) = {}
    /\ \A r \in Regions \ ToSet(q.mx) : q.phs[r] = <<>>

Nodes(q) == ToSet(q.mx) \cup {None}
\* x is the node n or hangs on it.
At(q, n, x) == x \in {n} \ {None} \/ x \in ToSet(PhsOf(q, n))
\* x is not after y in the line.
InLine(q, x, y) ==
    \E n, o \in Nodes(q) :
        /\ At(q, n, x) /\ At(q, o, y)
        /\ \/ n = o /\ (x = n \/ <<x, y>> \in Order(PhsOf(q, n)))
           \/ n # o /\ Upto(q.mx, n, o)

LEMMA NodesAndMarks ==
    ASSUME NEW q, Fields(q)
    PROVE  /\ \A n \in Nodes(q) : n \in Regions \cup {None}
           /\ \A n \in Regions \cup {None} :
                /\ PhsOf(q, n) \in Seq(Marks)
                /\ ToSet(PhsOf(q, n)) \subseteq Marks
           /\ ToSet(q.mx) \subseteq Regions
           /\ None \notin Regions /\ None \notin Marks /\ Regions \cap Marks = {}
<1>1. None \notin Regions /\ None \notin Marks /\ Regions \cap Marks = {}
  BY MPlexAssumption DEF Marks
<1>2. ToSet(q.mx) \subseteq Regions
  BY DEF Fields, ToSet
<1>3. \A n \in Regions \cup {None} : PhsOf(q, n) \in Seq(Marks)
  BY DEF Fields, PhsOf
<1>4. \A s \in Seq(Marks) : ToSet(s) \subseteq Marks
  BY DEF ToSet
<1>. QED BY <1>1, <1>2, <1>3, <1>4 DEF Nodes

\* Everything is in one place.
LEMMA OnePlace ==
    ASSUME NEW q, FineLine(q), NEW n \in Regions \cup {None},
           NEW o \in Regions \cup {None}, NEW x, At(q, n, x), At(q, o, x)
    PROVE  n = o
<1>1. ToSet(PhsOf(q, n)) \subseteq Marks /\ ToSet(PhsOf(q, o)) \subseteq Marks
      /\ Regions \cap Marks = {} /\ None \notin Marks
  BY NodesAndMarks DEF FineLine
<1>2. n # o => ToSet(PhsOf(q, n)) \cap ToSet(PhsOf(q, o)) = {}
  BY DEF FineLine
<1>. QED BY <1>1, <1>2 DEF At

\* How Line goes along the list.
LEMMA LineRecurs ==
    ASSUME NEW q, Fields(q)
    PROVE  \E line : /\ line[0] = q.misc /\ line[Len(q.mx)] = Line(q)
                     /\ \A n \in 1 .. Len(q.mx) :
                          line[n] = line[n - 1] \o (<<q.mx[n]>> \o q.phs[q.mx[n]])
<1>. DEFINE N == Len(q.mx)
            next(n, l) == l \o (<<q.mx[n]>> \o q.phs[q.mx[n]])
            step == [n \in 1 .. N |-> [l \in Seq(All) |-> next(n, l)]]
            Body(f) == [n \in 0 .. N |-> IF n = 0 THEN q.misc ELSE next(n, f[n - 1])]
            line == CHOOSE f : f = Body(f)
<1>1. N \in Nat /\ q.misc \in Seq(All)
      /\ \A n \in 1 .. N : q.mx[n] \in Regions /\ q.phs[q.mx[n]] \in Seq(Marks)
  <2>1. q.mx \in Seq(Regions) /\ q.misc \in Seq(Marks)
        /\ q.phs \in [Regions -> Seq(Marks)]
    BY DEF Fields
  <2>. QED BY <2>1 DEF All
<1>2. Line(q) = line[N]
  BY DEF Line
<1>3. step \in [1 .. N -> [Seq(All) -> Seq(All)]]
  <2>1. ASSUME NEW n \in 1 .. N, NEW l \in Seq(All) PROVE next(n, l) \in Seq(All)
    <3>1. q.mx[n] \in All /\ q.phs[q.mx[n]] \in Seq(All)
      BY <1>1 DEF All
    <3>. QED BY <3>1
  <2>. HIDE DEF next
  <2>. QED BY <2>1
<1>4. PICK f \in [0 .. N -> Seq(All)] : Recurs(f, N, q.misc, step)
  <2>. HIDE DEF step
  <2>. QED BY <1>1, <1>3, RecursionExists
<1>5. f = Body(f)
  <2>1. ASSUME NEW n \in 1 .. N PROVE f[n] = next(n, f[n - 1])
    <3>1. f[n - 1] \in Seq(All) /\ f[n] = step[n][f[n - 1]]
      <4>. HIDE DEF step
      <4>. QED BY <1>1, <1>4 DEF Recurs
    <3>. QED BY <3>1
  <2>2. f[0] = q.misc
    BY <1>4 DEF Recurs
  <2>. HIDE DEF next
  <2>3. \A n \in 0 .. N : f[n] = Body(f)[n]
    BY <1>1, <2>1, <2>2
  <2>. QED BY <2>3
<1>6. line = Body(line)
  <2>. HIDE DEF Body
  <2>. QED BY <1>5
<1>7. line[0] = q.misc /\ \A n \in 1 .. N : line[n] = next(n, line[n - 1])
  <2>. HIDE DEF line
  <2>1. line[0] = Body(line)[0]
    BY <1>6
  <2>2. ASSUME NEW n \in 1 .. N PROVE line[n] = Body(line)[n]
    BY <1>6, <2>2
  <2>3. 0 \in 0 .. N /\ \A n \in 1 .. N : n \in 0 .. N /\ n # 0
    BY <1>1
  <2>. HIDE DEF next
  <2>. QED BY <2>1, <2>2, <2>3
<1>. QED BY <1>2, <1>7

\* What the line is.
LEMMA LineOf ==
    ASSUME NEW q, FineLine(q)
    PROVE  /\ Line(q) \in Seq(All) /\ IsInjective(Line(q))
           /\ ToSet(Line(q)) = ToSet(q.mx) \cup OnLine(q)
           /\ \A x : x \in ToSet(Line(q)) <=> \E n \in Nodes(q) : At(q, n, x)
           /\ \A x, y : <<x, y>> \in Order(Line(q)) <=> InLine(q, x, y)
<1>. DEFINE N == Len(q.mx)
            node(k) == IF k = 0 THEN None ELSE q.mx[k]
            Before(j, k, x, y) ==
                \/ j < k
                \/ j = k /\ (x = node(j) \/ <<x, y>> \in Order(PhsOf(q, node(j))))
            Good(n, l) ==
                /\ l \in Seq(All) /\ IsInjective(l)
                /\ \A x : x \in ToSet(l) <=> \E k \in 0 .. n : At(q, node(k), x)
                /\ \A x, y : <<x, y>> \in Order(l) <=>
                     \E j, k \in 0 .. n :
                         At(q, node(j), x) /\ At(q, node(k), y) /\ Before(j, k, x, y)
<1>1. PICK line : /\ line[0] = q.misc /\ line[N] = Line(q)
                  /\ \A n \in 1 .. N :
                       line[n] = line[n - 1] \o (<<q.mx[n]>> \o q.phs[q.mx[n]])
  BY LineRecurs DEF FineLine
<1>2. /\ N \in Nat /\ q.mx \in Seq(Regions) /\ q.misc \in Seq(Marks)
      /\ \A j, k \in 1 .. N : q.mx[j] = q.mx[k] => j = k
      /\ \A k \in 1 .. N : q.mx[k] \in Regions /\ q.phs[q.mx[k]] \in Seq(Marks)
      /\ \A x : x \in ToSet(q.mx) <=> \E k \in 1 .. N : q.mx[k] = x
  BY DEF FineLine, Fields, IsInjective, ToSet
<1>3. /\ None \notin Regions /\ None \notin Marks /\ Regions \cap Marks = {}
      /\ \A n \in Regions \cup {None} :
            PhsOf(q, n) \in Seq(Marks) /\ ToSet(PhsOf(q, n)) \subseteq Marks
  BY NodesAndMarks DEF FineLine
<1>4. /\ \A k \in 0 .. N : node(k) \in Regions \cup {None}
      /\ \A j, k \in 0 .. N : node(j) = node(k) => j = k
  BY <1>2, <1>3
<1>5. \A j, k \in 0 .. N : \A x : At(q, node(j), x) /\ At(q, node(k), x) => j = k
  <2>. HIDE DEF node
  <2>. QED BY <1>4, OnePlace
<1>6. \A n \in Regions \cup {None} : IsInjective(PhsOf(q, n))
  BY DEF FineLine
<1>7. Good(0, line[0])
  <2>1. node(0) = None /\ line[0] = PhsOf(q, None)
    BY <1>1 DEF PhsOf
  <2>2. line[0] \in Seq(All) /\ IsInjective(line[0])
    BY <1>2, <1>6, <1>1, <2>1 DEF All
  <2>3. \A x : At(q, None, x) <=> x \in ToSet(line[0])
    BY <2>1 DEF At
  <2>4. \A x, y : <<x, y>> \in Order(line[0]) => x \in ToSet(line[0]) /\ y \in ToSet(line[0])
    BY DEF Order
  <2>5. \A x : x \in ToSet(line[0]) => x # None
    BY <1>3, <2>1
  <2>6. 0 .. 0 = {0}
    OBVIOUS
  <2>. HIDE DEF node
  <2>. QED BY <2>1, <2>2, <2>3, <2>4, <2>5, <2>6
<1>8. ASSUME NEW n \in 1 .. N, Good(n - 1, line[n - 1]) PROVE Good(n, line[n])
  <2>. DEFINE l == line[n - 1]
              c == q.mx[n]
              st == <<c>> \o q.phs[c]
  <2>1. c \in Regions /\ q.phs[c] \in Seq(Marks) /\ c = node(n)
        /\ PhsOf(q, c) = q.phs[c] /\ line[n] = l \o st
    <3>1. c \in Regions /\ q.phs[c] \in Seq(Marks) /\ c # None
      BY <1>2, <1>3
    <3>2. n # 0
      BY <1>2
    <3>3. line[n] = l \o st
      BY <1>1
    <3>4. c = node(n)
      BY <3>2
    <3>. QED BY <3>1, <3>3, <3>4 DEF PhsOf
  <2>2. q.phs[c] \in Seq(All) /\ c \in All /\ IsInjective(q.phs[c])
        /\ c \notin ToSet(q.phs[c])
    BY <1>3, <1>6, <2>1 DEF All
  <2>3. /\ st \in Seq(All) /\ IsInjective(st)
        /\ \A x : x \in ToSet(st) <=> At(q, c, x)
        /\ \A x, y : <<x, y>> \in Order(st) <=>
              At(q, c, x) /\ At(q, c, y) /\ (x = c \/ <<x, y>> \in Order(PhsOf(q, c)))
    <3>1. /\ st \in Seq(All) /\ ToSet(st) = {c} \cup ToSet(q.phs[c]) /\ IsInjective(st)
          /\ \A x, y : <<x, y>> \in Order(st) <=>
               \/ x = c /\ y \in {c} \cup ToSet(q.phs[c])
               \/ <<x, y>> \in Order(q.phs[c])
      BY <2>2, PrependOrder
    <3>2. \A x, y : <<x, y>> \in Order(q.phs[c]) =>
                    x \in ToSet(q.phs[c]) /\ y \in ToSet(q.phs[c])
      BY DEF Order
    <3>3. \A x : At(q, c, x) <=> x \in {c} \cup ToSet(q.phs[c])
      BY <1>3, <2>1 DEF At
    <3>. HIDE DEF st, c
    <3>. QED BY <2>1, <3>1, <3>2, <3>3
  <2>. HIDE DEF st
  <2>4. \A x : ~(x \in ToSet(l) /\ x \in ToSet(st))
    <3>1. ASSUME NEW x, x \in ToSet(l), x \in ToSet(st) PROVE FALSE
      <4>1. PICK k \in 0 .. n - 1 : At(q, node(k), x)
        BY <1>8, <3>1
      <4>2. At(q, node(n), x)
        BY <2>1, <2>3, <3>1
      <4>3. k \in 0 .. N /\ n \in 0 .. N /\ k # n
        BY <1>2
      <4>. HIDE DEF node
      <4>. QED BY <1>5, <4>1, <4>2, <4>3
    <3>. QED BY <3>1
  <2>5. /\ line[n] \in Seq(All) /\ IsInjective(line[n])
        /\ \A x : x \in ToSet(line[n]) <=> x \in ToSet(l) \/ x \in ToSet(st)
        /\ \A x, y : <<x, y>> \in Order(line[n]) <=>
              \/ <<x, y>> \in Order(l) \/ <<x, y>> \in Order(st)
              \/ x \in ToSet(l) /\ y \in ToSet(st)
    <3>1. l \in Seq(All) /\ IsInjective(l)
      BY <1>8
    <3>. HIDE DEF l
    <3>. QED BY <2>1, <2>3, <2>4, <3>1, ConcatElements
  <2>6. 0 .. n = (0 .. n - 1) \cup {n} /\ n \notin 0 .. n - 1
        /\ \A k \in 0 .. n - 1 : k < n /\ ~(n < k)
        /\ ~(n < n)
    BY <1>2
  <2>7. ASSUME NEW x
        PROVE  x \in ToSet(line[n]) <=> \E k \in 0 .. n : At(q, node(k), x)
    <3>1. x \in ToSet(l) <=> \E k \in 0 .. n - 1 : At(q, node(k), x)
      BY <1>8
    <3>. HIDE DEF node, l
    <3>. QED BY <2>1, <2>3, <2>5, <2>6, <3>1
  <2>8. ASSUME NEW x, NEW y
        PROVE  <<x, y>> \in Order(line[n]) <=>
                 \E j, k \in 0 .. n :
                     At(q, node(j), x) /\ At(q, node(k), y) /\ Before(j, k, x, y)
    <3>. DEFINE Pair(j, k) ==
                    At(q, node(j), x) /\ At(q, node(k), y) /\ Before(j, k, x, y)
    <3>1. <<x, y>> \in Order(l) <=> \E j, k \in 0 .. n - 1 : Pair(j, k)
      BY <1>8
    <3>2. x \in ToSet(l) <=> \E j \in 0 .. n - 1 : At(q, node(j), x)
      BY <1>8
    <3>3. \A j \in 0 .. n - 1 : Pair(j, n) <=> At(q, node(j), x) /\ At(q, c, y)
      <4>. HIDE DEF node
      <4>. QED BY <2>1, <2>6
    <3>4. \A k \in 0 .. n - 1 : ~Pair(n, k)
      BY <2>6
    <3>5. Pair(n, n) <=> <<x, y>> \in Order(st)
      <4>. HIDE DEF node
      <4>. QED BY <2>1, <2>3, <2>6
    <3>. HIDE DEF Pair, l, node
    <3>6. <<x, y>> \in Order(line[n]) <=> \E j, k \in 0 .. n : Pair(j, k)
      BY <2>3, <2>5, <2>6, <3>1, <3>2, <3>3, <3>4, <3>5
    <3>. QED BY <3>6 DEF Pair
  <2>. HIDE DEF node, Before
  <2>. QED BY <2>5, <2>7, <2>8
<1>9. Good(N, line[N])
  <2>. DEFINE T == {n \in 0 .. N : Good(n, line[n])}
  <2>. HIDE DEF Good
  <2>1. 0 \in T /\ \A n \in 1 .. N : n - 1 \in T => n \in T
    BY <1>2, <1>7, <1>8
  <2>. HIDE DEF T
  <2>2. \A n \in 0 .. N : n \in T
    BY <1>2, <2>1, Induction
  <2>. QED BY <1>2, <2>2 DEF T
<1>. DEFINE L == Line(q)
<1>10. /\ L \in Seq(All) /\ IsInjective(L)
       /\ \A x : x \in ToSet(L) <=> \E k \in 0 .. N : At(q, node(k), x)
       /\ \A x, y : <<x, y>> \in Order(L) <=>
            \E j, k \in 0 .. N :
                At(q, node(j), x) /\ At(q, node(k), y) /\ Before(j, k, x, y)
  BY <1>1, <1>9
<1>. HIDE DEF L
<1>11. /\ \A k \in 0 .. N : node(k) \in Nodes(q)
       /\ \A o \in Nodes(q) : \E k \in 0 .. N : node(k) = o
  <2>1. 0 \in 0 .. N /\ node(0) = None
    BY <1>2
  <2>2. \A k \in 1 .. N : k \in 0 .. N /\ node(k) = q.mx[k]
    BY <1>2
  <2>3. \A k \in 0 .. N : k = 0 \/ k \in 1 .. N
    BY <1>2
  <2>. HIDE DEF node
  <2>. QED BY <1>2, <2>1, <2>2, <2>3 DEF Nodes
<1>12. \A x : x \in ToSet(L) <=> \E o \in Nodes(q) : At(q, o, x)
  <2>. HIDE DEF node
  <2>. QED BY <1>10, <1>11
<1>13. \A j, k \in 0 .. N : j # k => (Upto(q.mx, node(j), node(k)) <=> j < k)
  <2>1. \A x, y : <<x, y>> \in Order(q.mx) <=>
                  \E i, h \in 1 .. N : i <= h /\ q.mx[i] = x /\ q.mx[h] = y
    BY <1>2, OrderOf
  <2>2. ASSUME NEW j \in 1 .. N, NEW k \in 1 .. N, j # k
        PROVE  <<q.mx[j], q.mx[k]>> \in Order(q.mx) <=> j < k
    <3>1. ASSUME <<q.mx[j], q.mx[k]>> \in Order(q.mx) PROVE j < k
      <4>1. PICK i, h \in 1 .. N : i <= h /\ q.mx[i] = q.mx[j] /\ q.mx[h] = q.mx[k]
        BY <2>1, <3>1
      <4>2. i = j /\ h = k
        BY <1>2, <4>1
      <4>. QED BY <2>2, <4>1, <4>2
    <3>2. ASSUME j < k PROVE <<q.mx[j], q.mx[k]>> \in Order(q.mx)
      <4>1. j <= k
        BY <3>2
      <4>. QED BY <2>1, <4>1
    <3>. QED BY <3>1, <3>2
  <2>3. \A x : <<x, None>> \notin Order(q.mx)
    <3>1. \A k \in 1 .. N : q.mx[k] # None
      BY <1>2, <1>3
    <3>. QED BY <2>1, <3>1
  <2>4. ASSUME NEW j \in 0 .. N, NEW k \in 0 .. N, j # k
        PROVE  Upto(q.mx, node(j), node(k)) <=> j < k
    <3>1. CASE j = 0
      BY <1>2, <2>4, <3>1 DEF Upto
    <3>2. CASE j # 0 /\ k = 0
      BY <1>2, <1>3, <2>3, <3>2 DEF Upto
    <3>3. CASE j # 0 /\ k # 0
      <4>1. j \in 1 .. N /\ k \in 1 .. N
        BY <3>3
      <4>2. node(j) = q.mx[j] /\ node(k) = q.mx[k] /\ node(j) # None
        BY <1>2, <1>3, <3>3, <4>1
      <4>3. Upto(q.mx, node(j), node(k)) <=> <<q.mx[j], q.mx[k]>> \in Order(q.mx)
        BY <4>2 DEF Upto
      <4>. QED BY <2>2, <2>4, <4>1, <4>3
    <3>. QED BY <3>1, <3>2, <3>3
  <2>. QED BY <2>4
<1>14. ASSUME NEW x, NEW y PROVE <<x, y>> \in Order(L) <=> InLine(q, x, y)
  <2>1. ASSUME NEW j \in 0 .. N, NEW k \in 0 .. N
        PROVE  Before(j, k, x, y) <=>
                 \/ node(j) = node(k)
                      /\ (x = node(j) \/ <<x, y>> \in Order(PhsOf(q, node(j))))
                 \/ node(j) # node(k) /\ Upto(q.mx, node(j), node(k))
    <3>1. node(j) = node(k) <=> j = k
      BY <1>4
    <3>2. j # k => (Upto(q.mx, node(j), node(k)) <=> j < k)
      BY <1>13
    <3>3. j = k => ~(j < k)
      OBVIOUS
    <3>. HIDE DEF node
    <3>. QED BY <3>1, <3>2, <3>3
  <2>. HIDE DEF node, Before
  <2>. QED BY <1>10, <1>11, <2>1 DEF InLine
<1>15. \A x : (\E o \in Nodes(q) : At(q, o, x)) <=> x \in ToSet(q.mx) \cup OnLine(q)
  <2>1. \A r \in Regions \ ToSet(q.mx) : ToSet(q.phs[r]) = {}
    BY DEF FineLine, ToSet
  <2>2. ToSet(q.mx) \subseteq Regions
    BY NodesAndMarks DEF FineLine
  <2>3. \A x : At(q, None, x) <=> x \in ToSet(q.misc)
    BY DEF At, PhsOf
  <2>4. \A n \in Regions : \A x : At(q, n, x) <=> x = n \/ x \in ToSet(q.phs[n])
    BY <1>3 DEF At, PhsOf
  <2>5. \A x : x \in OnLine(q) <=>
               x \in ToSet(q.misc) \/ \E r \in Regions : x \in ToSet(q.phs[r])
    BY DEF OnLine
  <2>. QED BY <2>1, <2>2, <2>3, <2>4, <2>5 DEF Nodes
<1>16. ToSet(L) = ToSet(q.mx) \cup OnLine(q)
  <2>1. \A x : x \in ToSet(L) <=> x \in ToSet(q.mx) \cup OnLine(q)
    BY <1>12, <1>15
  <2>. QED BY <2>1
<1>. QED BY <1>10, <1>12, <1>14, <1>16 DEF L

-----------------------------------------------------------------------------
(* Lines that agree but for some of what is on them.                       *)

Agree(q, p, X) ==
    \A x, y : x \notin X /\ y \notin X => (InLine(q, x, y) <=> InLine(p, x, y))

LEMMA AgreeOneWay ==
    ASSUME NEW q, FineLine(q), NEW p, FineLine(p), NEW X,
           \A x : x \notin X => (x \in ToSet(Line(q)) <=> x \in ToSet(Line(p))),
           \A x, y : x \notin X /\ y \notin X /\ InLine(q, x, y) => InLine(p, x, y)
    PROVE  Agree(q, p, X)
<1>. SUFFICES ASSUME NEW x, NEW y, x \notin X, y \notin X, InLine(p, x, y)
              PROVE  InLine(q, x, y)
  BY DEF Agree
<1>. DEFINE K == Line(q)
            L == Line(p)
<1>1. /\ K \in Seq(All) /\ IsInjective(K) /\ L \in Seq(All) /\ IsInjective(L)
      /\ \A v, w : <<v, w>> \in Order(K) <=> InLine(q, v, w)
      /\ \A v, w : <<v, w>> \in Order(L) <=> InLine(p, v, w)
  BY LineOf
<1>2. \A v : v \notin X => (v \in ToSet(K) <=> v \in ToSet(L))
  OBVIOUS
<1>. HIDE DEF K, L
<1>3. /\ \A v \in ToSet(K) : <<v, v>> \in Order(K)
      /\ \A v, w \in ToSet(K) : <<v, w>> \in Order(K) \/ <<w, v>> \in Order(K)
  BY <1>1, OrderIsTotal
<1>4. /\ \A v, w : <<v, w>> \in Order(L) => v \in ToSet(L) /\ w \in ToSet(L)
      /\ \A v, w : <<v, w>> \in Order(L) /\ <<w, v>> \in Order(L) => v = w
  BY <1>1, OrderIsTotal
<1>5. <<x, y>> \in Order(L) /\ x \in ToSet(K) /\ y \in ToSet(K)
  BY <1>1, <1>2, <1>4
<1>6. CASE <<x, y>> \in Order(K)
  BY <1>1, <1>6
<1>7. CASE <<y, x>> \in Order(K)
  <2>1. <<y, x>> \in Order(L)
    BY <1>1, <1>7
  <2>2. x = y
    BY <1>4, <1>5, <2>1
  <2>. QED BY <1>1, <1>7, <2>2
<1>. QED BY <1>3, <1>5, <1>6, <1>7

\* What is left of lines that agree is the same.
LEMMA AgreeDropping ==
    ASSUME NEW q, FineLine(q), NEW p, FineLine(p), NEW X, Agree(q, p, X)
    PROVE  Dropping(Line(q), X) = Dropping(Line(p), X)
<1>. DEFINE K == Line(q)
            L == Line(p)
<1>1. /\ K \in Seq(All) /\ IsInjective(K) /\ L \in Seq(All) /\ IsInjective(L)
      /\ \A v, w : <<v, w>> \in Order(K) <=> InLine(q, v, w)
      /\ \A v, w : <<v, w>> \in Order(L) <=> InLine(p, v, w)
  BY LineOf
<1>. HIDE DEF K, L
<1>2. /\ Dropping(K, X) \in Seq(All) /\ IsInjective(Dropping(K, X))
      /\ Dropping(L, X) \in Seq(All) /\ IsInjective(Dropping(L, X))
  BY <1>1, DroppingElements
<1>3. \A v, w : <<v, w>> \in Order(Dropping(K, X)) <=>
                <<v, w>> \in Order(K) /\ v \notin X /\ w \notin X
  BY <1>1, DroppingOrder
<1>4. \A v, w : <<v, w>> \in Order(Dropping(L, X)) <=>
                <<v, w>> \in Order(L) /\ v \notin X /\ w \notin X
  BY <1>1, DroppingOrder
<1>5. \A v, w : <<v, w>> \in Order(Dropping(K, X)) <=>
                <<v, w>> \in Order(Dropping(L, X))
  BY <1>1, <1>3, <1>4 DEF Agree
<1>6. Dropping(K, X) = Dropping(L, X)
  BY <1>2, <1>5, OrderDetermines
<1>. QED BY <1>6 DEF K, L

LEMMA AgreeTrans ==
    ASSUME NEW q, NEW p, NEW o, NEW X, Agree(q, p, X), Agree(p, o, X)
    PROVE  Agree(q, o, X)
BY DEF Agree

LEMMA AgreeMore ==
    ASSUME NEW q, NEW p, NEW X, NEW Y, X \subseteq Y, Agree(q, p, X)
    PROVE  Agree(q, p, Y)
BY DEF Agree

\* What is shown is the same.
SameShown(q, p) ==
    /\ p.mgd = q.mgd /\ p.hidden = q.hidden /\ p.mapped = q.mapped
    /\ p.current = q.current /\ p.up = q.up /\ p.small = q.small

LEMMA SameLists ==
    ASSUME NEW q, FineLine(q), NEW p, Fields(p), p.mx = q.mx, p.misc = q.misc,
           p.phs = q.phs
    PROVE  /\ FineLine(p) /\ OnLine(p) = OnLine(q) /\ Line(p) = Line(q)
           /\ Agree(q, p, {})
<1>1. \A n : PhsOf(p, n) = PhsOf(q, n)
  BY DEF PhsOf
<1>2. FineLine(p)
  BY <1>1 DEF FineLine
<1>3. OnLine(p) = OnLine(q)
  BY DEF OnLine
<1>4. \A x, y : InLine(p, x, y) <=> InLine(q, x, y)
  BY <1>1 DEF InLine, Nodes, At
<1>5. Line(p) = Line(q)
  BY DEF Line
<1>. QED BY <1>2, <1>3, <1>4, <1>5 DEF Agree

LEMMA WithPhsIs ==
    ASSUME NEW q, Fields(q), NEW n \in Regions \cup {None}, NEW s \in Seq(Marks)
    PROVE  /\ Fields(WithPhs(q, n, s)) /\ WithPhs(q, n, s).mx = q.mx
           /\ SameShown(q, WithPhs(q, n, s))
           /\ PhsOf(WithPhs(q, n, s), n) = s
           /\ \A o \in (Regions \cup {None}) \ {n} :
                PhsOf(WithPhs(q, n, s), o) = PhsOf(q, o)
<1>1. None \notin Regions
  BY MPlexAssumption
<1>2. CASE n = None
  <2>1. WithPhs(q, n, s) = [q EXCEPT !.misc = s]
    BY <1>2 DEF WithPhs
  <2>. QED BY <1>1, <1>2, <2>1 DEF Fields, SameShown, PhsOf
<1>3. CASE n # None
  <2>1. WithPhs(q, n, s) = [q EXCEPT !.phs[n] = s] /\ n \in Regions
    BY <1>3 DEF WithPhs
  <2>2. q.phs \in [Regions -> Seq(Marks)]
    BY DEF Fields
  <2>3. [q.phs EXCEPT ![n] = s] \in [Regions -> Seq(Marks)]
    BY <2>2
  <2>4. WithPhs(q, n, s).phs = [q.phs EXCEPT ![n] = s]
        /\ WithPhs(q, n, s).misc = q.misc
        /\ WithPhs(q, n, s).mx = q.mx /\ SameShown(q, WithPhs(q, n, s))
    BY <2>1 DEF Fields, SameShown
  <2>5. Fields(WithPhs(q, n, s))
    BY <2>1, <2>3 DEF Fields
  <2>. QED BY <1>1, <1>3, <2>1, <2>2, <2>4, <2>5 DEF PhsOf
<1>. QED BY <1>2, <1>3

\* Nothing but the placeholder ph changes.
LEMMA PhsChange ==
    ASSUME NEW q, FineLine(q), NEW p, Fields(p), p.mx = q.mx, NEW ph \in Marks,
           \A n \in Regions \cup {None} :
              /\ IsInjective(PhsOf(p, n))
              /\ \A x : x # ph =>
                    (x \in ToSet(PhsOf(p, n)) <=> x \in ToSet(PhsOf(q, n)))
              /\ \A x, y : x # ph /\ y # ph =>
                    (<<x, y>> \in Order(PhsOf(p, n)) <=> <<x, y>> \in Order(PhsOf(q, n)))
              /\ \A o \in Regions \cup {None} :
                    ph \in ToSet(PhsOf(p, n)) /\ ph \in ToSet(PhsOf(p, o)) => n = o
              /\ n \notin Nodes(q) => PhsOf(p, n) = <<>>
    PROVE  FineLine(p) /\ Agree(q, p, {ph})
<1>1. FineLine(p)
  <2>1. IsInjective(p.mx)
    BY DEF FineLine
  <2>2. ASSUME NEW n \in Regions \cup {None}, NEW o \in (Regions \cup {None}) \ {n}
        PROVE  ToSet(PhsOf(p, n)) \cap ToSet(PhsOf(p, o)) = {}
    <3>1. ToSet(PhsOf(q, n)) \cap ToSet(PhsOf(q, o)) = {}
      BY DEF FineLine
    <3>. QED BY <3>1
  <2>3. ASSUME NEW r \in Regions \ ToSet(p.mx) PROVE p.phs[r] = <<>>
    <3>1. r \notin Nodes(q) /\ PhsOf(p, r) = p.phs[r]
      BY MPlexAssumption DEF Nodes, PhsOf
    <3>. QED BY <3>1
  <2>. QED BY <2>1, <2>2, <2>3 DEF FineLine
<1>2. \A n \in Nodes(q) : n \in Regions \cup {None}
  BY NodesAndMarks DEF FineLine
<1>3. \A n \in Nodes(q) : \A x : x # ph => (At(p, n, x) <=> At(q, n, x))
  BY <1>2 DEF At
<1>. QED BY <1>1, <1>2, <1>3 DEF Agree, InLine, Nodes

\* A node r is taken out of, or put into, the list of nodes, and what hangs
\* on it hangs at the end of what hangs on the node before.
LEMMA Spliced ==
    ASSUME NEW q, FineLine(q), NEW p, FineLine(p), NEW r \in Regions,
           r \in ToSet(q.mx), ToSet(p.mx) = ToSet(q.mx) \ {r},
           NEW prev \in Nodes(p),
           \A x, y : x # r /\ y # r =>
                (<<x, y>> \in Order(q.mx) <=> <<x, y>> \in Order(p.mx)),
           \A n \in Nodes(p) : Upto(q.mx, n, r) <=> Upto(q.mx, n, prev),
           PhsOf(p, prev) = PhsOf(q, prev) \o q.phs[r],
           \A n \in (Regions \cup {None}) \ {prev, r} : PhsOf(p, n) = PhsOf(q, n)
    PROVE  OnLine(p) = OnLine(q) /\ Agree(q, p, {r})
<1>1. /\ None \notin Regions /\ None \notin Marks /\ Regions \cap Marks = {}
      /\ ToSet(q.mx) \subseteq Regions /\ r # None /\ PhsOf(q, r) = q.phs[r]
      /\ \A n \in Regions \cup {None} :
            /\ PhsOf(q, n) \in Seq(Marks) /\ ToSet(PhsOf(q, n)) \subseteq Marks
            /\ PhsOf(p, n) \in Seq(Marks) /\ ToSet(PhsOf(p, n)) \subseteq Marks
  BY NodesAndMarks DEF FineLine, PhsOf
<1>2. /\ Nodes(p) = Nodes(q) \ {r} /\ r \in Nodes(q)
      /\ prev \in Regions \cup {None} /\ prev # r
      /\ \A n \in Nodes(q) : n \in Regions \cup {None}
  BY <1>1 DEF Nodes
<1>3. /\ ToSet(PhsOf(p, prev)) = ToSet(PhsOf(q, prev)) \cup ToSet(q.phs[r])
      /\ \A x, y : <<x, y>> \in Order(PhsOf(p, prev)) <=>
            \/ <<x, y>> \in Order(PhsOf(q, prev)) \/ <<x, y>> \in Order(q.phs[r])
            \/ x \in ToSet(PhsOf(q, prev)) /\ y \in ToSet(q.phs[r])
  <2>1. PhsOf(q, prev) \in Seq(Marks) /\ q.phs[r] \in Seq(Marks)
    BY <1>1, <1>2
  <2>. QED BY <2>1, ConcatElements
<1>4. p.phs[r] = <<>> /\ PhsOf(p, r) = <<>> /\ ToSet(PhsOf(p, r)) = {}
  <2>1. r \in Regions \ ToSet(p.mx)
    OBVIOUS
  <2>2. p.phs[r] = <<>>
    BY <2>1 DEF FineLine
  <2>3. PhsOf(p, r) = p.phs[r]
    BY <1>1 DEF PhsOf
  <2>4. ToSet(<<>>) = {}
    BY DEF ToSet
  <2>. QED BY <2>2, <2>3, <2>4
<1>5. \A x : (\E n \in Regions \cup {None} : x \in ToSet(PhsOf(p, n))) <=>
             (\E n \in Regions \cup {None} : x \in ToSet(PhsOf(q, n)))
  BY <1>1, <1>2, <1>3, <1>4
<1>6. OnLine(p) = OnLine(q)
  <2>1. /\ p.misc = PhsOf(p, None) /\ q.misc = PhsOf(q, None)
        /\ \A n \in Regions : p.phs[n] = PhsOf(p, n) /\ q.phs[n] = PhsOf(q, n)
    BY <1>1 DEF PhsOf
  <2>2. \A x : x \in OnLine(p) <=> \E n \in Regions \cup {None} : x \in ToSet(PhsOf(p, n))
    BY <2>1 DEF OnLine
  <2>3. \A x : x \in OnLine(q) <=> \E n \in Regions \cup {None} : x \in ToSet(PhsOf(q, n))
    BY <2>1 DEF OnLine
  <2>. QED BY <1>5, <2>2, <2>3
<1>7. \A x : x \notin {r} => (x \in ToSet(Line(q)) <=> x \in ToSet(Line(p)))
  <2>1. ToSet(Line(q)) = ToSet(q.mx) \cup OnLine(q)
    BY LineOf
  <2>2. ToSet(Line(p)) = ToSet(p.mx) \cup OnLine(p)
    BY LineOf
  <2>. QED BY <1>6, <2>1, <2>2
<1>8. /\ q.mx \in Seq(Regions) /\ IsInjective(q.mx)
      /\ \A x \in ToSet(q.mx) : <<x, x>> \in Order(q.mx)
      /\ \A x, y : <<x, y>> \in Order(q.mx) => x \in ToSet(q.mx) /\ y \in ToSet(q.mx)
      /\ \A x, y : <<x, y>> \in Order(q.mx) /\ <<y, x>> \in Order(q.mx) => x = y
      /\ \A x, y, z : <<x, y>> \in Order(q.mx) /\ <<y, z>> \in Order(q.mx)
                       => <<x, z>> \in Order(q.mx)
  <2>1. q.mx \in Seq(Regions) /\ IsInjective(q.mx)
    BY DEF FineLine, Fields
  <2>. QED BY <2>1, OrderIsTotal
<1>9. /\ \A n, o \in Nodes(p) : Upto(q.mx, n, o) <=> Upto(p.mx, n, o)
      /\ \A n \in Nodes(q) : Upto(q.mx, n, n)
      /\ \A n, o \in Nodes(q) : Upto(q.mx, n, o) /\ Upto(q.mx, o, n) => n = o
      /\ \A n, o, k \in Nodes(q) : Upto(q.mx, n, o) /\ Upto(q.mx, o, k)
                                    => Upto(q.mx, n, k)
  BY <1>1, <1>2, <1>8 DEF Upto, Nodes
<1>10. Upto(q.mx, prev, r) /\ ~Upto(q.mx, r, prev)
  BY <1>2, <1>9
<1>. DEFINE onto(n) == IF n = r THEN prev ELSE n
<1>11. \A n \in Nodes(q) : \A x : x # r /\ At(q, n, x) => At(p, onto(n), x)
  BY <1>1, <1>2, <1>3 DEF At
<1>12. ASSUME NEW x, NEW y, x \notin {r}, y \notin {r}, InLine(q, x, y)
       PROVE  InLine(p, x, y)
  <2>1. PICK n, o \in Nodes(q) :
            /\ At(q, n, x) /\ At(q, o, y)
            /\ \/ n = o /\ (x = n \/ <<x, y>> \in Order(PhsOf(q, n)))
               \/ n # o /\ Upto(q.mx, n, o)
    BY <1>12 DEF InLine
  <2>2. /\ onto(n) \in Nodes(p) /\ onto(o) \in Nodes(p)
        /\ At(p, onto(n), x) /\ At(p, onto(o), y)
    BY <1>2, <1>11, <1>12, <2>1
  <2>3. CASE n = o
    <3>1. x = onto(n) \/ <<x, y>> \in Order(PhsOf(p, onto(n)))
      BY <1>1, <1>2, <1>3, <1>12, <2>1, <2>3
    <3>. QED BY <2>2, <2>3, <3>1 DEF InLine
  <2>4. CASE n # o /\ n = r
    <3>1. o # prev /\ Upto(q.mx, prev, o)
      BY <1>2, <1>9, <1>10, <2>1, <2>4
    <3>2. onto(n) # onto(o) /\ Upto(p.mx, onto(n), onto(o))
      BY <1>2, <1>9, <2>1, <2>4, <3>1
    <3>. HIDE DEF onto
    <3>. QED BY <2>2, <3>2 DEF InLine
  <2>5. CASE n # o /\ o = r
    <3>1. Upto(q.mx, n, prev) /\ onto(n) = n /\ onto(o) = prev
      BY <1>2, <2>1, <2>5
    <3>2. CASE n = prev
      <4>1. y \in ToSet(q.phs[r])
        BY <1>1, <1>12, <2>1, <2>5 DEF At
      <4>2. x = prev \/ x \in ToSet(PhsOf(q, prev))
        BY <2>1, <3>2 DEF At
      <4>3. x = prev \/ <<x, y>> \in Order(PhsOf(p, prev))
        BY <1>3, <4>1, <4>2
      <4>. HIDE DEF onto
      <4>. QED BY <2>2, <3>1, <3>2, <4>3 DEF InLine
    <3>3. CASE n # prev
      <4>1. Upto(p.mx, n, prev)
        BY <1>2, <1>9, <2>1, <2>5, <3>1
      <4>. HIDE DEF onto
      <4>. QED BY <2>2, <3>1, <3>3, <4>1 DEF InLine
    <3>. QED BY <3>2, <3>3
  <2>6. CASE n # o /\ n # r /\ o # r
    <3>1. n \in Nodes(p) /\ o \in Nodes(p) /\ Upto(p.mx, n, o)
          /\ onto(n) = n /\ onto(o) = o
      BY <1>2, <1>9, <2>1, <2>6
    <3>. HIDE DEF onto
    <3>. QED BY <2>2, <2>6, <3>1 DEF InLine
  <2>. QED BY <2>3, <2>4, <2>5, <2>6
<1>. QED BY <1>6, <1>7, <1>12, AgreeOneWay

-----------------------------------------------------------------------------
(* What the operations do to the line.                                     *)

LEMMA MovePhsIs ==
    ASSUME NEW q, Fields(q), NEW from \in Regions, NEW to \in Regions \cup {None},
           from # to
    PROVE  /\ Fields(MovePhs(q, from, to)) /\ MovePhs(q, from, to).mx = q.mx
           /\ SameShown(q, MovePhs(q, from, to))
           /\ PhsOf(MovePhs(q, from, to), from) = <<>>
           /\ PhsOf(MovePhs(q, from, to), to) = PhsOf(q, to) \o q.phs[from]
           /\ \A n \in (Regions \cup {None}) \ {from, to} :
                PhsOf(MovePhs(q, from, to), n) = PhsOf(q, n)
<1>. DEFINE o == WithPhs(q, from, <<>>)
            s == PhsOf(q, to) \o q.phs[from]
<1>1. <<>> \in Seq(Marks) /\ s \in Seq(Marks)
  <2>1. PhsOf(q, to) \in Seq(Marks) /\ q.phs[from] \in Seq(Marks)
    BY DEF Fields, PhsOf
  <2>. QED BY <2>1
<1>. HIDE DEF s
<1>2. /\ Fields(o) /\ o.mx = q.mx /\ SameShown(q, o) /\ PhsOf(o, from) = <<>>
      /\ \A n \in (Regions \cup {None}) \ {from} : PhsOf(o, n) = PhsOf(q, n)
  <2>1. from \in Regions \cup {None} /\ <<>> \in Seq(Marks)
    OBVIOUS
  <2>2. Fields(o) /\ o.mx = q.mx /\ SameShown(q, o)
    BY <2>1, WithPhsIs
  <2>. DEFINE none == <<>>
  <2>. HIDE DEF none
  <2>3. none \in Seq(Marks)
    BY <2>1 DEF none
  <2>4. /\ PhsOf(WithPhs(q, from, none), from) = none
        /\ \A n \in (Regions \cup {None}) \ {from} :
              PhsOf(WithPhs(q, from, none), n) = PhsOf(q, n)
    BY <2>1, <2>3, WithPhsIs
  <2>5. o = WithPhs(q, from, none)
    BY DEF none
  <2>. HIDE DEF o
  <2>. QED BY <2>2, <2>4, <2>5 DEF none
<1>. HIDE DEF o
<1>. DEFINE p == WithPhs(o, to, s)
<1>3. /\ Fields(p) /\ p.mx = o.mx /\ SameShown(o, p) /\ PhsOf(p, to) = s
      /\ \A n \in (Regions \cup {None}) \ {to} : PhsOf(p, n) = PhsOf(o, n)
  BY <1>1, <1>2, WithPhsIs
<1>4. MovePhs(q, from, to) = p
  BY DEF MovePhs, o, s
<1>. HIDE DEF p
<1>5. SameShown(q, p)
  BY <1>2, <1>3 DEF SameShown
<1>. QED BY <1>2, <1>3, <1>4, <1>5 DEF s

\* Nothing but r comes, goes or moves.
OnlyMoves(q, p, r) == OnLine(p) = OnLine(q) /\ Agree(q, p, {r})

\* The node r is taken out, or put in.
TakenOut(q, p, r) ==
    /\ FineLine(p) /\ OnlyMoves(q, p, r)
    /\ ToSet(p.mx) = ToSet(q.mx) \ {r} /\ p.phs[r] = <<>>
PutIn(q, p, r) ==
    FineLine(p) /\ OnlyMoves(q, p, r) /\ ToSet(p.mx) = ToSet(q.mx) \cup {r}

\* A node is taken out, as by mplex_managed_remove and mplex_set_index.
LEMMA NodeOut ==
    ASSUME NEW q, FineLine(q), NEW r \in ToSet(q.mx), NEW p, Fields(p),
           p.mx = Unlink(q.mx, r), p.misc = MovePhsBefore(q, r).misc,
           p.phs = MovePhsBefore(q, r).phs
    PROVE  TakenOut(q, p, r)
<1>. DEFINE prev == Previous(q.mx, r)
            o == MovePhsBefore(q, r)
<1>1. /\ Fields(q) /\ q.mx \in Seq(Regions) /\ IsInjective(q.mx)
      /\ None \notin Regions /\ r \in Regions /\ ToSet(q.mx) \subseteq Regions
  BY NodesAndMarks DEF FineLine, Fields
<1>2. /\ prev \in (ToSet(q.mx) \ {r}) \cup {None}
      /\ \A n \in (ToSet(q.mx) \ {r}) \cup {None} :
            Upto(q.mx, n, r) <=> Upto(q.mx, n, prev)
  BY <1>1, PreviousIsNext
<1>3. /\ PhsOf(o, r) = <<>>
      /\ PhsOf(o, prev) = PhsOf(q, prev) \o q.phs[r]
      /\ \A n \in (Regions \cup {None}) \ {r, prev} : PhsOf(o, n) = PhsOf(q, n)
  <2>1. prev \in Regions \cup {None} /\ r # prev
    BY <1>1, <1>2
  <2>2. o = MovePhs(q, r, prev)
    BY DEF MovePhsBefore
  <2>. HIDE DEF o, prev
  <2>3. PhsOf(o, r) = <<>>
    BY <1>1, <2>1, <2>2, MovePhsIs
  <2>4. PhsOf(o, prev) = PhsOf(q, prev) \o q.phs[r]
    BY <1>1, <2>1, <2>2, MovePhsIs
  <2>5. \A n \in (Regions \cup {None}) \ {r, prev} : PhsOf(o, n) = PhsOf(q, n)
    BY <1>1, <2>1, <2>2, MovePhsIs
  <2>. QED BY <2>3, <2>4, <2>5
<1>4. /\ ToSet(p.mx) = ToSet(q.mx) \ {r} /\ IsInjective(p.mx)
      /\ \A x, y : <<x, y>> \in Order(p.mx) <=>
            <<x, y>> \in Order(q.mx) /\ x # r /\ y # r
  <2>. DEFINE mx == q.mx
              u == Unlink(mx, r)
  <2>1. mx \in Seq(Regions) /\ IsInjective(mx) /\ r \in ToSet(mx)
    BY <1>1
  <2>. HIDE DEF mx
  <2>2. /\ ToSet(u) = ToSet(mx) \ {r} /\ IsInjective(u)
        /\ \A x, y : <<x, y>> \in Order(u) <=>
              <<x, y>> \in Order(mx) /\ x # r /\ y # r
    BY <2>1, UnlinkOrder
  <2>. HIDE DEF u
  <2>3. p.mx = u
    BY DEF mx, u
  <2>. QED BY <2>2, <2>3 DEF mx
<1>5. \A n \in Regions \cup {None} : PhsOf(p, n) = PhsOf(o, n)
  BY DEF PhsOf
<1>. HIDE DEF prev, o
<1>6. /\ \A n \in Regions \cup {None} : IsInjective(PhsOf(q, n))
      /\ \A n, k \in Regions \cup {None} : n # k =>
            ToSet(PhsOf(q, n)) \cap ToSet(PhsOf(q, k)) = {}
      /\ \A n \in Regions \ ToSet(q.mx) : q.phs[n] = <<>>
  BY DEF FineLine
<1>7. q.phs[r] = PhsOf(q, r)
  BY <1>1 DEF PhsOf
<1>8. /\ IsInjective(PhsOf(p, prev))
      /\ ToSet(PhsOf(p, prev)) = ToSet(PhsOf(q, prev)) \cup ToSet(PhsOf(q, r))
  <2>1. PhsOf(q, prev) \in Seq(Marks) /\ PhsOf(q, r) \in Seq(Marks)
        /\ prev \in Regions \cup {None} /\ prev # r
    BY <1>1, <1>2, NodesAndMarks
  <2>2. PhsOf(p, prev) = PhsOf(q, prev) \o PhsOf(q, r)
    BY <1>3, <1>5, <1>7, <2>1
  <2>3. /\ IsInjective(PhsOf(q, prev)) /\ IsInjective(PhsOf(q, r))
        /\ ToSet(PhsOf(q, prev)) \cap ToSet(PhsOf(q, r)) = {}
    BY <1>1, <1>6, <2>1
  <2>. QED BY <2>1, <2>2, <2>3, ConcatElements
<1>9. PhsOf(p, r) = <<>> /\ ToSet(PhsOf(p, r)) = {} /\ IsInjective(PhsOf(p, r))
  BY <1>1, <1>3, <1>5 DEF ToSet, IsInjective
<1>10. \A n \in (Regions \cup {None}) \ {r, prev} : PhsOf(p, n) = PhsOf(q, n)
  BY <1>3, <1>5
<1>11. FineLine(p)
  <2>1. ASSUME NEW n \in Regions \cup {None}
        PROVE  /\ IsInjective(PhsOf(p, n))
               /\ \A k \in (Regions \cup {None}) \ {n} :
                    ToSet(PhsOf(p, n)) \cap ToSet(PhsOf(p, k)) = {}
    <3>. DEFINE S(k) == ToSet(PhsOf(p, k))
                R(k) == ToSet(PhsOf(q, k))
    <3>1. IsInjective(PhsOf(p, n))
      BY <1>6, <1>8, <1>9, <1>10
    <3>2. /\ \A k \in Regions \cup {None} : S(k) = IF k = r THEN {}
                  ELSE IF k = prev THEN R(prev) \cup R(r) ELSE R(k)
          /\ \A k, h \in Regions \cup {None} : k # h => R(k) \cap R(h) = {}
          /\ prev \in Regions \cup {None} /\ prev # r
      BY <1>1, <1>2, <1>6, <1>8, <1>9, <1>10
    <3>. HIDE DEF S, R
    <3>3. \A k \in (Regions \cup {None}) \ {n} : S(n) \cap S(k) = {}
      BY <1>1, <3>2
    <3>. QED BY <3>1, <3>3 DEF S
  <2>2. ASSUME NEW n \in Regions \ ToSet(p.mx) PROVE p.phs[n] = <<>>
    <3>1. p.phs[n] = PhsOf(p, n) /\ q.phs[n] = PhsOf(q, n)
      BY <1>1 DEF PhsOf
    <3>2. n = r \/ (n # prev /\ n \in Regions \ ToSet(q.mx))
      BY <1>1, <1>2, <1>4
    <3>. QED BY <1>6, <1>9, <1>10, <3>1, <3>2
  <2>. QED BY <1>4, <2>1, <2>2 DEF FineLine
<1>12. OnLine(p) = OnLine(q) /\ Agree(q, p, {r})
  <2>1. Nodes(p) = (ToSet(q.mx) \ {r}) \cup {None}
    BY <1>4 DEF Nodes
  <2>2. prev \in Nodes(p) /\ prev \in Regions \cup {None} /\ prev # r
    BY <1>1, <1>2, <2>1
  <2>3. PhsOf(p, prev) = PhsOf(q, prev) \o q.phs[r]
    BY <1>3, <1>5, <2>2
  <2>4. \A n \in Nodes(p) : Upto(q.mx, n, r) <=> Upto(q.mx, n, prev)
    BY <1>2, <2>1
  <2>5. \A x, y : x # r /\ y # r =>
                (<<x, y>> \in Order(q.mx) <=> <<x, y>> \in Order(p.mx))
    BY <1>4
  <2>. QED BY <1>1, <1>4, <1>10, <1>11, <2>2, <2>3, <2>4, <2>5, Spliced
<1>13. p.phs[r] = <<>>
  BY <1>1, <1>9 DEF PhsOf
<1>. QED BY <1>4, <1>11, <1>12, <1>13 DEF TakenOut, OnlyMoves

\* A node is linked after prev, and takes the last of what hangs there.
LEMMA NodeIn ==
    ASSUME NEW q, FineLine(q), NEW r \in Regions \ ToSet(q.mx), NEW prev \in Nodes(q),
           NEW p, Fields(p), p.mx = LinkAfter(q.mx, prev, r),
           PhsOf(p, prev) \o p.phs[r] = PhsOf(q, prev),
           \A n \in (Regions \cup {None}) \ {prev, r} : PhsOf(p, n) = PhsOf(q, n)
    PROVE  PutIn(q, p, r)
<1>1. /\ Fields(q) /\ q.mx \in Seq(Regions) /\ IsInjective(q.mx)
      /\ None \notin Regions /\ ToSet(q.mx) \subseteq Regions
      /\ prev \in ToSet(q.mx) \cup {None} /\ prev # r /\ prev \in Regions \cup {None}
  BY NodesAndMarks DEF FineLine, Fields, Nodes
<1>2. /\ ToSet(p.mx) = ToSet(q.mx) \cup {r} /\ IsInjective(p.mx)
      /\ \A x, y : x # r /\ y # r =>
            (<<x, y>> \in Order(p.mx) <=> <<x, y>> \in Order(q.mx))
      /\ \A n \in ToSet(q.mx) \cup {None} : Upto(p.mx, n, r) <=> Upto(p.mx, n, prev)
  BY <1>1, LinkAfterOrder
<1>3. /\ \A n \in Regions \cup {None} : IsInjective(PhsOf(q, n))
      /\ \A n, k \in Regions \cup {None} : n # k =>
            ToSet(PhsOf(q, n)) \cap ToSet(PhsOf(q, k)) = {}
      /\ \A n \in Regions \ ToSet(q.mx) : q.phs[n] = <<>>
  BY DEF FineLine
<1>4. p.phs[r] = PhsOf(p, r) /\ q.phs[r] = PhsOf(q, r)
  BY <1>1 DEF PhsOf
<1>5. /\ IsInjective(PhsOf(p, prev)) /\ IsInjective(PhsOf(p, r))
      /\ ToSet(PhsOf(p, prev)) \cap ToSet(PhsOf(p, r)) = {}
      /\ ToSet(PhsOf(q, prev)) = ToSet(PhsOf(p, prev)) \cup ToSet(PhsOf(p, r))
  <2>1. PhsOf(p, prev) \in Seq(Marks) /\ PhsOf(p, r) \in Seq(Marks)
    BY <1>1, NodesAndMarks
  <2>2. PhsOf(q, prev) = PhsOf(p, prev) \o PhsOf(p, r) /\ IsInjective(PhsOf(q, prev))
    BY <1>1, <1>3, <1>4
  <2>. QED BY <2>1, <2>2, ConcatElements
<1>6. PhsOf(q, r) = <<>> /\ ToSet(PhsOf(q, r)) = {}
  <2>1. PhsOf(q, r) = <<>>
    BY <1>3, <1>4
  <2>. QED BY <2>1 DEF ToSet
<1>7. FineLine(p)
  <2>1. ASSUME NEW n \in Regions \cup {None}
        PROVE  /\ IsInjective(PhsOf(p, n))
               /\ \A k \in (Regions \cup {None}) \ {n} :
                    ToSet(PhsOf(p, n)) \cap ToSet(PhsOf(p, k)) = {}
    <3>. DEFINE S(k) == ToSet(PhsOf(p, k))
                R(k) == ToSet(PhsOf(q, k))
    <3>1. IsInjective(PhsOf(p, n))
      BY <1>3, <1>5
    <3>2. /\ \A k \in (Regions \cup {None}) \ {prev, r} : S(k) = R(k)
          /\ R(prev) = S(prev) \cup S(r) /\ S(prev) \cap S(r) = {}
          /\ \A k, h \in Regions \cup {None} : k # h => R(k) \cap R(h) = {}
      BY <1>3, <1>5
    <3>. HIDE DEF S, R
    <3>3. \A k \in (Regions \cup {None}) \ {n} : S(n) \cap S(k) = {}
      BY <1>1, <3>2
    <3>. QED BY <3>1, <3>3 DEF S
  <2>2. ASSUME NEW n \in Regions \ ToSet(p.mx) PROVE p.phs[n] = <<>>
    <3>1. p.phs[n] = PhsOf(p, n) /\ q.phs[n] = PhsOf(q, n)
      BY <1>1 DEF PhsOf
    <3>2. n \in Regions \ ToSet(q.mx) /\ n # r /\ n # prev
      BY <1>1, <1>2
    <3>. QED BY <1>3, <3>1, <3>2
  <2>. QED BY <1>2, <2>1, <2>2 DEF FineLine
<1>8. OnLine(q) = OnLine(p) /\ Agree(p, q, {r})
  <2>1. /\ prev \in Nodes(q) /\ r \in ToSet(p.mx)
        /\ ToSet(q.mx) = ToSet(p.mx) \ {r}
    BY <1>2
  <2>2. PhsOf(q, prev) = PhsOf(p, prev) \o p.phs[r]
    OBVIOUS
  <2>3. \A n \in Nodes(q) : Upto(p.mx, n, r) <=> Upto(p.mx, n, prev)
    BY <1>2 DEF Nodes
  <2>4. \A n \in (Regions \cup {None}) \ {prev, r} : PhsOf(q, n) = PhsOf(p, n)
    OBVIOUS
  <2>5. \A x, y : x # r /\ y # r =>
                (<<x, y>> \in Order(p.mx) <=> <<x, y>> \in Order(q.mx))
    BY <1>2
  <2>. QED BY <1>7, <2>1, <2>2, <2>3, <2>4, <2>5, Spliced
<1>. QED BY <1>2, <1>7, <1>8 DEF Agree, PutIn, OnlyMoves

\* A placeholder is linked.
LEMMA LinkLine ==
    ASSUME NEW q, FineLine(q), NEW ph \in Marks, ph \notin OnLine(q),
           NEW node \in Nodes(q), NEW after \in ToSet(PhsOf(q, node)) \cup {None}
    PROVE  /\ FineLine(Link(q, ph, after, node))
           /\ Link(q, ph, after, node).mx = q.mx
           /\ SameShown(q, Link(q, ph, after, node))
           /\ OnLine(Link(q, ph, after, node)) = OnLine(q) \cup {ph}
           /\ Agree(q, Link(q, ph, after, node), {ph})
<1>. DEFINE s == PhsOf(q, node)
            t == LinkAfter(s, after, ph)
            p == WithPhs(q, node, t)
<1>1. /\ Fields(q) /\ node \in Regions \cup {None} /\ s \in Seq(Marks)
      /\ ToSet(s) \subseteq Marks /\ None \notin Marks /\ None \notin Regions
  BY NodesAndMarks DEF FineLine
<1>2. \A x : x \in OnLine(q) <=> \E n \in Regions \cup {None} : x \in ToSet(PhsOf(q, n))
  BY <1>1 DEF OnLine, PhsOf
<1>3. IsInjective(s) /\ ph \notin ToSet(s)
  BY <1>1, <1>2 DEF FineLine
<1>4. Link(q, ph, after, node) = p
  <2>1. ASSUME after = None PROVE InsertAt(s, 0 + 1, ph) = <<ph>> \o s
    <3>1. InsertAt(s, 1, ph) = SubSeq(s, 1, 1 - 1) \o <<ph>> \o SubSeq(s, 1, Len(s))
      BY DEF InsertAt
    <3>2. SubSeq(s, 1, 1 - 1) = <<>> /\ SubSeq(s, 1, Len(s)) = s
      <4>1. 1 \in 1 .. Len(s) + 1
        BY <1>1
      <4>2. /\ SubSeq(s, 1, 1 - 1) \in Seq(Marks) /\ SubSeq(s, 1, Len(s)) \in Seq(Marks)
            /\ s = SubSeq(s, 1, 1 - 1) \o SubSeq(s, 1, Len(s))
            /\ Len(SubSeq(s, 1, 1 - 1)) = 1 - 1
        BY <1>1, <4>1, Pieces
      <4>. DEFINE a == SubSeq(s, 1, 1 - 1)
                  b == SubSeq(s, 1, Len(s))
      <4>. HIDE DEF a, b
      <4>3. a \in Seq(Marks) /\ b \in Seq(Marks) /\ s = a \o b /\ Len(a) = 0
        BY <4>2 DEF a, b
      <4>4. a = <<>> /\ b = s
        BY <4>3
      <4>. QED BY <4>4 DEF a, b
    <3>. QED BY <3>1, <3>2
  <2>2. CASE after = None
    BY <2>1, <2>2 DEF Link, LinkAfter
  <2>3. CASE after # None
    BY <2>3 DEF Link, LinkAfter
  <2>. QED BY <2>2, <2>3
<1>. HIDE DEF s
<1>5. /\ t \in Seq(Marks) /\ IsInjective(t) /\ ToSet(t) = ToSet(s) \cup {ph}
      /\ \A x, y : x # ph /\ y # ph =>
            (<<x, y>> \in Order(t) <=> <<x, y>> \in Order(s))
  <2>1. after \in ToSet(s) \cup {None}
    BY DEF s
  <2>. QED BY <1>1, <1>3, <2>1, LinkAfterOrder
<1>. HIDE DEF t
<1>6. /\ Fields(p) /\ p.mx = q.mx /\ SameShown(q, p) /\ PhsOf(p, node) = t
      /\ \A n \in (Regions \cup {None}) \ {node} : PhsOf(p, n) = PhsOf(q, n)
  BY <1>1, <1>5, WithPhsIs
<1>. HIDE DEF p
<1>7. FineLine(p) /\ Agree(q, p, {ph})
  <2>1. ASSUME NEW n \in Regions \cup {None}
        PROVE  /\ IsInjective(PhsOf(p, n))
               /\ \A x : x # ph =>
                     (x \in ToSet(PhsOf(p, n)) <=> x \in ToSet(PhsOf(q, n)))
               /\ \A x, y : x # ph /\ y # ph =>
                     (<<x, y>> \in Order(PhsOf(p, n)) <=> <<x, y>> \in Order(PhsOf(q, n)))
               /\ \A o \in Regions \cup {None} :
                     ph \in ToSet(PhsOf(p, n)) /\ ph \in ToSet(PhsOf(p, o)) => n = o
               /\ n \notin Nodes(q) => PhsOf(p, n) = <<>>
    <3>1. CASE n = node
      BY <1>2, <1>5, <1>6, <3>1 DEF s
    <3>2. CASE n # node
      <4>1. PhsOf(p, n) = PhsOf(q, n) /\ IsInjective(PhsOf(q, n))
            /\ ph \notin ToSet(PhsOf(q, n))
        BY <1>2, <1>6, <3>2 DEF FineLine
      <4>2. n \notin Nodes(q) => PhsOf(q, n) = <<>>
        BY <1>1 DEF Nodes, FineLine, PhsOf
      <4>. QED BY <4>1, <4>2
    <3>. QED BY <3>1, <3>2
  <2>. QED BY <1>6, <2>1, PhsChange
<1>8. OnLine(p) = OnLine(q) \cup {ph}
  <2>1. \A x : x \in OnLine(p) <=> \E n \in Regions \cup {None} : x \in ToSet(PhsOf(p, n))
    BY <1>1 DEF OnLine, PhsOf
  <2>2. \A x : x \in OnLine(p) <=> x \in OnLine(q) \cup {ph}
    BY <1>1, <1>2, <1>5, <1>6, <2>1 DEF s
  <2>. QED BY <2>2
<1>. QED BY <1>4, <1>6, <1>7, <1>8

\* A placeholder is unlinked.
LEMMA UnlinkedLine ==
    ASSUME NEW q, FineLine(q), NEW ph \in Marks
    PROVE  /\ FineLine(Unlinked(q, ph)) /\ Unlinked(q, ph).mx = q.mx
           /\ SameShown(q, Unlinked(q, ph))
           /\ OnLine(Unlinked(q, ph)) = OnLine(q) \ {ph}
           /\ Agree(q, Unlinked(q, ph), {ph})
<1>. DEFINE p == Unlinked(q, ph)
<1>1. /\ Fields(q) /\ None \notin Regions
      /\ \A n \in Regions \cup {None} : PhsOf(q, n) \in Seq(Marks)
  BY NodesAndMarks DEF FineLine
<1>2. \A s \in Seq(Marks) : Dropping(s, {ph}) \in Seq(Marks)
  BY DroppingElements
<1>3. /\ p.misc = Dropping(q.misc, {ph})
      /\ p.phs = [n \in Regions |-> Dropping(q.phs[n], {ph})]
      /\ p.mx = q.mx /\ SameShown(q, p)
  BY <1>1 DEF Unlinked, Fields, SameShown
<1>4. Fields(p)
  <2>1. Dropping(q.misc, {ph}) \in Seq(Marks)
    BY <1>1, <1>2 DEF Fields
  <2>2. [n \in Regions |-> Dropping(q.phs[n], {ph})] \in [Regions -> Seq(Marks)]
    <3>1. ASSUME NEW n \in Regions PROVE Dropping(q.phs[n], {ph}) \in Seq(Marks)
      BY <1>1, <1>2 DEF Fields
    <3>. QED BY <3>1
  <2>. QED BY <1>1, <2>1, <2>2 DEF Fields, Unlinked
<1>5. \A n \in Regions \cup {None} : PhsOf(p, n) = Dropping(PhsOf(q, n), {ph})
  BY <1>1, <1>3 DEF PhsOf
<1>. HIDE DEF p
<1>6. ASSUME NEW n \in Regions \cup {None}
      PROVE  /\ IsInjective(PhsOf(p, n))
             /\ ToSet(PhsOf(p, n)) = ToSet(PhsOf(q, n)) \ {ph}
             /\ \A x, y : <<x, y>> \in Order(PhsOf(p, n)) <=>
                    <<x, y>> \in Order(PhsOf(q, n)) /\ x # ph /\ y # ph
  <2>. DEFINE s == PhsOf(q, n)
              t == Dropping(s, {ph})
  <2>1. s \in Seq(Marks) /\ IsInjective(s) /\ PhsOf(p, n) = t
    BY <1>1, <1>5 DEF FineLine
  <2>. HIDE DEF s
  <2>2. IsInjective(t) /\ ToSet(t) = ToSet(s) \ {ph}
    BY <2>1, DroppingElements
  <2>3. \A x, y : <<x, y>> \in Order(t) <=> <<x, y>> \in Order(s) /\ x # ph /\ y # ph
    <3>1. \A x, y : <<x, y>> \in Order(t) <=>
                <<x, y>> \in Order(s) /\ x \notin {ph} /\ y \notin {ph}
      BY <2>1, DroppingOrder
    <3>. HIDE DEF t
    <3>. QED BY <3>1
  <2>. HIDE DEF t
  <2>. QED BY <2>1, <2>2, <2>3 DEF s
<1>7. FineLine(p) /\ Agree(q, p, {ph})
  <2>1. ASSUME NEW n \in Regions \cup {None}
        PROVE  n \notin Nodes(q) => PhsOf(p, n) = <<>>
    <3>. SUFFICES ASSUME n \notin Nodes(q) PROVE PhsOf(p, n) = <<>>
      OBVIOUS
    <3>1. PhsOf(q, n) = <<>>
      BY <1>1 DEF Nodes, FineLine, PhsOf
    <3>2. PhsOf(p, n) \in Seq(Marks) /\ ToSet(PhsOf(p, n)) = {}
      <4>1. PhsOf(p, n) \in Seq(Marks)
        BY <1>1, <1>2, <1>5
      <4>2. ToSet(PhsOf(p, n)) = ToSet(<<>>) \ {ph}
        BY <1>6, <3>1
      <4>. QED BY <4>1, <4>2 DEF ToSet
    <3>. DEFINE t == PhsOf(p, n)
    <3>. HIDE DEF t
    <3>3. t \in Seq(Marks) /\ ToSet(t) = {}
      BY <3>2 DEF t
    <3>4. t = <<>>
      BY <3>3 DEF ToSet
    <3>. QED BY <3>4 DEF t
  <2>. QED BY <1>3, <1>4, <1>6, <2>1, PhsChange
<1>8. OnLine(p) = OnLine(q) \ {ph}
  <2>1. /\ \A x : x \in OnLine(p) <=> \E n \in Regions \cup {None} : x \in ToSet(PhsOf(p, n))
        /\ \A x : x \in OnLine(q) <=> \E n \in Regions \cup {None} : x \in ToSet(PhsOf(q, n))
    BY <1>1 DEF OnLine, PhsOf
  <2>2. \A x : x \in OnLine(p) <=> x \in OnLine(q) \ {ph}
    BY <1>6, <2>1
  <2>. QED BY <2>2
<1>. QED BY <1>3, <1>7, <1>8 DEF p

\* The placeholders of a node are moved before all nodes, from where those of
\* the nodes before it are already.
LEMMA MovedFirst ==
    ASSUME NEW q, FineLine(q), NEW c \in ToSet(q.mx),
           \A o \in ToSet(q.mx) \ {c} : <<o, c>> \in Order(q.mx) => q.phs[o] = <<>>
    PROVE  /\ FineLine(MovePhs(q, c, None))
           /\ OnLine(MovePhs(q, c, None)) = OnLine(q)
           /\ Agree(q, MovePhs(q, c, None), Regions)
<1>. DEFINE p == MovePhs(q, c, None)
<1>1. /\ Fields(q) /\ q.mx \in Seq(Regions) /\ IsInjective(q.mx)
      /\ None \notin Regions /\ None \notin Marks /\ c \in Regions
      /\ ToSet(q.mx) \subseteq Regions
      /\ \A n \in Regions \cup {None} :
            PhsOf(q, n) \in Seq(Marks) /\ ToSet(PhsOf(q, n)) \subseteq Marks
  BY NodesAndMarks DEF FineLine, Fields
<1>2. /\ Fields(p) /\ p.mx = q.mx /\ PhsOf(p, c) = <<>>
      /\ PhsOf(p, None) = PhsOf(q, None) \o PhsOf(q, c)
      /\ \A n \in (Regions \cup {None}) \ {c, None} : PhsOf(p, n) = PhsOf(q, n)
  <2>1. q.phs[c] = PhsOf(q, c) /\ c # None /\ c \in Regions
        /\ None \in Regions \cup {None} /\ Fields(q)
    BY <1>1 DEF PhsOf
  <2>2. /\ Fields(p) /\ p.mx = q.mx /\ PhsOf(p, c) = <<>>
        /\ PhsOf(p, None) = PhsOf(q, None) \o q.phs[c]
        /\ \A n \in (Regions \cup {None}) \ {c, None} : PhsOf(p, n) = PhsOf(q, n)
    BY <2>1, MovePhsIs
  <2>. HIDE DEF p
  <2>. QED BY <2>1, <2>2
<1>. HIDE DEF p
<1>3. /\ \A n \in Regions \cup {None} : IsInjective(PhsOf(q, n))
      /\ \A n, k \in Regions \cup {None} : n # k =>
            ToSet(PhsOf(q, n)) \cap ToSet(PhsOf(q, k)) = {}
      /\ \A n \in Regions \ ToSet(q.mx) : q.phs[n] = <<>>
  BY DEF FineLine
<1>4. /\ IsInjective(PhsOf(p, None))
      /\ ToSet(PhsOf(p, None)) = ToSet(PhsOf(q, None)) \cup ToSet(PhsOf(q, c))
      /\ \A x, y : <<x, y>> \in Order(PhsOf(p, None)) <=>
            \/ <<x, y>> \in Order(PhsOf(q, None)) \/ <<x, y>> \in Order(PhsOf(q, c))
            \/ x \in ToSet(PhsOf(q, None)) /\ y \in ToSet(PhsOf(q, c))
  <2>1. PhsOf(q, None) \in Seq(Marks) /\ PhsOf(q, c) \in Seq(Marks)
        /\ IsInjective(PhsOf(q, None)) /\ IsInjective(PhsOf(q, c))
        /\ ToSet(PhsOf(q, None)) \cap ToSet(PhsOf(q, c)) = {}
    BY <1>1, <1>3
  <2>. QED BY <1>2, <2>1, ConcatElements
<1>5. IsInjective(PhsOf(p, c)) /\ ToSet(PhsOf(p, c)) = {}
  BY <1>2 DEF ToSet, IsInjective
<1>6. FineLine(p)
  <2>1. ASSUME NEW n \in Regions \cup {None}
        PROVE  /\ IsInjective(PhsOf(p, n))
               /\ \A k \in (Regions \cup {None}) \ {n} :
                    ToSet(PhsOf(p, n)) \cap ToSet(PhsOf(p, k)) = {}
    <3>. DEFINE S(k) == ToSet(PhsOf(p, k))
                R(k) == ToSet(PhsOf(q, k))
    <3>1. IsInjective(PhsOf(p, n))
      BY <1>2, <1>3, <1>4, <1>5
    <3>2. /\ \A k \in Regions \cup {None} : S(k) = IF k = c THEN {}
                  ELSE IF k = None THEN R(None) \cup R(c) ELSE R(k)
          /\ \A k, h \in Regions \cup {None} : k # h => R(k) \cap R(h) = {}
          /\ c \in Regions \cup {None} /\ c # None
      BY <1>1, <1>2, <1>3, <1>4, <1>5
    <3>. HIDE DEF S, R
    <3>3. \A k \in (Regions \cup {None}) \ {n} : S(n) \cap S(k) = {}
      BY <1>1, <3>2
    <3>. QED BY <3>1, <3>3 DEF S
  <2>2. ASSUME NEW n \in Regions \ ToSet(p.mx) PROVE p.phs[n] = <<>>
    <3>1. p.phs[n] = PhsOf(p, n) /\ q.phs[n] = PhsOf(q, n)
      BY <1>1 DEF PhsOf
    <3>2. n \in Regions \ ToSet(q.mx) /\ n # c /\ n # None
      BY <1>1, <1>2
    <3>. QED BY <1>2, <1>3, <3>1, <3>2
  <2>. QED BY <1>1, <1>2, <2>1, <2>2 DEF FineLine
<1>7. OnLine(p) = OnLine(q)
  <2>1. /\ \A x : x \in OnLine(p) <=> \E n \in Regions \cup {None} : x \in ToSet(PhsOf(p, n))
        /\ \A x : x \in OnLine(q) <=> \E n \in Regions \cup {None} : x \in ToSet(PhsOf(q, n))
    BY <1>1 DEF OnLine, PhsOf
  <2>2. \A x : (\E n \in Regions \cup {None} : x \in ToSet(PhsOf(p, n))) <=>
               (\E n \in Regions \cup {None} : x \in ToSet(PhsOf(q, n)))
    BY <1>1, <1>2, <1>4, <1>5
  <2>. QED BY <2>1, <2>2
<1>8. \A x : x \notin Regions => (x \in ToSet(Line(q)) <=> x \in ToSet(Line(p)))
  <2>1. ToSet(Line(q)) = ToSet(q.mx) \cup OnLine(q)
    BY LineOf
  <2>2. ToSet(Line(p)) = ToSet(p.mx) \cup OnLine(p)
    BY <1>6, LineOf
  <2>. QED BY <1>2, <1>7, <2>1, <2>2
<1>9. ASSUME NEW x, NEW y, x \notin Regions, y \notin Regions, InLine(q, x, y)
      PROVE  InLine(p, x, y)
  <2>1. PICK n, o \in Nodes(q) :
            /\ At(q, n, x) /\ At(q, o, y)
            /\ \/ n = o /\ (x = n \/ <<x, y>> \in Order(PhsOf(q, n)))
               \/ n # o /\ Upto(q.mx, n, o)
    BY <1>9 DEF InLine
  <2>2. /\ n \in Regions \cup {None} /\ o \in Regions \cup {None}
        /\ Nodes(p) = Nodes(q) /\ None \in Nodes(p)
    BY <1>1, <1>2 DEF Nodes
  <2>3. x \in ToSet(PhsOf(q, n)) /\ y \in ToSet(PhsOf(q, o)) /\ x # None /\ y # None
    BY <1>1, <1>9, <2>1, <2>2 DEF At
  <2>4. n # o /\ o = c => n = None
    <3>. SUFFICES ASSUME n # o, o = c, n # None PROVE FALSE
      OBVIOUS
    <3>1. <<n, c>> \in Order(q.mx) /\ n \in ToSet(q.mx) \ {c}
      BY <2>1 DEF Upto, Nodes
    <3>2. q.phs[n] = <<>> /\ PhsOf(q, n) = q.phs[n]
      BY <3>1 DEF PhsOf
    <3>. QED BY <2>3, <3>2 DEF ToSet
  <2>5. n = c /\ o # c => o # None /\ Upto(q.mx, None, o)
    <3>1. \A v, w : <<v, w>> \in Order(q.mx) => w \in ToSet(q.mx)
      BY DEF Order
    <3>. QED BY <1>1, <2>1, <3>1 DEF Upto
  <2>. DEFINE onto(k) == IF k = c THEN None ELSE k
  <2>6. /\ onto(n) \in Nodes(p) /\ onto(o) \in Nodes(p)
        /\ At(p, onto(n), x) /\ At(p, onto(o), y)
    BY <1>1, <1>2, <1>4, <2>1, <2>2, <2>3 DEF At
  <2>7. CASE n = o
    <3>1. <<x, y>> \in Order(PhsOf(q, n))
      BY <1>9, <2>1, <2>2, <2>3, <2>7
    <3>2. <<x, y>> \in Order(PhsOf(p, onto(n)))
      BY <1>1, <1>2, <1>4, <2>2, <2>7, <3>1
    <3>. QED BY <2>6, <2>7, <3>2 DEF InLine
  <2>8. CASE n # o
    <3>1. CASE onto(n) = onto(o)
      <4>1. n = None /\ o = c
        BY <1>1, <2>4, <2>5, <2>8, <3>1
      <4>2. <<x, y>> \in Order(PhsOf(p, None))
        BY <1>4, <2>3, <4>1
      <4>. QED BY <2>6, <4>1, <4>2 DEF InLine
    <3>2. CASE onto(n) # onto(o)
      <4>1. Upto(p.mx, onto(n), onto(o))
        BY <1>2, <2>1, <2>4, <2>5, <2>8, <3>2 DEF Upto
      <4>. HIDE DEF onto
      <4>. QED BY <2>6, <3>2, <4>1 DEF InLine
    <3>. QED BY <3>1, <3>2
  <2>. QED BY <2>7, <2>8
<1>10. Agree(q, p, Regions)
  BY <1>6, <1>8, <1>9, AgreeOneWay
<1>. QED BY <1>6, <1>7, <1>10 DEF p

\* How Flatten goes along the list.
LEMMA FlattenRecurs ==
    ASSUME NEW q, FineLine(q)
    PROVE  \E moved : /\ moved[0] = q /\ moved[Len(q.mx)] = Flatten(q)
                      /\ \A n \in 1 .. Len(q.mx) :
                           moved[n] = MovePhs(moved[n - 1], q.mx[n], None)
<1>. DEFINE N == Len(q.mx)
            S == {o \in [mgd : SUBSET Regions, mx : Seq(Regions),
                         current : Regions \cup {None}, misc : Seq(Marks),
                         phs : [Regions -> Seq(Marks)], hidden : SUBSET Regions,
                         mapped : SUBSET Regions, up : BOOLEAN, small : BOOLEAN] :
                    Fields(o)}
            next(n, o) == MovePhs(o, q.mx[n], None)
            step == [n \in 1 .. N |-> [o \in S |-> next(n, o)]]
            Body(f) == [n \in 0 .. N |-> IF n = 0 THEN q ELSE next(n, f[n - 1])]
            moved == CHOOSE f : f = Body(f)
<1>1. N \in Nat /\ q \in S /\ \A n \in 1 .. N : q.mx[n] \in Regions
  BY DEF FineLine, Fields
<1>2. Flatten(q) = moved[N]
  BY DEF Flatten
<1>3. step \in [1 .. N -> [S -> S]]
  <2>1. ASSUME NEW n \in 1 .. N, NEW o \in S PROVE next(n, o) \in S
    <3>1. Fields(next(n, o))
      <4>1. q.mx[n] \in Regions /\ q.mx[n] # None /\ None \in Regions \cup {None}
        BY <1>1, MPlexAssumption
      <4>. QED BY <4>1, MovePhsIs
    <3>. HIDE DEF next
    <3>. QED BY <3>1 DEF Fields
  <2>. HIDE DEF next, S
  <2>. QED BY <2>1
<1>. HIDE DEF S
<1>4. PICK f \in [0 .. N -> S] : Recurs(f, N, q, step)
  <2>. HIDE DEF step
  <2>. QED BY <1>1, <1>3, RecursionExists
<1>5. f = Body(f)
  <2>1. ASSUME NEW n \in 1 .. N PROVE f[n] = next(n, f[n - 1])
    <3>1. f[n - 1] \in S /\ f[n] = step[n][f[n - 1]]
      <4>. HIDE DEF step
      <4>. QED BY <1>1, <1>4 DEF Recurs
    <3>. HIDE DEF next
    <3>. QED BY <3>1
  <2>2. f[0] = q
    BY <1>4 DEF Recurs
  <2>. HIDE DEF next
  <2>3. \A n \in 0 .. N : f[n] = Body(f)[n]
    BY <1>1, <2>1, <2>2
  <2>. QED BY <2>3
<1>6. moved = Body(moved)
  <2>. HIDE DEF Body
  <2>. QED BY <1>5
<1>7. moved[0] = q /\ \A n \in 1 .. N : moved[n] = next(n, moved[n - 1])
  <2>. HIDE DEF moved, next
  <2>. QED BY <1>1, <1>6
<1>. QED BY <1>2, <1>7

\* All placeholders are before all nodes, in their order.
LEMMA FlattenLine ==
    ASSUME NEW q, FineLine(q)
    PROVE  /\ FineLine(Flatten(q)) /\ Flatten(q).mx = q.mx
           /\ SameShown(q, Flatten(q)) /\ OnLine(Flatten(q)) = OnLine(q)
           /\ \A r \in Regions : Flatten(q).phs[r] = <<>>
           /\ Agree(q, Flatten(q), Regions)
<1>. DEFINE N == Len(q.mx)
            Good(n, o) == /\ FineLine(o) /\ o.mx = q.mx /\ SameShown(q, o)
                          /\ OnLine(o) = OnLine(q) /\ Agree(q, o, Regions)
                          /\ \A k \in 1 .. n : o.phs[q.mx[k]] = <<>>
<1>1. PICK moved : /\ moved[0] = q /\ moved[N] = Flatten(q)
                   /\ \A n \in 1 .. N : moved[n] = MovePhs(moved[n - 1], q.mx[n], None)
  BY FlattenRecurs
<1>2. /\ N \in Nat /\ q.mx \in Seq(Regions) /\ None \notin Regions
      /\ \A j, k \in 1 .. N : q.mx[j] = q.mx[k] => j = k
      /\ \A k \in 1 .. N : q.mx[k] \in Regions /\ q.mx[k] \in ToSet(q.mx)
      /\ \A x, y : <<x, y>> \in Order(q.mx) <=>
           \E j, k \in 1 .. N : j <= k /\ q.mx[j] = x /\ q.mx[k] = y
  <2>1. q.mx \in Seq(Regions) /\ None \notin Regions /\ IsInjective(q.mx)
    BY NodesAndMarks DEF FineLine, Fields
  <2>. DEFINE s == q.mx
  <2>2. s \in Seq(Regions) /\ IsInjective(s)
    BY <2>1
  <2>. HIDE DEF s
  <2>3. /\ Len(s) \in Nat
        /\ \A j, k \in 1 .. Len(s) : s[j] = s[k] => j = k
        /\ \A k \in 1 .. Len(s) : s[k] \in Regions /\ s[k] \in ToSet(s)
    BY <2>2 DEF IsInjective, ToSet
  <2>4. \A x, y : <<x, y>> \in Order(s) <=>
           \E j, k \in 1 .. Len(s) : j <= k /\ s[j] = x /\ s[k] = y
    BY <2>2, OrderOf
  <2>. QED BY <2>1, <2>3, <2>4 DEF s
<1>3. Good(0, moved[0])
  BY <1>1 DEF Agree, SameShown
<1>4. ASSUME NEW n \in 1 .. N, Good(n - 1, moved[n - 1]) PROVE Good(n, moved[n])
  <2>. DEFINE o == moved[n - 1]
              c == q.mx[n]
              p == MovePhs(o, c, None)
  <2>1. /\ FineLine(o) /\ o.mx = q.mx /\ SameShown(q, o) /\ OnLine(o) = OnLine(q)
        /\ Agree(q, o, Regions) /\ \A k \in 1 .. n - 1 : o.phs[q.mx[k]] = <<>>
        /\ moved[n] = p
    BY <1>1, <1>4
  <2>2. c \in ToSet(o.mx) /\ c \in Regions /\ c # None
    BY <1>2, <2>1
  <2>. HIDE DEF o
  <2>3. \A x \in ToSet(o.mx) \ {c} : <<x, c>> \in Order(o.mx) => o.phs[x] = <<>>
    <3>. SUFFICES ASSUME NEW x \in ToSet(q.mx) \ {c}, <<x, c>> \in Order(q.mx)
                  PROVE  o.phs[x] = <<>>
      BY <2>1
    <3>1. PICK j, k \in 1 .. N : j <= k /\ q.mx[j] = x /\ q.mx[k] = c
      BY <1>2
    <3>2. k = n /\ j # n
      BY <1>2, <3>1
    <3>3. j \in 1 .. n - 1
      BY <1>2, <3>1, <3>2
    <3>. QED BY <2>1, <3>1, <3>3
  <2>4. FineLine(p) /\ OnLine(p) = OnLine(o) /\ Agree(o, p, Regions)
    BY <2>1, <2>2, <2>3, MovedFirst
  <2>5. /\ p.mx = o.mx /\ SameShown(o, p) /\ PhsOf(p, c) = <<>>
        /\ \A r \in (Regions \cup {None}) \ {c, None} : PhsOf(p, r) = PhsOf(o, r)
    BY <2>1, <2>2, MovePhsIs DEF FineLine
  <2>. HIDE DEF p
  <2>6. \A k \in 1 .. n : p.phs[q.mx[k]] = <<>>
    <3>1. ASSUME NEW k \in 1 .. n PROVE p.phs[q.mx[k]] = <<>>
      <4>1. k \in 1 .. N /\ q.mx[k] \in Regions /\ q.mx[k] # None
        BY <1>2
      <4>2. p.phs[q.mx[k]] = PhsOf(p, q.mx[k]) /\ o.phs[q.mx[k]] = PhsOf(o, q.mx[k])
        BY <4>1 DEF PhsOf
      <4>3. CASE k = n
        BY <2>5, <4>2, <4>3
      <4>4. CASE k # n
        <5>1. k \in 1 .. n - 1 /\ q.mx[k] # c
          BY <1>2, <4>1, <4>4
        <5>. QED BY <2>1, <2>5, <4>1, <4>2, <5>1
      <4>. QED BY <4>3, <4>4
    <3>. QED BY <3>1
  <2>7. SameShown(q, p)
    BY <2>1, <2>5 DEF SameShown
  <2>8. Agree(q, p, Regions)
    BY <2>1, <2>4, AgreeTrans
  <2>. QED BY <2>1, <2>4, <2>5, <2>6, <2>7, <2>8
<1>5. Good(N, moved[N])
  <2>. DEFINE T == {n \in 0 .. N : Good(n, moved[n])}
  <2>. HIDE DEF Good
  <2>1. 0 \in T /\ \A n \in 1 .. N : n - 1 \in T => n \in T
    BY <1>2, <1>3, <1>4
  <2>. HIDE DEF T
  <2>2. \A n \in 0 .. N : n \in T
    BY <1>2, <2>1, Induction
  <2>. QED BY <1>2, <2>2 DEF T
<1>. DEFINE flat == Flatten(q)
<1>6. Good(N, flat)
  BY <1>1, <1>5
<1>. HIDE DEF flat
<1>7. \A r \in Regions : flat.phs[r] = <<>>
  <2>1. \A r \in Regions \ ToSet(q.mx) : flat.phs[r] = <<>>
    BY <1>6 DEF FineLine
  <2>2. \A r \in ToSet(q.mx) : flat.phs[r] = <<>>
    <3>1. \A r \in ToSet(q.mx) : \E k \in 1 .. N : q.mx[k] = r
      BY <1>2 DEF ToSet
    <3>. QED BY <1>6, <3>1
  <2>. QED BY <2>1, <2>2
<1>. QED BY <1>6, <1>7 DEF flat

-----------------------------------------------------------------------------
(* What is shown.                                                          *)

FineSets(q) ==
    /\ ToSet(q.mx) \cup q.hidden \cup q.mapped \subseteq q.mgd
    /\ q.current \in ToSet(q.mx) \cup {None}
Fine(q) == FineLine(q) /\ FineSets(q)

\* Regions that are to have their windows mapped.
ToMap(q) == IF MayBeMapped(q) THEN Shown(q) ELSE {}
\* What OnlyCurrentShown and MappedAsShown say, of any such record.
OnlyCurrent(q, N, V) ==
    /\ Shown(q) \cap ToSet(q.mx) \subseteq {q.current} \cup N
    /\ q.current \in q.hidden => q.current \in V
Seen(q, N, V) == OnlyCurrent(q, N, V) /\ q.mapped = ToMap(q)

LEMMA FineIsPlaced ==
    ASSUME NEW q, Fields(q)
    PROVE  Placed(q) <=> Fine(q)
BY DEF Placed, Fine, FineLine, FineSets

LEMMA DisplayIs ==
    ASSUME NEW q, Fields(q), FineSets(q), NEW r \in q.mgd
    PROVE  /\ Fields(Display(q, r)) /\ FineSets(Display(q, r))
           /\ Display(q, r).mx = q.mx /\ Display(q, r).misc = q.misc
           /\ Display(q, r).phs = q.phs /\ Display(q, r).mgd = q.mgd
           /\ Display(q, r).up = q.up /\ Display(q, r).small = q.small
<1>. DEFINE on == r \in ToSet(q.mx)
            old == IF on THEN {q.current} \ {None} ELSE {}
            some == IF MayBeMapped(q) THEN q.mapped \cup {r} ELSE q.mapped \ {r}
            h == (q.hidden \ {r}) \cup old
            mp == IF q.up THEN some \ old ELSE some
            c == IF on THEN r ELSE q.current
            p == [q EXCEPT !.hidden = h, !.mapped = mp, !.current = c]
<1>1. Display(q, r) = IF r \notin q.hidden THEN q ELSE p
  BY DEF Display
<1>2. /\ h \subseteq q.mgd /\ mp \subseteq q.mgd /\ c \in ToSet(q.mx) \cup {None}
      /\ q.mgd \subseteq Regions /\ ToSet(q.mx) \subseteq Regions
      /\ ToSet(q.mx) \subseteq q.mgd
  BY NodesAndMarks DEF FineSets, Fields
<1>. HIDE DEF h, mp, c
<1>3. /\ Fields(p) /\ p.mx = q.mx /\ p.misc = q.misc /\ p.phs = q.phs
      /\ p.mgd = q.mgd /\ p.up = q.up /\ p.small = q.small
      /\ p.hidden = h /\ p.mapped = mp /\ p.current = c
  BY <1>2 DEF Fields
<1>. HIDE DEF p
<1>4. FineSets(p)
  BY <1>2, <1>3 DEF FineSets
<1>. QED BY <1>1, <1>3, <1>4

LEMMA DisplaySeen ==
    ASSUME NEW q, Fields(q), FineSets(q), NEW r \in q.mgd, NEW N, NEW V,
           OnlyCurrent(q, N, V),
           (IF r \in q.hidden THEN q.mapped \ {r} ELSE q.mapped) = ToMap(q)
    PROVE  Seen(Display(q, r), N, V)
<1>. DEFINE on == r \in ToSet(q.mx)
            old == IF on THEN {q.current} \ {None} ELSE {}
            some == IF MayBeMapped(q) THEN q.mapped \cup {r} ELSE q.mapped \ {r}
            h == (q.hidden \ {r}) \cup old
            mp == IF q.up THEN some \ old ELSE some
            c == IF on THEN r ELSE q.current
            p == [q EXCEPT !.hidden = h, !.mapped = mp, !.current = c]
<1>1. CASE r \notin q.hidden
  BY <1>1 DEF Display, Seen
<1>2. CASE r \in q.hidden
  <2>1. Display(q, r) = p
    BY <1>2 DEF Display
  <2>2. /\ p.mx = q.mx /\ p.mgd = q.mgd /\ p.up = q.up /\ p.small = q.small
        /\ p.hidden = h /\ p.mapped = mp /\ p.current = c
    BY DEF Fields
  <2>. HIDE DEF p
  <2>3. Shown(p) = (Shown(q) \cup {r}) \ old
    BY <2>2 DEF Shown
  <2>4. OnlyCurrent(p, N, V)
    <3>1. CASE on
      <4>1. Shown(p) \cap ToSet(p.mx) \subseteq {p.current} \cup N
        <5>1. None \notin ToSet(q.mx)
          BY NodesAndMarks
        <5>2. old = {q.current} \ {None} /\ p.current = r
          BY <2>2, <3>1
        <5>3. Shown(q) \cap ToSet(q.mx) \subseteq {q.current} \cup N
          BY DEF OnlyCurrent
        <5>. HIDE DEF old
        <5>. QED BY <2>2, <2>3, <5>1, <5>2, <5>3
      <4>2. p.current \in p.hidden => p.current \in V
        BY <1>2, <2>2, <3>1 DEF OnlyCurrent
      <4>. QED BY <4>1, <4>2 DEF OnlyCurrent
    <3>2. CASE ~on
      BY <2>2, <2>3, <3>2 DEF OnlyCurrent
    <3>. QED BY <3>1, <3>2
  <2>5. p.mapped = ToMap(p)
    <3>1. MayBeMapped(p) = MayBeMapped(q)
      BY <2>2 DEF MayBeMapped
    <3>2. CASE MayBeMapped(q)
      <4>1. q.mapped \ {r} = Shown(q) /\ ToMap(p) = Shown(p) /\ q.up
        BY <1>2, <3>1, <3>2 DEF ToMap, MayBeMapped
      <4>. QED BY <2>2, <2>3, <3>2, <4>1
    <3>3. CASE ~MayBeMapped(q)
      <4>1. q.mapped \ {r} = {} /\ ToMap(p) = {}
        BY <1>2, <3>1, <3>3 DEF ToMap
      <4>. QED BY <2>2, <3>3, <4>1
    <3>. QED BY <3>2, <3>3
  <2>. QED BY <2>1, <2>4, <2>5 DEF Seen
<1>. QED BY <1>1, <1>2

\* What goes leaves the rest in order, and shown as it is meant to be.
LEMMA ManagedRemoveIs ==
    ASSUME NEW q, Fine(q), NEW r \in Regions
    PROVE  /\ Fine(ManagedRemove(q, r))
           /\ ManagedRemove(q, r).mgd = q.mgd \ {r}
           /\ ToSet(ManagedRemove(q, r).mx) = ToSet(q.mx) \ {r}
           /\ ManagedRemove(q, r).up = q.up /\ ManagedRemove(q, r).small = q.small
           /\ OnLine(ManagedRemove(q, r)) = OnLine(q)
           /\ Agree(q, ManagedRemove(q, r), {r})
           /\ \A N, V : Seen(q, N, V) => Seen(ManagedRemove(q, r), N, V)
<1>. DEFINE list == q.mx
            i == Index(list, r)
            next == IF r \notin ToSet(list) \/ q.current # r THEN None
                    ELSE IF i > 1 THEN list[i - 1]
                    ELSE IF Len(list) > 1 THEN list[2] ELSE None
            unlinked == IF r \notin ToSet(list) THEN q
                        ELSE [MovePhsBefore(q, r) EXCEPT
                                 !.mx = Unlink(list, r),
                                 !.current = IF @ = r THEN None ELSE @]
            removed == [unlinked EXCEPT !.mgd = @ \ {r}, !.hidden = @ \ {r},
                                        !.mapped = @ \ {r}]
<1>1. ManagedRemove(q, r) = IF next = None THEN removed ELSE Display(removed, next)
  BY DEF ManagedRemove
<1>2. /\ Fields(q) /\ FineLine(q) /\ FineSets(q) /\ IsInjective(list)
      /\ list \in Seq(Regions) /\ None \notin Regions /\ ToSet(list) \subseteq Regions
  BY NodesAndMarks DEF Fine, FineLine, Fields
<1>3. /\ FineLine(unlinked) /\ OnLine(unlinked) = OnLine(q)
      /\ Agree(q, unlinked, {r}) /\ ToSet(unlinked.mx) = ToSet(q.mx) \ {r}
      /\ unlinked.mgd = q.mgd /\ unlinked.hidden = q.hidden
      /\ unlinked.mapped = q.mapped /\ unlinked.up = q.up /\ unlinked.small = q.small
      /\ unlinked.current = (IF q.current = r THEN None ELSE q.current)
  <2>1. CASE r \notin ToSet(list)
    <3>1. unlinked = q /\ q.current # r
      BY <1>2, <2>1 DEF FineSets
    <3>. HIDE DEF unlinked
    <3>. QED BY <1>2, <2>1, <3>1 DEF Agree
  <2>2. CASE r \in ToSet(list)
    <3>. DEFINE o == MovePhsBefore(q, r)
                u == Unlink(list, r)
                c == IF q.current = r THEN None ELSE q.current
                p == [o EXCEPT !.mx = u, !.current = c]
    <3>1. Previous(q.mx, r) \in (ToSet(q.mx) \ {r}) \cup {None}
      BY <1>2, <2>2, PreviousIsNext
    <3>2. Fields(o) /\ o.mx = q.mx /\ SameShown(q, o)
      <4>1. Previous(q.mx, r) \in Regions \cup {None} /\ r # Previous(q.mx, r)
        BY <1>2, <3>1
      <4>. QED BY <1>2, <4>1, MovePhsIs DEF MovePhsBefore
    <3>3. u \in Seq(Regions)
      BY <1>2, <2>2, UnlinkOrder
    <3>4. unlinked = p
      BY <2>2, <3>2 DEF SameShown
    <3>. HIDE DEF u, o, unlinked
    <3>5. c \in Regions \cup {None}
      BY <1>2 DEF Fields
    <3>. HIDE DEF c
    <3>6. /\ Fields(p) /\ p.mx = u /\ p.misc = o.misc /\ p.phs = o.phs
          /\ SameShown(q, [p EXCEPT !.current = q.current]) /\ p.current = c
      BY <3>2, <3>3, <3>5 DEF Fields, SameShown
    <3>7. /\ p.mgd = q.mgd /\ p.hidden = q.hidden /\ p.mapped = q.mapped
          /\ p.up = q.up /\ p.small = q.small
      BY <3>2 DEF Fields, SameShown
    <3>. HIDE DEF p
    <3>8. /\ FineLine(p) /\ OnLine(p) = OnLine(q) /\ Agree(q, p, {r})
          /\ ToSet(p.mx) = ToSet(q.mx) \ {r}
      <4>1. p.mx = Unlink(q.mx, r) /\ p.misc = MovePhsBefore(q, r).misc
            /\ p.phs = MovePhsBefore(q, r).phs
        BY <3>6 DEF u, o
      <4>2. r \in ToSet(q.mx)
        BY <2>2
      <4>3. TakenOut(q, p, r)
        BY <1>2, <3>6, <4>1, <4>2, NodeOut
      <4>. QED BY <4>3 DEF TakenOut, OnlyMoves
    <3>. QED BY <3>4, <3>6, <3>7, <3>8 DEF c
  <2>. QED BY <2>1, <2>2
<1>. HIDE DEF unlinked
<1>4. Fields(unlinked)
  BY <1>3 DEF FineLine
<1>5. /\ Fields(removed)
      /\ removed.mx = unlinked.mx /\ removed.misc = unlinked.misc
      /\ removed.phs = unlinked.phs /\ removed.current = unlinked.current
      /\ removed.up = q.up /\ removed.small = q.small
      /\ removed.mgd = q.mgd \ {r} /\ removed.hidden = q.hidden \ {r}
      /\ removed.mapped = q.mapped \ {r}
  <2>1. /\ unlinked.mgd \ {r} \in SUBSET Regions
        /\ unlinked.hidden \ {r} \in SUBSET Regions
        /\ unlinked.mapped \ {r} \in SUBSET Regions
    BY <1>4 DEF Fields
  <2>. QED BY <1>3, <1>4, <2>1 DEF Fields
<1>. HIDE DEF removed
<1>6. /\ FineLine(removed) /\ OnLine(removed) = OnLine(q) /\ Agree(q, removed, {r})
      /\ ToSet(removed.mx) = ToSet(q.mx) \ {r}
  <2>1. /\ FineLine(removed) /\ OnLine(removed) = OnLine(unlinked)
        /\ Agree(unlinked, removed, {})
    BY <1>3, <1>5, SameLists
  <2>2. Agree(q, removed, {r})
    BY <1>3, <2>1 DEF Agree
  <2>. QED BY <1>3, <1>5, <2>1, <2>2
<1>7. FineSets(removed)
  BY <1>2, <1>3, <1>5, <1>6 DEF FineSets
<1>8. ASSUME NEW N, NEW V, Seen(q, N, V) PROVE Seen(removed, N, V)
  <2>1. Shown(removed) = Shown(q) \ {r}
    BY <1>5 DEF Shown
  <2>2. OnlyCurrent(removed, N, V)
    <3>1. removed.current = (IF q.current = r THEN None ELSE q.current)
      BY <1>3, <1>5
    <3>2. None \notin removed.hidden
      BY <1>2, <1>5 DEF Fields
    <3>. QED BY <1>5, <1>6, <1>8, <2>1, <3>1, <3>2 DEF OnlyCurrent, Seen
  <2>3. removed.mapped = ToMap(removed)
    BY <1>5, <1>8, <2>1 DEF ToMap, MayBeMapped, Seen
  <2>. QED BY <2>2, <2>3 DEF Seen
<1>9. next # None => next \in removed.mgd
  <2>. SUFFICES ASSUME next # None PROVE next \in ToSet(q.mx) \ {r}
    BY <1>6, <1>7 DEF FineSets
  <2>1. r \in ToSet(list)
    OBVIOUS
  <2>2. i \in 1 .. Len(list) /\ list[i] = r
    BY <1>2, <2>1, IndexIs
  <2>3. /\ \A j, k \in 1 .. Len(list) : list[j] = list[k] => j = k
        /\ \A j \in 1 .. Len(list) : list[j] \in ToSet(list)
        /\ Len(list) \in Nat
    BY <1>2 DEF IsInjective, ToSet
  <2>. HIDE DEF i, list
  <2>4. CASE i > 1
    <3>1. next = list[i - 1] /\ i - 1 \in 1 .. Len(list) /\ i - 1 # i
      BY <2>2, <2>4
    <3>. HIDE DEF next
    <3>. QED BY <2>2, <2>3, <3>1 DEF list
  <2>5. CASE ~(i > 1)
    <3>1. i = 1
      BY <2>2, <2>3, <2>5
    <3>2. next = list[2] /\ 2 \in 1 .. Len(list) /\ i # 2
      BY <2>3, <2>5, <3>1
    <3>. HIDE DEF next
    <3>. QED BY <2>2, <2>3, <3>2 DEF list
  <2>. QED BY <2>4, <2>5
<1>. HIDE DEF next
<1>. DEFINE R == ManagedRemove(q, r)
<1>10. CASE next = None
  <2>1. R = removed
    BY <1>1, <1>10
  <2>. HIDE DEF R
  <2>2. Fine(R) /\ R.mgd = q.mgd \ {r} /\ R.up = q.up /\ R.small = q.small
    BY <1>5, <1>6, <1>7, <2>1 DEF Fine
  <2>. QED BY <1>6, <1>8, <2>1, <2>2 DEF R
<1>11. CASE next # None
  <2>1. R = Display(removed, next)
    BY <1>1, <1>11
  <2>2. /\ Fields(R) /\ FineSets(R) /\ R.mx = removed.mx /\ R.misc = removed.misc
        /\ R.phs = removed.phs /\ R.mgd = removed.mgd /\ R.up = removed.up
        /\ R.small = removed.small
    BY <1>5, <1>7, <1>9, <1>11, <2>1, DisplayIs
  <2>3. ASSUME NEW N, NEW V, Seen(q, N, V) PROVE Seen(R, N, V)
    <3>1. Seen(removed, N, V)
      BY <1>8, <2>3
    <3>2. removed.mapped \subseteq Shown(removed)
      BY <3>1 DEF Seen, ToMap
    <3>3. next \in removed.hidden => removed.mapped \ {next} = removed.mapped
      BY <3>2 DEF Shown
    <3>. QED BY <1>5, <1>7, <1>9, <1>11, <2>1, <3>1, <3>3, DisplaySeen DEF Seen
  <2>. HIDE DEF R
  <2>4. FineLine(R) /\ OnLine(R) = OnLine(removed) /\ Agree(removed, R, {})
    BY <1>6, <2>2, SameLists
  <2>5. Agree(q, R, {r})
    BY <1>6, <2>4 DEF Agree
  <2>6. Fine(R)
    BY <2>2, <2>4 DEF Fine
  <2>. QED BY <1>5, <1>6, <2>2, <2>3, <2>4, <2>5, <2>6 DEF R
<1>. QED BY <1>10, <1>11

\* How AllRemoved goes through a list.
LEMMA AllRemovedRecurs ==
    ASSUME NEW q, Fine(q), NEW list \in Seq(Regions)
    PROVE  \E removed : /\ removed[0] = q /\ removed[Len(list)] = AllRemoved(q, list)
                        /\ \A n \in 1 .. Len(list) :
                             removed[n] = ManagedRemove(removed[n - 1], list[n])
<1>. DEFINE N == Len(list)
            S == {o \in [mgd : SUBSET Regions, mx : Seq(Regions),
                         current : Regions \cup {None}, misc : Seq(Marks),
                         phs : [Regions -> Seq(Marks)], hidden : SUBSET Regions,
                         mapped : SUBSET Regions, up : BOOLEAN, small : BOOLEAN] :
                    Fine(o)}
            next(n, o) == ManagedRemove(o, list[n])
            step == [n \in 1 .. N |-> [o \in S |-> next(n, o)]]
            Body(f) == [n \in 0 .. N |-> IF n = 0 THEN q ELSE next(n, f[n - 1])]
            removed == CHOOSE f : f = Body(f)
<1>1. N \in Nat /\ q \in S /\ \A n \in 1 .. N : list[n] \in Regions
  BY DEF Fine, FineLine, Fields
<1>2. AllRemoved(q, list) = removed[N]
  BY DEF AllRemoved
<1>3. step \in [1 .. N -> [S -> S]]
  <2>1. ASSUME NEW n \in 1 .. N, NEW o \in S PROVE next(n, o) \in S
    <3>1. Fine(next(n, o))
      BY <1>1, ManagedRemoveIs
    <3>. HIDE DEF next
    <3>. QED BY <3>1 DEF Fine, FineLine, Fields
  <2>. HIDE DEF next, S
  <2>. QED BY <2>1
<1>. HIDE DEF S
<1>4. PICK f \in [0 .. N -> S] : Recurs(f, N, q, step)
  <2>. HIDE DEF step
  <2>. QED BY <1>1, <1>3, RecursionExists
<1>5. f = Body(f)
  <2>1. ASSUME NEW n \in 1 .. N PROVE f[n] = next(n, f[n - 1])
    <3>1. f[n - 1] \in S /\ f[n] = step[n][f[n - 1]]
      <4>. HIDE DEF step
      <4>. QED BY <1>1, <1>4 DEF Recurs
    <3>. HIDE DEF next
    <3>. QED BY <3>1
  <2>2. f[0] = q
    BY <1>4 DEF Recurs
  <2>. HIDE DEF next
  <2>3. \A n \in 0 .. N : f[n] = Body(f)[n]
    BY <1>1, <2>1, <2>2
  <2>. QED BY <2>3
<1>6. removed = Body(removed)
  <2>. HIDE DEF Body
  <2>. QED BY <1>5
<1>7. removed[0] = q /\ \A n \in 1 .. N : removed[n] = next(n, removed[n - 1])
  <2>. HIDE DEF removed, next
  <2>. QED BY <1>1, <1>6
<1>. QED BY <1>2, <1>7

LEMMA AllRemovedIs ==
    ASSUME NEW q, Fine(q), NEW list \in Seq(Regions)
    PROVE  /\ Fine(AllRemoved(q, list))
           /\ AllRemoved(q, list).mgd = q.mgd \ ToSet(list)
           /\ ToSet(AllRemoved(q, list).mx) = ToSet(q.mx) \ ToSet(list)
           /\ AllRemoved(q, list).up = q.up /\ AllRemoved(q, list).small = q.small
           /\ OnLine(AllRemoved(q, list)) = OnLine(q)
           /\ Agree(q, AllRemoved(q, list), ToSet(list))
           /\ \A N, V : Seen(q, N, V) => Seen(AllRemoved(q, list), N, V)
<1>. DEFINE L == Len(list)
            gone(n) == {list[k] : k \in 1 .. n}
            Good(n, o) ==
                /\ Fine(o) /\ o.mgd = q.mgd \ gone(n)
                /\ ToSet(o.mx) = ToSet(q.mx) \ gone(n)
                /\ o.up = q.up /\ o.small = q.small /\ OnLine(o) = OnLine(q)
                /\ Agree(q, o, gone(n)) /\ \A N, V : Seen(q, N, V) => Seen(o, N, V)
<1>1. PICK removed : /\ removed[0] = q /\ removed[L] = AllRemoved(q, list)
                     /\ \A n \in 1 .. L :
                          removed[n] = ManagedRemove(removed[n - 1], list[n])
  BY AllRemovedRecurs
<1>2. L \in Nat /\ \A n \in 1 .. L : list[n] \in Regions
  OBVIOUS
<1>3. Good(0, removed[0])
  <2>1. gone(0) = {}
    OBVIOUS
  <2>. HIDE DEF gone
  <2>. QED BY <1>1, <2>1 DEF Agree
<1>4. ASSUME NEW n \in 1 .. L, Good(n - 1, removed[n - 1]) PROVE Good(n, removed[n])
  <2>. DEFINE o == removed[n - 1]
              p == ManagedRemove(o, list[n])
  <2>1. /\ Fine(p) /\ p.mgd = o.mgd \ {list[n]} /\ ToSet(p.mx) = ToSet(o.mx) \ {list[n]}
        /\ p.up = o.up /\ p.small = o.small /\ OnLine(p) = OnLine(o)
        /\ Agree(o, p, {list[n]}) /\ \A N, V : Seen(o, N, V) => Seen(p, N, V)
    <3>1. list[n] \in Regions /\ Fine(o)
      BY <1>2, <1>4
    <3>2. /\ Fine(p) /\ p.mgd = o.mgd \ {list[n]} /\ ToSet(p.mx) = ToSet(o.mx) \ {list[n]}
      BY <3>1, ManagedRemoveIs
    <3>3. p.up = o.up /\ p.small = o.small /\ OnLine(p) = OnLine(o)
      BY <3>1, ManagedRemoveIs
    <3>4. Agree(o, p, {list[n]}) /\ \A N, V : Seen(o, N, V) => Seen(p, N, V)
      BY <3>1, ManagedRemoveIs
    <3>. QED BY <3>2, <3>3, <3>4
  <2>2. removed[n] = p
    BY <1>1
  <2>3. gone(n) = gone(n - 1) \cup {list[n]}
    <3>1. 1 .. n = (1 .. n - 1) \cup {n}
      BY <1>2
    <3>. QED BY <3>1
  <2>. HIDE DEF p, gone
  <2>4. Agree(q, p, gone(n))
    BY <1>4, <2>1, <2>3 DEF Agree
  <2>5. \A N, V : Seen(q, N, V) => Seen(p, N, V)
    BY <1>4, <2>1
  <2>6. p.mgd = q.mgd \ gone(n) /\ ToSet(p.mx) = ToSet(q.mx) \ gone(n)
    BY <1>4, <2>1, <2>3
  <2>. QED BY <1>4, <2>1, <2>2, <2>4, <2>5, <2>6
<1>5. Good(L, removed[L])
  <2>. DEFINE T == {n \in 0 .. L : Good(n, removed[n])}
  <2>. HIDE DEF Good
  <2>1. 0 \in T /\ \A n \in 1 .. L : n - 1 \in T => n \in T
    BY <1>2, <1>3, <1>4
  <2>. HIDE DEF T
  <2>2. \A n \in 0 .. L : n \in T
    BY <1>2, <2>1, Induction
  <2>. QED BY <1>2, <2>2 DEF T
<1>6. gone(L) = ToSet(list)
  BY DEF ToSet
<1>. HIDE DEF gone
<1>. QED BY <1>1, <1>5, <1>6

-----------------------------------------------------------------------------
(* Attaching.                                                              *)

\* ph is the first placeholder that hangs on the node r.
FirstOn(q, r, ph) == q.phs[r] # <<>> /\ q.phs[r][1] = ph

\* A node that is linked where a placeholder is comes right before it.
LEMMA LinkNodeIs ==
    ASSUME NEW q, FineLine(q), NEW r \in Regions \ ToSet(q.mx), NEW ph \in OnLine(q)
    PROVE  /\ FineLine(LinkNode(q, r, ph)) /\ SameShown(q, LinkNode(q, r, ph))
           /\ OnLine(LinkNode(q, r, ph)) = OnLine(q)
           /\ Agree(q, LinkNode(q, r, ph), {r})
           /\ ToSet(LinkNode(q, r, ph).mx) = ToSet(q.mx) \cup {r}
           /\ FirstOn(LinkNode(q, r, ph), r, ph)
<1>. DEFINE at == {n \in Regions : ph \in ToSet(q.phs[n])}
            node == IF at = {} THEN None ELSE CHOOSE n \in at : TRUE
            s == PhsOf(q, node)
            i == Index(s, ph)
            a == SubSeq(s, 1, i - 1)
            b == SubSeq(s, i, Len(s))
            l == LinkAfter(q.mx, node, r)
            o == WithPhs(q, node, a)
            p == [o EXCEPT !.mx = l, !.phs[r] = b]
<1>1. LinkNode(q, r, ph) = p
  BY DEF LinkNode
<1>2. /\ Fields(q) /\ q.mx \in Seq(Regions) /\ IsInjective(q.mx)
      /\ None \notin Regions /\ None \notin Marks /\ ToSet(q.mx) \subseteq Regions
      /\ \A n \in Regions \cup {None} :
            PhsOf(q, n) \in Seq(Marks) /\ ToSet(PhsOf(q, n)) \subseteq Marks
  BY NodesAndMarks DEF FineLine, Fields
<1>3. node \in Nodes(q) /\ ph \in ToSet(s)
  <2>1. CASE at = {}
    <3>1. node = None
      BY <2>1
    <3>2. ph \in ToSet(q.misc)
      BY <2>1 DEF OnLine
    <3>. QED BY <3>1, <3>2 DEF Nodes, PhsOf
  <2>2. CASE at # {}
    <3>1. node \in Regions /\ ph \in ToSet(q.phs[node])
      BY <2>2
    <3>. HIDE DEF node
    <3>2. node \in ToSet(q.mx)
      <4>1. ASSUME node \notin ToSet(q.mx) PROVE FALSE
        <5>1. q.phs[node] = <<>>
          BY <3>1, <4>1 DEF FineLine
        <5>. QED BY <3>1, <5>1 DEF ToSet
      <4>. QED BY <4>1
    <3>. QED BY <1>2, <3>1, <3>2 DEF Nodes, PhsOf
  <2>. QED BY <2>1, <2>2
<1>. HIDE DEF node
<1>4. node \in Regions \cup {None} /\ node # r /\ s \in Seq(Marks)
  BY <1>2, <1>3 DEF Nodes
<1>. HIDE DEF s
<1>5. i \in 1 .. Len(s) /\ s[i] = ph
  BY <1>3, <1>4, IndexIs
<1>. HIDE DEF i
<1>6. /\ a \in Seq(Marks) /\ b \in Seq(Marks) /\ s = a \o b
      /\ b # <<>> /\ b[1] = ph
  <2>1. i \in 1 .. Len(s) + 1
    BY <1>4, <1>5
  <2>2. /\ a \in Seq(Marks) /\ b \in Seq(Marks) /\ s = a \o b
    BY <1>4, <2>1, Pieces
  <2>3. Len(b) = Len(s) - i + 1 /\ b[1] = s[i + 1 - 1]
    BY <1>4, <1>5
  <2>4. b # <<>> /\ i + 1 - 1 = i
    <3>1. Len(b) # 0
      BY <1>4, <1>5, <2>3
    <3>. HIDE DEF b
    <3>. QED BY <1>5, <3>1
  <2>. QED BY <1>5, <2>2, <2>3, <2>4
<1>. HIDE DEF a, b
<1>7. /\ Fields(o) /\ o.mx = q.mx /\ SameShown(q, o) /\ PhsOf(o, node) = a
      /\ \A n \in (Regions \cup {None}) \ {node} : PhsOf(o, n) = PhsOf(q, n)
  <2>1. Fields(q) /\ node \in Regions \cup {None} /\ a \in Seq(Marks)
    BY <1>2, <1>4, <1>6
  <2>. QED BY <2>1, WithPhsIs
<1>. HIDE DEF o
<1>8. l \in Seq(Regions)
  <2>1. node \in ToSet(q.mx) \cup {None} /\ r \in Regions /\ r \notin ToSet(q.mx)
    BY <1>3 DEF Nodes
  <2>. QED BY <1>2, <2>1, LinkAfterOrder
<1>. HIDE DEF l
<1>9. /\ Fields(p) /\ p.mx = l /\ p.misc = o.misc /\ SameShown(q, p)
      /\ p.phs = [o.phs EXCEPT ![r] = b]
  <2>1. o.phs \in [Regions -> Seq(Marks)]
    BY <1>7 DEF Fields
  <2>2. [o.phs EXCEPT ![r] = b] \in [Regions -> Seq(Marks)]
    BY <1>6, <2>1
  <2>. DEFINE f == [o.phs EXCEPT ![r] = b]
  <2>3. p = [o EXCEPT !.mx = l, !.phs = f]
    BY <1>7 DEF Fields
  <2>. HIDE DEF f, p
  <2>4. Fields(p) /\ p.mx = l /\ p.misc = o.misc /\ SameShown(o, p) /\ p.phs = f
    BY <1>7, <1>8, <2>2, <2>3 DEF Fields, SameShown, f
  <2>5. SameShown(q, p)
    BY <1>7, <2>4 DEF SameShown
  <2>. QED BY <2>4, <2>5 DEF f
<1>. HIDE DEF p
<1>10. /\ p.phs[r] = b
       /\ \A n \in (Regions \cup {None}) \ {r} : PhsOf(p, n) = PhsOf(o, n)
  <2>1. o.phs \in [Regions -> Seq(Marks)]
    BY <1>7 DEF Fields
  <2>. QED BY <1>2, <1>9, <2>1 DEF PhsOf
<1>11. PhsOf(p, node) \o p.phs[r] = PhsOf(q, node)
  BY <1>4, <1>6, <1>7, <1>10 DEF s
<1>12. \A n \in (Regions \cup {None}) \ {node, r} : PhsOf(p, n) = PhsOf(q, n)
  BY <1>7, <1>10
<1>13. p.mx = LinkAfter(q.mx, node, r)
  BY <1>9 DEF l
<1>14. /\ FineLine(p) /\ OnLine(p) = OnLine(q) /\ Agree(q, p, {r})
       /\ ToSet(p.mx) = ToSet(q.mx) \cup {r}
  <2>1. node \in Nodes(q) /\ Fields(p) /\ r \in Regions \ ToSet(q.mx)
    BY <1>3, <1>9
  <2>2. PutIn(q, p, r)
    BY <1>11, <1>12, <1>13, <2>1, NodeIn
  <2>. QED BY <2>2 DEF PutIn, OnlyMoves
<1>. QED BY <1>1, <1>6, <1>9, <1>10, <1>14 DEF FirstOn

LEMMA AttachAtIs ==
    ASSUME NEW q, Fine(q), NEW r \in Regions \ q.mgd, NEW ph, NEW unnumbered \in BOOLEAN,
           NEW hide, NEW switchto, NEW focused, ~unnumbered => ph \in OnLine(q)
    PROVE  LET p == AttachAt(q, r, ph, unnumbered, hide, switchto, focused)
           IN /\ Fine(p) /\ p.mgd = q.mgd \cup {r} /\ p.up = q.up /\ p.small = q.small
              /\ OnlyMoves(q, p, r)
              /\ \A N, V : Seen(q, N, V) => Seen(p, N, V)
              /\ ~unnumbered => r \in ToSet(p.mx) /\ FirstOn(p, r, ph)
<1>. DEFINE current == q.current # None \/ (focused /\ q.mgd # {})
            kept == hide /\ (unnumbered \/ q.mx # <<>>)
            sw == ~kept /\ (switchto \/ (~unnumbered /\ ~current))
            hidden == kept \/ (~sw /\ ~unnumbered)
            linked == IF unnumbered THEN q ELSE LinkNode(q, r, ph)
            managed == [linked EXCEPT !.mgd = @ \cup {r}, !.hidden = @ \cup {r},
                                      !.mapped = @ \cup {r}]
            p == IF hidden THEN [managed EXCEPT !.mapped = @ \ {r}]
                 ELSE Display(managed, r)
<1>1. AttachAt(q, r, ph, unnumbered, hide, switchto, focused) = p
  BY DEF AttachAt
<1>2. /\ Fields(q) /\ FineLine(q) /\ FineSets(q) /\ None \notin Regions
      /\ ToSet(q.mx) \subseteq q.mgd /\ r \notin ToSet(q.mx) /\ q.current # r
      /\ r \in Regions
  BY NodesAndMarks DEF Fine, FineLine, FineSets
<1>3. /\ FineLine(linked) /\ OnLine(linked) = OnLine(q) /\ Agree(q, linked, {r})
      /\ SameShown(q, linked)
      /\ ToSet(linked.mx) = ToSet(q.mx) \cup (IF unnumbered THEN {} ELSE {r})
      /\ ~unnumbered => FirstOn(linked, r, ph)
  <2>1. CASE unnumbered
    <3>1. linked = q
      BY <2>1
    <3>. HIDE DEF linked
    <3>. QED BY <1>2, <2>1, <3>1 DEF Agree, SameShown
  <2>2. CASE ~unnumbered
    <3>1. linked = LinkNode(q, r, ph) /\ ph \in OnLine(q) /\ r \in Regions \ ToSet(q.mx)
      BY <1>2, <2>2
    <3>. HIDE DEF linked
    <3>2. /\ FineLine(linked) /\ SameShown(q, linked) /\ OnLine(linked) = OnLine(q)
          /\ Agree(q, linked, {r}) /\ ToSet(linked.mx) = ToSet(q.mx) \cup {r}
          /\ FirstOn(linked, r, ph)
      <4>. DEFINE o == LinkNode(q, r, ph)
      <4>1. /\ FineLine(o) /\ SameShown(q, o) /\ OnLine(o) = OnLine(q)
            /\ Agree(q, o, {r}) /\ ToSet(o.mx) = ToSet(q.mx) \cup {r}
            /\ FirstOn(o, r, ph)
        <5>1. FineLine(q) /\ r \in Regions \ ToSet(q.mx) /\ ph \in OnLine(q)
          BY <1>2, <3>1
        <5>2. FineLine(o) /\ SameShown(q, o) /\ OnLine(o) = OnLine(q)
          BY <5>1, LinkNodeIs
        <5>3. Agree(q, o, {r}) /\ ToSet(o.mx) = ToSet(q.mx) \cup {r}
          BY <5>1, LinkNodeIs
        <5>4. FirstOn(o, r, ph)
          BY <5>1, LinkNodeIs
        <5>. QED BY <5>2, <5>3, <5>4
      <4>. HIDE DEF o
      <4>2. linked = o
        BY <3>1 DEF o
      <4>. QED BY <4>1, <4>2
    <3>. QED BY <2>2, <3>2
  <2>. QED BY <2>1, <2>2
<1>. HIDE DEF linked, hidden
<1>4. Fields(linked)
  BY <1>3 DEF FineLine
<1>5. /\ Fields(managed)
      /\ managed.mx = linked.mx /\ managed.misc = linked.misc
      /\ managed.phs = linked.phs /\ managed.current = q.current
      /\ managed.up = q.up /\ managed.small = q.small
      /\ managed.mgd = q.mgd \cup {r} /\ managed.hidden = q.hidden \cup {r}
      /\ managed.mapped = q.mapped \cup {r}
  <2>1. /\ linked.mgd \cup {r} \in SUBSET Regions
        /\ linked.hidden \cup {r} \in SUBSET Regions
        /\ linked.mapped \cup {r} \in SUBSET Regions
    BY <1>2, <1>4 DEF Fields
  <2>. QED BY <1>3, <1>4, <2>1 DEF Fields, SameShown
<1>. HIDE DEF managed
<1>6. FineLine(managed) /\ OnLine(managed) = OnLine(q) /\ Agree(q, managed, {r})
  <2>1. FineLine(managed) /\ OnLine(managed) = OnLine(linked)
        /\ Agree(linked, managed, {})
    BY <1>3, <1>5, SameLists
  <2>2. Agree(q, managed, {r})
    BY <1>3, <2>1 DEF Agree
  <2>. QED BY <1>3, <2>1, <2>2
<1>7. FineSets(managed) /\ r \in managed.mgd /\ r \in managed.hidden
  BY <1>2, <1>3, <1>5 DEF FineSets
<1>8. ASSUME NEW N, NEW V, Seen(q, N, V)
      PROVE  /\ OnlyCurrent(managed, N, V) /\ managed.mapped \ {r} = ToMap(managed)
             /\ ToMap(managed) = ToMap(q)
  <2>1. Shown(managed) = Shown(q) /\ Shown(q) \subseteq q.mgd
    BY <1>2, <1>5 DEF Shown
  <2>2. ToMap(managed) = ToMap(q) /\ r \notin ToMap(q)
    BY <1>5, <2>1 DEF ToMap, MayBeMapped
  <2>3. OnlyCurrent(managed, N, V)
    BY <1>2, <1>3, <1>5, <1>8, <2>1 DEF OnlyCurrent, Seen
  <2>. QED BY <1>5, <1>8, <2>2, <2>3 DEF Seen
<1>9. CASE hidden
  <2>1. p = [managed EXCEPT !.mapped = @ \ {r}]
    BY <1>9
  <2>2. /\ Fields(p) /\ p.mx = managed.mx /\ p.misc = managed.misc
        /\ p.phs = managed.phs /\ p.mgd = managed.mgd /\ p.up = managed.up
        /\ p.small = managed.small /\ p.current = managed.current
        /\ p.hidden = managed.hidden /\ p.mapped = managed.mapped \ {r}
    <3>1. managed.mapped \ {r} \in SUBSET Regions
      BY <1>5 DEF Fields
    <3>. HIDE DEF p
    <3>. QED BY <1>5, <2>1, <3>1 DEF Fields
  <2>. HIDE DEF p
  <2>3. FineSets(p)
    BY <1>7, <2>2 DEF FineSets
  <2>4. FineLine(p) /\ OnLine(p) = OnLine(managed) /\ Agree(managed, p, {})
    BY <1>6, <2>2, SameLists
  <2>5. Agree(q, p, {r})
    BY <1>6, <2>4 DEF Agree
  <2>6. ASSUME NEW N, NEW V, Seen(q, N, V) PROVE Seen(p, N, V)
    <3>1. OnlyCurrent(managed, N, V) /\ managed.mapped \ {r} = ToMap(managed)
      BY <1>8, <2>6
    <3>. QED BY <2>2, <3>1 DEF Seen, OnlyCurrent, ToMap, MayBeMapped, Shown
  <2>. QED BY <1>1, <1>3, <1>5, <1>6, <2>2, <2>3, <2>4, <2>5, <2>6 DEF Fine, FirstOn, OnlyMoves
<1>10. CASE ~hidden
  <2>1. p = Display(managed, r)
    BY <1>10
  <2>2. /\ Fields(p) /\ FineSets(p) /\ p.mx = managed.mx /\ p.misc = managed.misc
        /\ p.phs = managed.phs /\ p.mgd = managed.mgd /\ p.up = managed.up
        /\ p.small = managed.small
    <3>. DEFINE d == Display(managed, r)
    <3>1. /\ Fields(d) /\ FineSets(d) /\ d.mx = managed.mx /\ d.misc = managed.misc
          /\ d.phs = managed.phs /\ d.mgd = managed.mgd /\ d.up = managed.up
          /\ d.small = managed.small
      BY <1>5, <1>7, DisplayIs
    <3>. HIDE DEF d
    <3>2. p = d
      BY <2>1 DEF d
    <3>. HIDE DEF p
    <3>. QED BY <3>1, <3>2
  <2>3. ASSUME NEW N, NEW V, Seen(q, N, V) PROVE Seen(p, N, V)
    <3>1. OnlyCurrent(managed, N, V) /\ managed.mapped \ {r} = ToMap(managed)
      BY <1>8, <2>3
    <3>. QED BY <1>5, <1>7, <2>1, <3>1, DisplaySeen
  <2>. HIDE DEF p
  <2>4. FineLine(p) /\ OnLine(p) = OnLine(managed) /\ Agree(managed, p, {})
    BY <1>6, <2>2, SameLists
  <2>5. Agree(q, p, {r})
    BY <1>6, <2>4 DEF Agree
  <2>. QED BY <1>1, <1>3, <1>5, <1>6, <2>2, <2>3, <2>4, <2>5 DEF Fine, FirstOn, OnlyMoves
<1>. QED BY <1>9, <1>10

-----------------------------------------------------------------------------
(* What each action does to the mplex, if it is as it should be.           *)

Typed(q) ==
    q \in [mgd : SUBSET Regions, mx : Seq(Regions),
           current : Regions \cup {None}, misc : Seq(PHolders),
           phs : [Regions -> Seq(PHolders)], hidden : SUBSET Regions,
           mapped : SUBSET Regions, up : BOOLEAN, small : BOOLEAN]

LEMMA TypedIs ==
    ASSUME NEW q
    PROVE  Typed(q) /\ Placed(q) <=> Fine(q) /\ Temp \notin OnLine(q)
<1>1. Temp \notin PHolders
  BY MPlexAssumption
<1>2. \A s : s \in Seq(PHolders) <=> s \in Seq(Marks) /\ Temp \notin ToSet(s)
  <2>1. ASSUME NEW s \in Seq(Marks), Temp \notin ToSet(s) PROVE s \in Seq(PHolders)
    BY <2>1 DEF Marks, ToSet
  <2>2. ASSUME NEW s \in Seq(PHolders) PROVE s \in Seq(Marks) /\ Temp \notin ToSet(s)
    BY <1>1 DEF Marks, ToSet
  <2>. QED BY <2>1, <2>2
<1>3. Typed(q) => Fields(q) /\ Temp \notin OnLine(q)
  <2>. SUFFICES ASSUME Typed(q) PROVE Fields(q) /\ Temp \notin OnLine(q)
    OBVIOUS
  <2>1. q.misc \in Seq(PHolders) /\ q.phs \in [Regions -> Seq(PHolders)]
    BY DEF Typed
  <2>2. q.misc \in Seq(Marks) /\ q.phs \in [Regions -> Seq(Marks)]
    BY <1>2, <2>1
  <2>3. Temp \notin OnLine(q)
    BY <1>2, <2>1 DEF OnLine
  <2>. QED BY <2>2, <2>3 DEF Typed, Fields
<1>4. Fields(q) /\ Temp \notin OnLine(q) => Typed(q)
  <2>. SUFFICES ASSUME Fields(q), Temp \notin OnLine(q) PROVE Typed(q)
    OBVIOUS
  <2>1. q.misc \in Seq(Marks) /\ q.phs \in [Regions -> Seq(Marks)]
    BY DEF Fields
  <2>2. q.misc \in Seq(PHolders)
    BY <1>2, <2>1 DEF OnLine
  <2>3. \A r \in Regions : q.phs[r] \in Seq(PHolders)
    BY <1>2, <2>1 DEF OnLine
  <2>4. q.phs \in [Regions -> Seq(PHolders)]
    BY <2>1, <2>3
  <2>. QED BY <2>2, <2>4 DEF Typed, Fields
<1>. QED BY <1>3, <1>4, FineIsPlaced DEF Fine, FineLine

\* The invariant in parts.
Rings == ring \in Seq(PHolders) /\ IsInjective(ring) /\ OnLine(m) \cap ToSet(ring) = {}
LEMMA SeenAsMeantIs ==
    SeenAsMeant <=> /\ Fine(m) /\ Temp \notin OnLine(m) /\ Rings
                    /\ Seen(m, numbered, veto)
                    /\ failed \in {"no", "assertion", "loop", "selflink"}
                    /\ numbered \subseteq Regions /\ veto \subseteq Regions
<1>1. SeenAsMeant <=> /\ Typed(m) /\ Placed(m) /\ Rings
                      /\ OnlyCurrentShown /\ MappedAsShown
                      /\ failed \in {"no", "assertion", "loop", "selflink"}
                      /\ numbered \subseteq Regions /\ veto \subseteq Regions
  BY DEF SeenAsMeant, TypeOK, PlacedOnce, Rings, Typed
<1>2. OnlyCurrentShown /\ MappedAsShown <=> Seen(m, numbered, veto)
  BY DEF OnlyCurrentShown, MappedAsShown, Seen, OnlyCurrent, ToMap
<1>. QED BY <1>1, <1>2, TypedIs

\* The history keeps only what matters.
LEMMA NotesSeen ==
    ASSUME Fine(m'), NEW now, NEW vetoed, NEW left, Notes(now, vetoed, left),
           Seen(m', (numbered \ left) \cup now, (veto \ left) \cup vetoed)
    PROVE  /\ Seen(m', numbered', veto')
           /\ numbered' \subseteq Regions /\ veto' \subseteq Regions
<1>. DEFINE p == m'
            N == (numbered \ left) \cup now
            V == (veto \ left) \cup vetoed
<1>1. numbered' = N \cap Shown(p) /\ veto' = V \cap (p.mgd \cap p.hidden)
  BY DEF Notes, Shown
<1>2. p.mgd \subseteq Regions /\ p.hidden \subseteq p.mgd
  BY DEF Fine, FineLine, Fields, FineSets
<1>3. OnlyCurrent(p, N, V) /\ p.mapped = ToMap(p)
  BY DEF Seen
<1>. HIDE DEF p, N, V
<1>4. OnlyCurrent(p, N \cap Shown(p), V \cap (p.mgd \cap p.hidden))
  BY <1>2, <1>3 DEF OnlyCurrent
<1>5. N \cap Shown(p) \subseteq Regions /\ V \cap (p.mgd \cap p.hidden) \subseteq Regions
  BY <1>2 DEF Shown
<1>6. Seen(p, numbered', veto')
  BY <1>1, <1>3, <1>4 DEF Seen
<1>. QED BY <1>1, <1>5, <1>6 DEF p

LEMMA NoNotesSeen ==
    ASSUME Fine(m'), Notes({}, {}, {}), Seen(m', numbered, veto)
    PROVE  /\ Seen(m', numbered', veto')
           /\ numbered' \subseteq Regions /\ veto' \subseteq Regions
<1>1. (numbered \ {}) \cup {} = numbered /\ (veto \ {}) \cup {} = veto
  OBVIOUS
<1>2. Seen(m', (numbered \ {}) \cup {}, (veto \ {}) \cup {})
  BY <1>1
<1>. QED BY <1>2, NotesSeen

\* The ways in which the line and the ring change.
RegionMoves == \E r \in Regions : OnlyMoves(m, m', r) /\ ring' = ring
PlaceMoves ==
    /\ \E ph \in PHolders :
        /\ Agree(m, m', {ph})
        /\ \/ ph \notin Present /\ OnLine(m') = OnLine(m) \cup {ph}
           \/ OnLine(m') = OnLine(m) \ {ph}
    /\ ring' = ring
LineStays == Line(m') = Line(m) /\ OnLine(m') = OnLine(m) /\ ring' = ring

\* What a step preserves, with one of those.
Keeps(change) ==
    /\ Fine(m') /\ Seen(m', numbered', veto')
    /\ numbered' \subseteq Regions /\ veto' \subseteq Regions
    /\ change

LEMMA AttachedIs ==
    ASSUME NEW q, Fine(q), NEW r \in Regions, NEW ph, NEW unnumbered \in BOOLEAN,
           NEW hide, NEW switchto, NEW focused, ~unnumbered => ph \in OnLine(q)
    PROVE  LET p == AttachAt(Detached(q, r), r, ph, unnumbered, hide, switchto, focused)
           IN /\ Fine(p) /\ OnlyMoves(q, p, r)
              /\ \A N, V : Seen(q, N, V) => Seen(p, N \ {r}, V \ {r})
              /\ ~unnumbered => r \in ToSet(p.mx) /\ FirstOn(p, r, ph)
<1>. DEFINE o == Detached(q, r)
            p == AttachAt(o, r, ph, unnumbered, hide, switchto, focused)
<1>1. /\ Fine(o) /\ OnLine(o) = OnLine(q) /\ Agree(q, o, {r}) /\ r \notin o.mgd
      /\ \A N, V : Seen(q, N, V) => Seen(o, N, V)
  <2>1. CASE r \in q.mgd
    <3>1. o = ManagedRemove(q, r)
      BY <2>1 DEF Detached
    <3>. HIDE DEF o
    <3>2. /\ Fine(o) /\ o.mgd = q.mgd \ {r} /\ OnLine(o) = OnLine(q)
          /\ Agree(q, o, {r}) /\ \A N, V : Seen(q, N, V) => Seen(o, N, V)
      BY <3>1, ManagedRemoveIs
    <3>. QED BY <3>2
  <2>2. CASE r \notin q.mgd
    <3>1. o = q
      BY <2>2 DEF Detached
    <3>. QED BY <2>2, <3>1 DEF Agree
  <2>. QED BY <2>1, <2>2
<1>. HIDE DEF o
<1>2. ASSUME NEW N, NEW V, Seen(o, N, V) PROVE Seen(o, N \ {r}, V \ {r})
  <2>1. o.current # r /\ r \notin Shown(o)
    <3>1. ToSet(o.mx) \subseteq o.mgd /\ o.current \in ToSet(o.mx) \cup {None}
      BY <1>1 DEF Fine, FineSets
    <3>. QED BY <1>1, <3>1, MPlexAssumption DEF Shown
  <2>. QED BY <1>2, <2>1 DEF Seen, OnlyCurrent
<1>3. /\ Fine(p) /\ OnLine(p) = OnLine(o) /\ Agree(o, p, {r})
      /\ \A N, V : Seen(o, N, V) => Seen(p, N, V)
      /\ ~unnumbered => r \in ToSet(p.mx) /\ FirstOn(p, r, ph)
  <2>1. r \in Regions \ o.mgd /\ (~unnumbered => ph \in OnLine(o))
    BY <1>1
  <2>2. Fine(p) /\ OnlyMoves(o, p, r)
    BY <1>1, <2>1, AttachAtIs
  <2>3. \A N, V : Seen(o, N, V) => Seen(p, N, V)
    BY <1>1, <2>1, AttachAtIs
  <2>4. ~unnumbered => r \in ToSet(p.mx) /\ FirstOn(p, r, ph)
    BY <1>1, <2>1, AttachAtIs
  <2>. QED BY <2>2, <2>3, <2>4 DEF OnlyMoves
<1>. HIDE DEF p
<1>4. Agree(q, p, {r})
  BY <1>1, <1>3, AgreeTrans
<1>5. \A N, V : Seen(q, N, V) => Seen(p, N \ {r}, V \ {r})
  BY <1>1, <1>2, <1>3
<1>. QED BY <1>1, <1>3, <1>4, <1>5 DEF p, o, OnlyMoves

LEMMA IndexToAfterIs ==
    ASSUME NEW q, FineLine(q), q.current \in Regions \cup {None},
           NEW index \in Indices, NEW busy
    PROVE  IndexToAfter(q, index, busy) \in Nodes(q) \cup {q.current}
<1>. DEFINE list == q.mx
<1>1. list \in Seq(Regions) /\ \A k \in 1 .. Len(list) : list[k] \in ToSet(list)
  BY DEF FineLine, Fields, ToSet
<1>2. CASE index = AtEnd
  <2>1. list # <<>> => list[Len(list)] \in ToSet(list)
    BY <1>1
  <2>2. IndexToAfter(q, index, busy) = OrNone(list)
    BY <1>2 DEF IndexToAfter, AtEnd, AfterCurrent, AfterCurrentAct
  <2>. QED BY <2>1, <2>2 DEF OrNone, Last, Nodes
<1>3. CASE index = AfterCurrent
  BY <1>3 DEF IndexToAfter, AtEnd, AfterCurrent, AfterCurrentAct
<1>4. CASE index = AfterCurrentAct
  <2>1. CASE q.current \notin ToSet(list)
    BY <1>4, <2>1 DEF IndexToAfter, AfterBusy, AtEnd, AfterCurrent, AfterCurrentAct
  <2>2. CASE q.current \in ToSet(list)
    <3>. DEFINE i == Index(list, q.current)
                J == {j \in i .. Len(list) : \A k \in (i + 1) .. j : list[k] \in busy}
                Right(j) == /\ \A k \in (i + 1) .. j : list[k] \in busy
                            /\ j < Len(list) => list[j + 1] \notin busy
    <3>1. i \in 1 .. Len(list)
      BY <1>1, <2>2, IndexIs
    <3>. HIDE DEF i
    <3>2. J \in SUBSET Int /\ IsFiniteSet(J)
      <4>1. IsFiniteSet(i .. Len(list))
        BY <1>1, <3>1, FS_Interval
      <4>. QED BY <1>1, <3>1, <4>1, FS_Subset
    <3>3. i \in J
      BY <1>1, <3>1
    <3>4. PICK j \in J : \A h \in J : h <= j
      BY <3>2, <3>3, GreatestInt
    <3>5. Right(j)
      <4>1. ASSUME j < Len(list), list[j + 1] \in busy PROVE FALSE
        <5>1. j + 1 \in i .. Len(list) /\ j \in Int
          BY <1>1, <3>1, <4>1
        <5>2. \A k \in (i + 1) .. (j + 1) : k \in (i + 1) .. j \/ k = j + 1
          BY <1>1, <3>1
        <5>3. j + 1 \in J
          BY <4>1, <5>1, <5>2
        <5>. HIDE DEF J
        <5>. QED BY <3>4, <5>1, <5>3
      <4>. QED BY <4>1
    <3>. HIDE DEF Right
    <3>. DEFINE chosen == CHOOSE h \in i .. Len(list) : Right(h)
    <3>6. chosen \in i .. Len(list)
      BY <3>5
    <3>7. AfterBusy(q, busy) = list[chosen]
      BY <2>2 DEF AfterBusy, Right, i
    <3>. HIDE DEF chosen
    <3>8. chosen \in 1 .. Len(list)
      BY <1>1, <3>1, <3>6
    <3>. QED BY <1>1, <1>4, <3>7, <3>8
         DEF IndexToAfter, AtEnd, AfterCurrent, AfterCurrentAct, Nodes
  <2>. QED BY <2>1, <2>2
<1>5. CASE index \notin {AtEnd, AfterCurrent, AfterCurrentAct}
  BY <1>1, <1>5 DEF IndexToAfter, Nodes
<1>. QED BY <1>2, <1>3, <1>4, <1>5

LEMMA NewPHolderIs ==
    ASSUME NEW q, Fine(q), NEW ph \in Marks, ph \notin OnLine(q),
           NEW index \in Indices, NEW busy
    PROVE  /\ Fine(NewPHolder(q, ph, index, busy))
           /\ SameShown(q, NewPHolder(q, ph, index, busy))
           /\ NewPHolder(q, ph, index, busy).mx = q.mx
           /\ OnLine(NewPHolder(q, ph, index, busy)) = OnLine(q) \cup {ph}
           /\ Agree(q, NewPHolder(q, ph, index, busy), {ph})
<1>. DEFINE node == IndexToAfter(q, index, busy)
            after == IF index = AtEnd THEN OrNone(PhsOf(q, node)) ELSE None
            p == Link(q, ph, after, node)
<1>1. /\ FineLine(q) /\ FineSets(q) /\ Fields(q) /\ q.current \in Nodes(q)
      /\ q.current \in Regions \cup {None}
  BY DEF Fine, FineLine, FineSets, Fields, Nodes
<1>2. node \in Nodes(q)
  BY <1>1, IndexToAfterIs
<1>. HIDE DEF node
<1>3. after \in ToSet(PhsOf(q, node)) \cup {None}
  <2>1. node \in Regions \cup {None}
    BY <1>1, <1>2, NodesAndMarks
  <2>2. PhsOf(q, node) \in Seq(Marks)
    BY <1>1, <2>1, NodesAndMarks
  <2>. QED BY <2>2 DEF OrNone, Last, ToSet
<1>. HIDE DEF after
<1>4. /\ FineLine(p) /\ p.mx = q.mx /\ SameShown(q, p)
      /\ OnLine(p) = OnLine(q) \cup {ph} /\ Agree(q, p, {ph})
  BY <1>1, <1>2, <1>3, LinkLine
<1>5. NewPHolder(q, ph, index, busy) = p
  BY DEF NewPHolder, after, node
<1>. HIDE DEF p
<1>6. FineSets(p)
  BY <1>1, <1>4 DEF FineSets, SameShown
<1>. QED BY <1>4, <1>5, <1>6 DEF Fine

\* Where the lists of placeholders change only, what is shown stays.
LEMMA SameSeen ==
    ASSUME NEW q, NEW p, SameShown(q, p), ToSet(p.mx) = ToSet(q.mx)
    PROVE  /\ FineSets(q) => FineSets(p)
           /\ \A N, V : Seen(q, N, V) => Seen(p, N, V)
<1>1. FineSets(q) => FineSets(p)
  BY DEF FineSets, SameShown
<1>2. Shown(p) = Shown(q) /\ MayBeMapped(p) = MayBeMapped(q)
  BY DEF Shown, MayBeMapped, SameShown
<1>3. ASSUME NEW N, NEW V, Seen(q, N, V) PROVE Seen(p, N, V)
  <2>1. OnlyCurrent(p, N, V)
    BY <1>2, <1>3 DEF Seen, OnlyCurrent, SameShown
  <2>2. p.mapped = ToMap(p)
    BY <1>2, <1>3 DEF Seen, ToMap, SameShown
  <2>. QED BY <2>1, <2>2 DEF Seen
<1>. QED BY <1>1, <1>3

-----------------------------------------------------------------------------
(* The actions, one by one.                                                *)

LEMMA NotInLine ==
    ASSUME NEW q, FineLine(q), NEW x, x \notin ToSet(q.mx) \cup OnLine(q), NEW y
    PROVE  ~InLine(q, x, y) /\ ~InLine(q, y, x)
<1>. DEFINE L == Line(q)
<1>1. /\ ToSet(L) = ToSet(q.mx) \cup OnLine(q)
      /\ \A v, w : <<v, w>> \in Order(L) <=> InLine(q, v, w)
  BY LineOf
<1>2. \A v, w : <<v, w>> \in Order(L) => v \in ToSet(L) /\ w \in ToSet(L)
  BY DEF Order
<1>. HIDE DEF L
<1>. QED BY <1>1, <1>2

LEMMA AttachStep ==
    ASSUME SeenAsMeant, NEW r \in Regions, NEW index, NEW unnumbered \in BOOLEAN,
           ~unnumbered => index \in Indices, NEW hide, NEW switchto,
           Attach(r, index, unnumbered, hide, switchto)
    PROVE  Keeps(RegionMoves)
<1>1. /\ Fine(m) /\ Temp \notin OnLine(m) /\ Seen(m, numbered, veto)
      /\ Temp \in Marks /\ Temp \notin Regions
  BY SeenAsMeantIs, MPlexAssumption DEF Marks
<1>2. PICK focused \in Focused, busy \in BusySets(index) :
        LET placed == IF unnumbered THEN m ELSE NewPHolder(m, Temp, index, busy)
        IN /\ m' = Unlinked(AttachAt(Detached(placed, r), r, Temp, unnumbered,
                                     hide, switchto, focused), Temp)
           /\ Notes({}, {}, {r})
           /\ UNCHANGED <<ring, failed>>
  BY DEF Attach
<1>. DEFINE placed == IF unnumbered THEN m ELSE NewPHolder(m, Temp, index, busy)
            attached == AttachAt(Detached(placed, r), r, Temp, unnumbered,
                                 hide, switchto, focused)
<1>3. /\ Fine(placed) /\ SameShown(m, placed) /\ placed.mx = m.mx
      /\ ~unnumbered => Temp \in OnLine(placed)
      /\ OnLine(placed) \ {Temp} = OnLine(m) /\ Agree(m, placed, {Temp})
  <2>1. CASE unnumbered
    <3>1. placed = m
      BY <2>1
    <3>. HIDE DEF placed
    <3>. QED BY <1>1, <2>1, <3>1 DEF SameShown, Agree
  <2>2. CASE ~unnumbered
    <3>1. placed = NewPHolder(m, Temp, index, busy) /\ index \in Indices
      BY <2>2
    <3>. HIDE DEF placed
    <3>2. Fine(placed) /\ SameShown(m, placed) /\ placed.mx = m.mx
      BY <1>1, <3>1, NewPHolderIs
    <3>3. OnLine(placed) = OnLine(m) \cup {Temp} /\ Agree(m, placed, {Temp})
      BY <1>1, <3>1, NewPHolderIs
    <3>. QED BY <1>1, <2>2, <3>2, <3>3
  <2>. QED BY <2>1, <2>2
<1>4. m' = Unlinked(attached, Temp) /\ Notes({}, {}, {r}) /\ ring' = ring
  BY <1>2
<1>. HIDE DEF placed
<1>5. /\ Fine(attached) /\ OnlyMoves(placed, attached, r)
      /\ \A N, V : Seen(placed, N, V) => Seen(attached, N \ {r}, V \ {r})
  BY <1>3, AttachedIs
<1>. HIDE DEF attached
<1>6. /\ FineLine(m') /\ SameShown(attached, m') /\ m'.mx = attached.mx
      /\ OnLine(m') = OnLine(attached) \ {Temp} /\ Agree(attached, m', {Temp})
  <2>. DEFINE p == Unlinked(attached, Temp)
  <2>1. FineLine(attached)
    BY <1>5 DEF Fine
  <2>2. /\ FineLine(p) /\ p.mx = attached.mx /\ SameShown(attached, p)
        /\ OnLine(p) = OnLine(attached) \ {Temp} /\ Agree(attached, p, {Temp})
    BY <1>1, <2>1, UnlinkedLine
  <2>. HIDE DEF p
  <2>3. m' = p
    BY <1>4 DEF p
  <2>. QED BY <2>2, <2>3
<1>7. Fine(m')
  <2>1. FineSets(m')
    BY <1>5, <1>6, SameSeen DEF Fine
  <2>. QED BY <1>6, <2>1 DEF Fine
<1>8. Seen(m', numbered \ {r}, veto \ {r})
  <2>1. Seen(placed, numbered, veto)
    BY <1>1, <1>3, SameSeen
  <2>2. Seen(attached, numbered \ {r}, veto \ {r})
    BY <1>5, <2>1
  <2>. QED BY <1>6, <2>2, SameSeen
<1>9. /\ Seen(m', numbered', veto')
      /\ numbered' \subseteq Regions /\ veto' \subseteq Regions
  <2>1. (numbered \ {r}) \cup {} = numbered \ {r} /\ (veto \ {r}) \cup {} = veto \ {r}
    OBVIOUS
  <2>2. Seen(m', (numbered \ {r}) \cup {}, (veto \ {r}) \cup {})
    BY <1>8, <2>1
  <2>. QED BY <1>4, <1>7, <2>2, NotesSeen
<1>10. OnLine(m') = OnLine(m)
  BY <1>3, <1>5, <1>6 DEF OnlyMoves
<1>11. Agree(m, m', {r})
  <2>1. Agree(m, m', {r, Temp})
    BY <1>3, <1>5, <1>6 DEF Agree, OnlyMoves
  <2>2. /\ Temp \notin ToSet(m.mx) \cup OnLine(m)
        /\ Temp \notin ToSet(m'.mx) \cup OnLine(m')
    <3>1. ToSet(m.mx) \subseteq Regions /\ ToSet(m'.mx) \subseteq Regions
      BY <1>1, <1>7, NodesAndMarks DEF Fine, FineLine
    <3>. QED BY <1>1, <1>10, <3>1
  <2>3. \A y : ~InLine(m, Temp, y) /\ ~InLine(m, y, Temp)
    BY <1>1, <2>2, NotInLine DEF Fine
  <2>4. \A y : ~InLine(m', Temp, y) /\ ~InLine(m', y, Temp)
    BY <1>7, <2>2, NotInLine DEF Fine
  <2>. QED BY <2>1, <2>3, <2>4 DEF Agree
<1>. QED BY <1>4, <1>7, <1>9, <1>10, <1>11 DEF Keeps, RegionMoves, OnlyMoves

LEMMA UsePHolderStep ==
    ASSUME SeenAsMeant, NEW ph \in PHolders, NEW r \in Regions, NEW hide,
           NEW switchto, UsePHolder(ph, r, hide, switchto)
    PROVE  Keeps(RegionMoves)
<1>1. Fine(m) /\ Seen(m, numbered, veto) /\ ph \in OnLine(m) /\ ring' = ring
      /\ Notes({}, {}, {r})
  BY SeenAsMeantIs DEF UsePHolder
<1>2. PICK focused : m' = AttachAt(Detached(m, r), r, ph, FALSE, hide, switchto, focused)
  BY DEF UsePHolder
<1>3. /\ Fine(m') /\ OnlyMoves(m, m', r)
      /\ Seen(m', numbered \ {r}, veto \ {r})
  <2>. DEFINE p == AttachAt(Detached(m, r), r, ph, FALSE, hide, switchto, focused)
  <2>1. /\ Fine(p) /\ OnlyMoves(m, p, r)
        /\ \A N, V : Seen(m, N, V) => Seen(p, N \ {r}, V \ {r})
    BY <1>1, AttachedIs
  <2>. HIDE DEF p
  <2>2. m' = p
    BY <1>2 DEF p
  <2>. QED BY <1>1, <2>1, <2>2
<1>4. /\ Seen(m', numbered', veto')
      /\ numbered' \subseteq Regions /\ veto' \subseteq Regions
  <2>1. (numbered \ {r}) \cup {} = numbered \ {r} /\ (veto \ {r}) \cup {} = veto \ {r}
    OBVIOUS
  <2>2. Seen(m', (numbered \ {r}) \cup {}, (veto \ {r}) \cup {})
    BY <1>3, <2>1
  <2>. QED BY <1>1, <1>3, <2>2, NotesSeen
<1>. QED BY <1>1, <1>3, <1>4 DEF Keeps, RegionMoves

LEMMA LeaveStep ==
    ASSUME SeenAsMeant, NEW r \in Regions, Leave(r)
    PROVE  Keeps(RegionMoves)
<1>1. Fine(m) /\ Seen(m, numbered, veto) /\ m' = ManagedRemove(m, r) /\ ring' = ring
      /\ Notes({}, {}, {})
  BY SeenAsMeantIs DEF Leave
<1>2. /\ Fine(m') /\ OnLine(m') = OnLine(m) /\ Agree(m, m', {r})
      /\ Seen(m', numbered, veto)
  <2>. DEFINE p == ManagedRemove(m, r)
  <2>1. /\ Fine(p) /\ OnLine(p) = OnLine(m) /\ Agree(m, p, {r})
        /\ \A N, V : Seen(m, N, V) => Seen(p, N, V)
    BY <1>1, ManagedRemoveIs
  <2>. HIDE DEF p
  <2>2. m' = p
    BY <1>1 DEF p
  <2>. QED BY <1>1, <2>1, <2>2
<1>3. /\ Seen(m', numbered', veto')
      /\ numbered' \subseteq Regions /\ veto' \subseteq Regions
  BY <1>1, <1>2, NoNotesSeen
<1>. QED BY <1>1, <1>2, <1>3 DEF Keeps, RegionMoves, OnlyMoves

LEMMA SetIndexStep ==
    ASSUME SeenAsMeant, NEW r \in Regions, NEW index \in Indices,
           SetIndex(r, index), ~UNCHANGED <<m, ring, numbered, veto>>
    PROVE  Keeps(RegionMoves)
<1>. DEFINE on == r \in ToSet(m.mx)
            list == IF on THEN Unlink(m.mx, r) ELSE m.mx
            moved == IF on THEN MovePhsBefore(m, r) ELSE m
            out == [moved EXCEPT !.mx = list]
            after(busy) == IndexToAfter(out, index, busy)
            in(busy) == [out EXCEPT !.mx = LinkAfter(list, after(busy), r)]
<1>1. PICK busy \in BusySets(index) :
          /\ after(busy) # r
          /\ m' = in(busy)
          /\ Notes(IF on THEN {} ELSE {r}, {}, {}) /\ ring' = ring
  BY DEF SetIndex
<1>2. /\ Fine(m) /\ FineLine(m) /\ FineSets(m) /\ Fields(m)
      /\ Seen(m, numbered, veto) /\ r \in m.mgd
      /\ m.mx \in Seq(Regions) /\ IsInjective(m.mx) /\ None \notin Regions
  <2>1. Fine(m) /\ Seen(m, numbered, veto) /\ r \in m.mgd
    BY SeenAsMeantIs DEF SetIndex
  <2>. QED BY <2>1, NodesAndMarks DEF Fine, FineLine, Fields
<1>3. Fields(moved) /\ moved.mx = m.mx /\ SameShown(m, moved)
  <2>1. CASE on
    <3>1. Previous(m.mx, r) \in (ToSet(m.mx) \ {r}) \cup {None}
      BY <1>2, <2>1, PreviousIsNext
    <3>2. Previous(m.mx, r) \in Regions \cup {None} /\ r # Previous(m.mx, r)
      BY <1>2, <3>1, NodesAndMarks
    <3>. DEFINE o == MovePhsBefore(m, r)
    <3>3. Fields(o) /\ o.mx = m.mx /\ SameShown(m, o)
      BY <1>2, <3>2, MovePhsIs DEF MovePhsBefore
    <3>. HIDE DEF o
    <3>4. moved = o
      BY <2>1 DEF o
    <3>. QED BY <3>3, <3>4
  <2>2. CASE ~on
    BY <1>2, <2>2 DEF SameShown
  <2>. QED BY <2>1, <2>2
<1>4. list \in Seq(Regions)
  BY <1>2, UnlinkOrder
<1>. HIDE DEF list, moved
<1>5. /\ Fields(out) /\ out.mx = list /\ out.misc = moved.misc /\ out.phs = moved.phs
      /\ out.mgd = m.mgd /\ out.hidden = m.hidden /\ out.mapped = m.mapped
      /\ out.current = m.current /\ out.up = m.up /\ out.small = m.small
  BY <1>3, <1>4 DEF Fields, SameShown
<1>. HIDE DEF out
<1>6. /\ FineLine(out) /\ OnLine(out) = OnLine(m) /\ Agree(m, out, {r})
      /\ ToSet(out.mx) = ToSet(m.mx) \ {r} /\ out.phs[r] = <<>>
  <2>1. CASE on
    <3>1. /\ out.mx = Unlink(m.mx, r) /\ out.misc = MovePhsBefore(m, r).misc
          /\ out.phs = MovePhsBefore(m, r).phs
      BY <1>5, <2>1 DEF list, moved
    <3>2. r \in ToSet(m.mx) /\ Fields(out) /\ FineLine(m)
      BY <1>2, <1>5, <2>1
    <3>3. TakenOut(m, out, r)
      BY <3>1, <3>2, NodeOut
    <3>. QED BY <3>3 DEF TakenOut, OnlyMoves
  <2>2. CASE ~on
    <3>1. out.mx = m.mx /\ out.misc = m.misc /\ out.phs = m.phs
      BY <1>5, <2>2 DEF list, moved
    <3>2. FineLine(out) /\ OnLine(out) = OnLine(m) /\ Agree(m, out, {})
      BY <1>2, <1>5, <3>1, SameLists
    <3>3. out.phs[r] = <<>>
      BY <1>2, <2>2, <3>1 DEF FineLine
    <3>. QED BY <2>2, <3>1, <3>2, <3>3 DEF Agree
  <2>. QED BY <2>1, <2>2
<1>. DEFINE prev == after(busy)
            p == in(busy)
<1>7. prev \in Nodes(out) /\ prev # r
  <2>1. out.current \in Regions \cup {None}
    BY <1>5 DEF Fields
  <2>2. prev \in Nodes(out) \cup {out.current}
    BY <1>6, <2>1, IndexToAfterIs
  <2>3. out.current \in Nodes(out) \cup {r}
    BY <1>2, <1>5, <1>6 DEF FineSets, Nodes
  <2>. QED BY <1>1, <2>2, <2>3
<1>. HIDE DEF after
<1>8. LinkAfter(list, prev, r) \in Seq(Regions)
  <2>1. /\ list \in Seq(Regions) /\ IsInjective(list) /\ r \in Regions
        /\ r \notin ToSet(list) /\ prev \in ToSet(list) \cup {None}
    BY <1>4, <1>5, <1>6, <1>7 DEF FineLine, Nodes
  <2>. QED BY <1>2, <2>1, LinkAfterOrder
<1>9. /\ Fields(p) /\ p.mx = LinkAfter(out.mx, prev, r) /\ p.misc = out.misc
      /\ p.phs = out.phs
      /\ SameShown(out, p)
  BY <1>5, <1>8 DEF Fields, SameShown
<1>. HIDE DEF in
<1>10. /\ FineLine(p) /\ OnLine(p) = OnLine(out) /\ Agree(out, p, {r})
       /\ ToSet(p.mx) = ToSet(out.mx) \cup {r}
  <2>1. \A n : PhsOf(p, n) = PhsOf(out, n)
    BY <1>9 DEF PhsOf
  <2>2. PhsOf(p, prev) \o p.phs[r] = PhsOf(out, prev)
    <3>1. PhsOf(out, prev) \in Seq(Marks)
      BY <1>5, <1>7, NodesAndMarks
    <3>2. p.phs[r] = <<>>
      BY <1>6, <1>9
    <3>. QED BY <2>1, <3>1, <3>2
  <2>3. r \in Regions \ ToSet(out.mx)
    BY <1>6
  <2>4. FineLine(out) /\ prev \in Nodes(out) /\ Fields(p)
        /\ p.mx = LinkAfter(out.mx, prev, r)
    BY <1>6, <1>7, <1>9
  <2>5. PutIn(out, p, r)
    BY <2>1, <2>2, <2>3, <2>4, NodeIn
  <2>. QED BY <2>5 DEF PutIn, OnlyMoves
<1>11. m' = p /\ Notes(IF on THEN {} ELSE {r}, {}, {}) /\ ring' = ring
  BY <1>1
<1>. HIDE DEF p
<1>12. OnlyMoves(m, p, r) /\ ToSet(p.mx) = ToSet(m.mx) \cup {r} /\ SameShown(m, p)
  <2>1. Agree(m, p, {r})
    BY <1>6, <1>10, AgreeTrans
  <2>2. SameShown(m, p)
    BY <1>5, <1>9 DEF SameShown
  <2>. QED BY <1>6, <1>10, <2>1, <2>2 DEF OnlyMoves
<1>13. FineSets(p)
  BY <1>2, <1>12 DEF FineSets, SameShown
<1>14. Seen(p, numbered \cup (IF on THEN {} ELSE {r}), veto)
  <2>1. Shown(p) = Shown(m) /\ MayBeMapped(p) = MayBeMapped(m)
    BY <1>12 DEF Shown, MayBeMapped, SameShown
  <2>2. OnlyCurrent(p, numbered \cup (IF on THEN {} ELSE {r}), veto)
    BY <1>2, <1>12, <2>1 DEF Seen, OnlyCurrent, SameShown
  <2>3. p.mapped = ToMap(p)
    BY <1>2, <1>12, <2>1 DEF Seen, ToMap, SameShown
  <2>. QED BY <2>2, <2>3 DEF Seen
<1>15. /\ Seen(m', numbered', veto')
       /\ numbered' \subseteq Regions /\ veto' \subseteq Regions
  <2>. DEFINE now == IF on THEN {} ELSE {r}
  <2>1. Seen(m', (numbered \ {}) \cup now, (veto \ {}) \cup {})
    <3>1. (numbered \ {}) \cup now = numbered \cup now /\ (veto \ {}) \cup {} = veto
      OBVIOUS
    <3>. QED BY <1>11, <1>14, <3>1
  <2>2. Fine(m')
    BY <1>10, <1>11, <1>13 DEF Fine
  <2>. QED BY <1>11, <2>1, <2>2, NotesSeen
<1>. QED BY <1>10, <1>11, <1>12, <1>13, <1>15 DEF Keeps, RegionMoves, Fine
\* Where only what is shown changes.
LEMMA ShownStep ==
    ASSUME SeenAsMeant, Fields(m'), FineSets(m'), m'.mx = m.mx, m'.misc = m.misc,
           m'.phs = m.phs, ring' = ring, Seen(m', numbered', veto'),
           numbered' \subseteq Regions, veto' \subseteq Regions
    PROVE  Keeps(LineStays)
<1>1. FineLine(m)
  BY SeenAsMeantIs DEF Fine
<1>2. FineLine(m') /\ OnLine(m') = OnLine(m) /\ Line(m') = Line(m)
  <2>. DEFINE p == m'
  <2>1. Fields(p) /\ p.mx = m.mx /\ p.misc = m.misc /\ p.phs = m.phs
    OBVIOUS
  <2>. HIDE DEF p
  <2>2. FineLine(p) /\ OnLine(p) = OnLine(m) /\ Line(p) = Line(m)
    BY <1>1, <2>1, SameLists
  <2>. QED BY <2>2 DEF p
<1>. QED BY <1>2 DEF Keeps, LineStays, Fine

LEMMA DisplayedIs ==
    ASSUME SeenAsMeant, NEW r \in m.mgd
    PROVE  LET p == Display(m, r)
           IN /\ Fields(p) /\ FineSets(p) /\ p.mx = m.mx /\ p.misc = m.misc
              /\ p.phs = m.phs /\ p.mgd = m.mgd /\ Seen(p, numbered, veto)
<1>1. Fields(m) /\ FineSets(m) /\ Seen(m, numbered, veto)
  BY SeenAsMeantIs DEF Fine, FineLine
<1>2. (IF r \in m.hidden THEN m.mapped \ {r} ELSE m.mapped) = ToMap(m)
  BY <1>1 DEF Seen, ToMap, Shown
<1>3. OnlyCurrent(m, numbered, veto)
  BY <1>1 DEF Seen
<1>4. Seen(Display(m, r), numbered, veto)
  BY <1>1, <1>2, <1>3, DisplaySeen
<1>. QED BY <1>1, <1>4, DisplayIs

LEMMA DisplayStep ==
    ASSUME SeenAsMeant, NEW r \in m.mgd, m' = Display(m, r), Notes({}, {}, {}),
           ring' = ring
    PROVE  Keeps(LineStays)
<1>. DEFINE p == Display(m, r)
<1>1. /\ Fields(p) /\ FineSets(p) /\ p.mx = m.mx /\ p.misc = m.misc
      /\ p.phs = m.phs /\ Seen(p, numbered, veto)
  BY DisplayedIs
<1>. HIDE DEF p
<1>2. m' = p
  BY DEF p
<1>3. /\ Fields(m') /\ FineSets(m') /\ m'.mx = m.mx /\ m'.misc = m.misc
      /\ m'.phs = m.phs /\ Seen(m', numbered, veto)
  BY <1>1, <1>2
<1>4. Fine(m')
  <2>1. FineLine(m)
    BY SeenAsMeantIs DEF Fine
  <2>2. FineLine(p)
    BY <1>1, <2>1, SameLists
  <2>. QED BY <1>2, <1>3, <2>2 DEF Fine
<1>5. /\ Seen(m', numbered', veto')
      /\ numbered' \subseteq Regions /\ veto' \subseteq Regions
  BY <1>3, <1>4, NoNotesSeen
<1>. QED BY <1>3, <1>5, ShownStep

LEMMA SwitchStep ==
    ASSUME SeenAsMeant,
           \/ \E n \in DOMAIN m.mx : SwitchNth(n)
           \/ SwitchNext \/ SwitchPrev
    PROVE  Keeps(LineStays)
<1>1. PICK r : Switch(r)
  BY DEF SwitchNth, SwitchNext, SwitchPrev
<1>2. r \in m.mgd
  BY <1>1, SeenAsMeantIs DEF Switch, Fine, FineSets
<1>. QED BY <1>1, <1>2, DisplayStep DEF Switch

LEMMA UnhideStep ==
    ASSUME SeenAsMeant, NEW r, Unhide(r)
    PROVE  Keeps(LineStays)
BY DisplayStep DEF Unhide

LEMMA HideStep ==
    ASSUME SeenAsMeant, NEW r \in Regions, Hide(r)
    PROVE  Keeps(LineStays)
<1>. DEFINE vetoed == {r} \cap {m.current}
            p == [m EXCEPT !.hidden = @ \cup {r},
                           !.mapped = IF MayBeMapped(m) THEN @ \ {r} ELSE @]
<1>1. /\ Fine(m) /\ FineLine(m) /\ FineSets(m) /\ Fields(m) /\ Seen(m, numbered, veto)
      /\ r \in m.mgd
  BY SeenAsMeantIs DEF Hide, Fine, FineLine, Shown
<1>2. m' = p /\ Notes({}, vetoed, {}) /\ ring' = ring
  BY DEF Hide
<1>3. /\ Fields(p) /\ p.mx = m.mx /\ p.misc = m.misc /\ p.phs = m.phs /\ p.mgd = m.mgd
      /\ p.current = m.current /\ p.up = m.up /\ p.small = m.small
      /\ p.hidden = m.hidden \cup {r}
      /\ p.mapped = IF MayBeMapped(m) THEN m.mapped \ {r} ELSE m.mapped
  BY <1>1 DEF Fields
<1>. HIDE DEF p
<1>4. FineSets(p) /\ FineLine(p)
  <2>1. FineSets(p)
    BY <1>1, <1>3 DEF FineSets
  <2>2. FineLine(p)
    BY <1>1, <1>3, SameLists
  <2>. QED BY <2>1, <2>2
<1>5. Seen(p, numbered, veto \cup vetoed)
  <2>1. Shown(p) = Shown(m) \ {r} /\ MayBeMapped(p) = MayBeMapped(m)
    BY <1>3 DEF Shown, MayBeMapped
  <2>2. OnlyCurrent(p, numbered, veto \cup vetoed)
    BY <1>1, <1>3, <2>1 DEF Seen, OnlyCurrent
  <2>3. p.mapped = ToMap(p)
    BY <1>1, <1>3, <2>1 DEF Seen, ToMap
  <2>. QED BY <2>2, <2>3 DEF Seen
<1>6. /\ Seen(m', numbered', veto')
      /\ numbered' \subseteq Regions /\ veto' \subseteq Regions
  <2>1. (numbered \ {}) \cup {} = numbered /\ (veto \ {}) \cup vetoed = veto \cup vetoed
    OBVIOUS
  <2>2. Seen(m', (numbered \ {}) \cup {}, (veto \ {}) \cup vetoed)
    BY <1>2, <1>5, <2>1
  <2>3. Fine(m')
    BY <1>2, <1>4 DEF Fine
  <2>. QED BY <1>2, <2>2, <2>3, NotesSeen
<1>7. /\ Fields(m') /\ FineSets(m') /\ m'.mx = m.mx /\ m'.misc = m.misc
      /\ m'.phs = m.phs
  BY <1>2, <1>3, <1>4
<1>. QED BY <1>2, <1>6, <1>7, ShownStep

LEMMA GotoStep ==
    ASSUME SeenAsMeant, NEW r \in Regions, NEW inTheWay, Goto(r, inTheWay)
    PROVE  Keeps(LineStays)
<1>. DEFINE q == Display(m, r)
            p == [q EXCEPT !.hidden = @ \cup inTheWay, !.mapped = @ \ inTheWay]
<1>1. /\ Fine(m) /\ FineLine(m) /\ FineSets(m) /\ r \in m.mgd
      /\ inTheWay \subseteq m.mgd \ ToSet(m.mx)
  BY SeenAsMeantIs DEF Goto, Fine, Shown
<1>2. /\ Fields(q) /\ FineSets(q) /\ q.mx = m.mx /\ q.misc = m.misc
      /\ q.phs = m.phs /\ q.mgd = m.mgd /\ Seen(q, numbered, veto)
  BY <1>1, DisplayedIs
<1>3. m' = p /\ Notes({}, {}, {}) /\ ring' = ring
  BY DEF Goto
<1>. HIDE DEF q
<1>4. /\ Fields(p) /\ p.mx = q.mx /\ p.misc = q.misc /\ p.phs = q.phs /\ p.mgd = q.mgd
      /\ p.current = q.current /\ p.up = q.up /\ p.small = q.small
      /\ p.hidden = q.hidden \cup inTheWay /\ p.mapped = q.mapped \ inTheWay
  <2>1. q.hidden \cup inTheWay \in SUBSET Regions /\ q.mapped \ inTheWay \in SUBSET Regions
    BY <1>1, <1>2 DEF Fields
  <2>. QED BY <1>2, <2>1 DEF Fields
<1>. HIDE DEF p
<1>5. FineSets(p) /\ FineLine(p)
  <2>1. FineSets(p)
    BY <1>1, <1>2, <1>4 DEF FineSets
  <2>2. FineLine(p)
    BY <1>1, <1>2, <1>4, SameLists
  <2>. QED BY <2>1, <2>2
<1>6. Seen(p, numbered, veto)
  <2>1. Shown(p) = Shown(q) \ inTheWay /\ MayBeMapped(p) = MayBeMapped(q)
    BY <1>4 DEF Shown, MayBeMapped
  <2>2. q.current \notin inTheWay
    <3>1. ToSet(m.mx) \subseteq m.mgd /\ m.mgd \subseteq Regions /\ None \notin Regions
      BY <1>1, MPlexAssumption DEF FineSets, FineLine, Fields
    <3>. QED BY <1>1, <1>2, <3>1 DEF FineSets
  <2>3. OnlyCurrent(p, numbered, veto)
    BY <1>2, <1>4, <2>1, <2>2 DEF Seen, OnlyCurrent
  <2>4. p.mapped = ToMap(p)
    BY <1>2, <1>4, <2>1 DEF Seen, ToMap
  <2>. QED BY <2>3, <2>4 DEF Seen
<1>7. Fine(m') /\ Seen(m', numbered, veto)
  BY <1>3, <1>5, <1>6 DEF Fine
<1>8. /\ Seen(m', numbered', veto')
      /\ numbered' \subseteq Regions /\ veto' \subseteq Regions
  BY <1>3, <1>7, NoNotesSeen
<1>9. /\ Fields(m') /\ FineSets(m') /\ m'.mx = m.mx /\ m'.misc = m.misc
      /\ m'.phs = m.phs
  BY <1>2, <1>3, <1>4, <1>5
<1>. QED BY <1>3, <1>8, <1>9, ShownStep

LEMMA MapStep ==
    ASSUME SeenAsMeant, Map \/ Unmap \/ Fit
    PROVE  Keeps(LineStays)
<1>1. /\ Fine(m) /\ FineLine(m) /\ FineSets(m) /\ Fields(m) /\ Seen(m, numbered, veto)
      /\ numbered \subseteq Regions /\ veto \subseteq Regions
  BY SeenAsMeantIs DEF Fine, FineLine
<1>2. UNCHANGED <<ring, numbered, veto>>
  BY DEF Map, Unmap, Fit
<1>3. PICK up \in BOOLEAN, small \in BOOLEAN, mapped \in SUBSET Regions :
        /\ m' = [m EXCEPT !.up = up, !.small = small, !.mapped = mapped]
        /\ mapped = IF up /\ ~small THEN Shown(m) ELSE {}
  <2>1. m = [m EXCEPT !.up = m.up, !.small = m.small]
    BY <1>1 DEF Fields
  <2>2. /\ m.mapped = IF m.up /\ ~m.small THEN Shown(m) ELSE {}
        /\ Shown(m) \in SUBSET Regions /\ m.up \in BOOLEAN /\ m.small \in BOOLEAN
    BY <1>1 DEF Seen, ToMap, MayBeMapped, Shown, Fields
  <2>3. CASE Map
    <3>. DEFINE mapped == IF m.small THEN m.mapped ELSE m.mapped \cup Shown(m)
    <3>1. m' = [m EXCEPT !.up = TRUE, !.mapped = mapped]
      BY <2>3 DEF Map
    <3>2. mapped = IF TRUE /\ ~m.small THEN Shown(m) ELSE {}
      BY <2>2
    <3>. HIDE DEF mapped
    <3>3. m' = [m EXCEPT !.up = TRUE, !.small = m.small, !.mapped = mapped]
      BY <1>1, <3>1 DEF Fields
    <3>. QED BY <2>2, <3>2, <3>3
  <2>4. CASE Unmap
    <3>. DEFINE mapped == IF m.small THEN m.mapped ELSE m.mapped \ Shown(m)
    <3>1. m' = [m EXCEPT !.up = FALSE, !.mapped = mapped]
      BY <2>4 DEF Unmap
    <3>2. mapped = IF FALSE /\ ~m.small THEN Shown(m) ELSE {}
      BY <2>2
    <3>. HIDE DEF mapped
    <3>3. m' = [m EXCEPT !.up = FALSE, !.small = m.small, !.mapped = mapped]
      BY <1>1, <3>1 DEF Fields
    <3>. QED BY <2>2, <3>2, <3>3
  <2>5. CASE Fit
    <3>. DEFINE mapped == IF ~m.up THEN m.mapped
                          ELSE IF m.small THEN m.mapped \cup Shown(m)
                          ELSE m.mapped \ Shown(m)
                now == ~m.small
    <3>1. m' = [m EXCEPT !.small = now, !.mapped = mapped]
      BY <2>5 DEF Fit
    <3>2. mapped = IF m.up /\ ~now THEN Shown(m) ELSE {}
      BY <2>2
    <3>4. now \in BOOLEAN /\ mapped \in SUBSET Regions
      BY <1>1, <2>2 DEF Fields
    <3>. HIDE DEF mapped, now
    <3>3. m' = [m EXCEPT !.up = m.up, !.small = now, !.mapped = mapped]
      BY <1>1, <3>1 DEF Fields
    <3>. QED BY <2>2, <3>2, <3>3, <3>4
  <2>. QED BY <2>3, <2>4, <2>5
<1>. DEFINE p == [m EXCEPT !.up = up, !.small = small, !.mapped = mapped]
<1>4. /\ Fields(p) /\ p.mx = m.mx /\ p.misc = m.misc /\ p.phs = m.phs /\ p.mgd = m.mgd
      /\ p.current = m.current /\ p.up = up /\ p.small = small
      /\ p.hidden = m.hidden /\ p.mapped = mapped
  BY <1>1 DEF Fields
<1>5. m' = p
  BY <1>3
<1>. HIDE DEF p
<1>6. Shown(p) = Shown(m) /\ (MayBeMapped(p) <=> up /\ ~small) /\ Shown(m) \subseteq m.mgd
  BY <1>4 DEF Shown, MayBeMapped
<1>7. FineSets(p)
  BY <1>1, <1>3, <1>4, <1>6 DEF FineSets
<1>8. Seen(p, numbered, veto)
  <2>1. OnlyCurrent(p, numbered, veto)
    BY <1>1, <1>4, <1>6 DEF Seen, OnlyCurrent
  <2>2. p.mapped = ToMap(p)
    BY <1>3, <1>4, <1>6 DEF ToMap
  <2>. QED BY <2>1, <2>2 DEF Seen
<1>9. /\ Fields(m') /\ FineSets(m') /\ m'.mx = m.mx /\ m'.misc = m.misc
      /\ m'.phs = m.phs /\ ring' = ring /\ Seen(m', numbered', veto')
      /\ numbered' \subseteq Regions /\ veto' \subseteq Regions
  BY <1>1, <1>2, <1>4, <1>5, <1>7, <1>8
<1>. QED BY <1>9, ShownStep

\* Where one placeholder comes or goes.
LEMMA PlaceStep ==
    ASSUME SeenAsMeant, NEW p, FineLine(p), p.mx = m.mx, SameShown(m, p), m' = p,
           UNCHANGED <<ring, numbered, veto>>,
           NEW ph \in PHolders, Agree(m, p, {ph}),
           \/ ph \notin Present /\ OnLine(p) = OnLine(m) \cup {ph}
           \/ OnLine(p) = OnLine(m) \ {ph}
    PROVE  Keeps(PlaceMoves)
<1>1. /\ FineSets(m) /\ Seen(m, numbered, veto)
      /\ numbered \subseteq Regions /\ veto \subseteq Regions
  BY SeenAsMeantIs DEF Fine
<1>2. FineSets(p) /\ Seen(p, numbered, veto)
  BY <1>1, SameSeen
<1>. QED BY <1>1, <1>2 DEF Keeps, PlaceMoves, Fine

LEMMA MakePHolderStep ==
    ASSUME SeenAsMeant, NEW ph \in PHolders, NEW index \in Indices,
           MakePHolder(ph, index)
    PROVE  Keeps(PlaceMoves)
<1>1. PICK busy \in BusySets(index) : m' = NewPHolder(m, ph, index, busy)
  BY DEF MakePHolder
<1>2. /\ ph \notin Present /\ ph \notin OnLine(m) /\ ph \in Marks /\ Fine(m)
      /\ UNCHANGED <<ring, numbered, veto>>
  BY SeenAsMeantIs DEF MakePHolder, Present, Marks
<1>. DEFINE p == NewPHolder(m, ph, index, busy)
<1>3. /\ Fine(p) /\ SameShown(m, p) /\ p.mx = m.mx
      /\ OnLine(p) = OnLine(m) \cup {ph} /\ Agree(m, p, {ph})
  BY <1>2, NewPHolderIs
<1>4. m' = p
  BY <1>1
<1>. HIDE DEF p
<1>. QED BY <1>2, <1>3, <1>4, PlaceStep DEF Fine

LEMMA GetPHolderStep ==
    ASSUME SeenAsMeant, NEW ph \in PHolders, NEW r \in Regions, GetPHolder(ph, r)
    PROVE  Keeps(PlaceMoves)
<1>1. /\ ph \notin Present /\ ph \notin OnLine(m) /\ ph \in Marks /\ FineLine(m)
      /\ UNCHANGED <<ring, numbered, veto>> /\ r \in ToSet(m.mx)
  BY SeenAsMeantIs DEF GetPHolder, Present, Marks, Fine
<1>. DEFINE after == OrNone(m.phs[r])
            p == Link(m, ph, after, r)
<1>2. m' = p
  BY DEF GetPHolder, PHolderOf
<1>3. r \in Nodes(m) /\ after \in ToSet(PhsOf(m, r)) \cup {None}
  <2>1. m.phs[r] \in Seq(Marks) /\ r # None
    BY <1>1, MPlexAssumption DEF FineLine, Fields
  <2>2. PhsOf(m, r) = m.phs[r]
    BY <2>1 DEF PhsOf
  <2>. QED BY <1>1, <2>1, <2>2 DEF OrNone, Last, ToSet, Nodes
<1>. HIDE DEF after
<1>4. /\ FineLine(p) /\ p.mx = m.mx /\ SameShown(m, p)
      /\ OnLine(p) = OnLine(m) \cup {ph} /\ Agree(m, p, {ph})
  BY <1>1, <1>3, LinkLine
<1>. HIDE DEF p
<1>. QED BY <1>1, <1>2, <1>4, PlaceStep

LEMMA DropPHolderStep ==
    ASSUME SeenAsMeant, NEW ph \in PHolders, DropPHolder(ph)
    PROVE  Keeps(PlaceMoves)
<1>1. ph \in Marks /\ FineLine(m) /\ UNCHANGED <<ring, numbered, veto>>
  BY SeenAsMeantIs DEF DropPHolder, Marks, Fine
<1>. DEFINE p == Unlinked(m, ph)
<1>2. m' = p
  BY DEF DropPHolder
<1>3. /\ FineLine(p) /\ p.mx = m.mx /\ SameShown(m, p)
      /\ OnLine(p) = OnLine(m) \ {ph} /\ Agree(m, p, {ph})
  BY <1>1, UnlinkedLine
<1>. HIDE DEF p
<1>. QED BY <1>1, <1>2, <1>3, PlaceStep
LEMMA NoElements ==
    ASSUME NEW T, NEW s \in Seq(T), ToSet(s) = {}
    PROVE  s = <<>>
<1>1. ASSUME s # <<>> PROVE s[1] \in ToSet(s)
  BY <1>1 DEF ToSet
<1>. QED BY <1>1

\* A new mplex.
LEMMA BlankIs ==
    ASSUME NEW small \in BOOLEAN
    PROVE  /\ Fine(Blank(small)) /\ OnLine(Blank(small)) = {}
           /\ Line(Blank(small)) = <<>>
           /\ \A N, V : Seen(Blank(small), N, V)
<1>. DEFINE q == Blank(small)
<1>1. /\ q.mgd = {} /\ q.mx = <<>> /\ q.current = None /\ q.misc = <<>>
      /\ q.phs = [r \in Regions |-> <<>>] /\ q.hidden = {} /\ q.mapped = {}
      /\ q.up = FALSE /\ q.small = small
  BY DEF Blank
<1>2. Fields(q)
  <2>1. <<>> \in Seq(Regions) /\ <<>> \in Seq(Marks)
    OBVIOUS
  <2>. QED BY <2>1 DEF Blank, Fields
<1>. HIDE DEF q
<1>3. \A n \in Regions \cup {None} : PhsOf(q, n) = <<>>
  BY <1>1 DEF PhsOf
<1>4. ToSet(<<>>) = {} /\ IsInjective(<<>>)
  BY DEF ToSet, IsInjective
<1>5. FineLine(q)
  BY <1>1, <1>2, <1>3, <1>4 DEF FineLine
<1>6. FineSets(q)
  BY <1>1, <1>4 DEF FineSets
<1>7. OnLine(q) = {}
  BY <1>1, <1>4 DEF OnLine
<1>8. Line(q) = <<>>
  <2>1. Line(q) \in Seq(All) /\ ToSet(Line(q)) = {}
    BY <1>1, <1>4, <1>5, <1>7, LineOf
  <2>. QED BY <2>1, NoElements
<1>9. ASSUME NEW N, NEW V PROVE Seen(q, N, V)
  BY <1>1, MPlexAssumption DEF Seen, OnlyCurrent, ToMap, Shown, MayBeMapped
<1>. QED BY <1>5, <1>6, <1>7, <1>8, <1>9 DEF Fine, q

LEMMA DropFromRingStep ==
    ASSUME SeenAsMeant, NEW ph \in PHolders, DropFromRing(ph)
    PROVE  /\ UNCHANGED <<m, numbered, veto>>
           /\ failed' \in {"no", "assertion", "loop", "selflink"}
           /\ ring' \in Seq(PHolders) /\ IsInjective(ring')
           /\ ToSet(ring') \subseteq ToSet(ring)
           /\ ring' = ring \/ ring' = Dropping(ring, {ph})
<1>1. /\ ring \in Seq(PHolders) /\ IsInjective(ring) /\ ph \in ToSet(ring)
      /\ ring' \in {ring, Unlink(ring, ph)}
  BY SeenAsMeantIs DEF Rings, DropFromRing
<1>2. /\ Unlink(ring, ph) \in Seq(PHolders) /\ IsInjective(Unlink(ring, ph))
      /\ ToSet(Unlink(ring, ph)) = ToSet(ring) \ {ph}
      /\ Unlink(ring, ph) = Dropping(ring, {ph})
  BY <1>1, UnlinkOrder
<1>3. UNCHANGED <<m, numbered, veto>> /\ failed' \in {"no", "assertion", "loop", "selflink"}
  BY DEF DropFromRing
<1>. QED BY <1>1, <1>2, <1>3

\* The nodes of a line, and a line whose placeholders are before all nodes.
LEMMA NodesInLine ==
    ASSUME NEW q, FineLine(q), NEW x \in Regions, NEW y \in Regions
    PROVE  InLine(q, x, y) <=> <<x, y>> \in Order(q.mx)
<1>1. /\ q.mx \in Seq(Regions) /\ IsInjective(q.mx) /\ None \notin Regions
      /\ \A n \in Nodes(q) : n \in Regions \cup {None} /\ ToSet(PhsOf(q, n)) \subseteq Marks
      /\ Regions \cap Marks = {}
  BY NodesAndMarks DEF FineLine, Fields
<1>2. \A v, w : <<v, w>> \in Order(q.mx) => v \in ToSet(q.mx) /\ w \in ToSet(q.mx)
  BY <1>1, OrderIsTotal
<1>3. \A v \in ToSet(q.mx) : <<v, v>> \in Order(q.mx)
  BY <1>1, OrderIsTotal
<1>4. \A n \in Nodes(q), v \in Regions : At(q, n, v) <=> n = v
  BY <1>1 DEF At
<1>5. x # None /\ y # None
  BY <1>1
<1>6. InLine(q, x, y) => <<x, y>> \in Order(q.mx)
  <2>. SUFFICES ASSUME NEW n \in Nodes(q), NEW o \in Nodes(q), At(q, n, x), At(q, o, y),
                       \/ n = o
                       \/ n # o /\ Upto(q.mx, n, o)
                PROVE  <<x, y>> \in Order(q.mx)
    BY DEF InLine
  <2>1. n = x /\ o = y
    BY <1>4
  <2>. QED BY <1>3, <1>5, <2>1 DEF Upto, Nodes
<1>7. <<x, y>> \in Order(q.mx) => InLine(q, x, y)
  <2>. SUFFICES ASSUME <<x, y>> \in Order(q.mx) PROVE InLine(q, x, y)
    OBVIOUS
  <2>1. x \in Nodes(q) /\ y \in Nodes(q)
    BY <1>2 DEF Nodes
  <2>2. At(q, x, x) /\ At(q, y, y)
    BY <1>4, <2>1
  <2>. QED BY <2>1, <2>2 DEF InLine, Upto
<1>. QED BY <1>6, <1>7

LEMMA FlatLine ==
    ASSUME NEW q, FineLine(q), \A r \in Regions : q.phs[r] = <<>>
    PROVE  /\ Line(q) = q.misc \o q.mx /\ OnLine(q) = ToSet(q.misc)
           /\ \A x, y : x \notin Regions /\ y \notin Regions =>
                 (InLine(q, x, y) <=> <<x, y>> \in Order(q.misc))
<1>1. /\ Fields(q) /\ q.mx \in Seq(Regions) /\ IsInjective(q.mx) /\ None \notin Regions
      /\ \A n \in Nodes(q) : n \in Regions \cup {None} /\ ToSet(PhsOf(q, n)) \subseteq Marks
      /\ Regions \cap Marks = {} /\ ToSet(q.mx) \subseteq Regions /\ None \notin Marks
  BY NodesAndMarks DEF FineLine, Fields
<1>2. /\ q.misc \in Seq(Marks) /\ IsInjective(q.misc) /\ ToSet(q.misc) \subseteq Marks
      /\ PhsOf(q, None) = q.misc
  <2>1. PhsOf(q, None) = q.misc /\ None \in Regions \cup {None}
    BY DEF PhsOf
  <2>. QED BY <1>1, <2>1, NodesAndMarks DEF FineLine
<1>3. \A r \in Regions : PhsOf(q, r) = <<>>
  BY <1>1 DEF PhsOf
<1>4. ToSet(<<>>) = {}
  BY DEF ToSet
<1>5. /\ q.misc \in Seq(All) /\ q.mx \in Seq(All)
  BY <1>1, <1>2 DEF All
<1>6. /\ q.misc \o q.mx \in Seq(All) /\ IsInjective(q.misc \o q.mx)
      /\ \A x, y : <<x, y>> \in Order(q.misc \o q.mx) <=>
           \/ <<x, y>> \in Order(q.misc) \/ <<x, y>> \in Order(q.mx)
           \/ x \in ToSet(q.misc) /\ y \in ToSet(q.mx)
  <2>1. ToSet(q.misc) \cap ToSet(q.mx) = {}
    BY <1>1, <1>2
  <2>. QED BY <1>1, <1>2, <1>5, <2>1, ConcatElements
<1>7. \A n \in Nodes(q) : \A x : At(q, n, x) <=>
          \/ n = None /\ x \in ToSet(q.misc)
          \/ n \in ToSet(q.mx) /\ x = n
  BY <1>1, <1>2, <1>3, <1>4 DEF At, Nodes
<1>8. \A x, y : <<x, y>> \in Order(q.mx) => x \in ToSet(q.mx) /\ y \in ToSet(q.mx)
  BY <1>1, OrderIsTotal
<1>9. \A x, y : <<x, y>> \in Order(q.misc) => x \in ToSet(q.misc) /\ y \in ToSet(q.misc)
  BY <1>2, OrderIsTotal
<1>10. ASSUME NEW x, NEW y
       PROVE  InLine(q, x, y) <=>
                \/ <<x, y>> \in Order(q.misc) \/ <<x, y>> \in Order(q.mx)
                \/ x \in ToSet(q.misc) /\ y \in ToSet(q.mx)
  <2>0. None \in Nodes(q) /\ ToSet(q.mx) \subseteq Nodes(q)
    BY DEF Nodes
  <2>1. ASSUME NEW n \in Nodes(q), NEW o \in Nodes(q), At(q, n, x), At(q, o, y),
               \/ n = o /\ (x = n \/ <<x, y>> \in Order(PhsOf(q, n)))
               \/ n # o /\ Upto(q.mx, n, o)
        PROVE  \/ <<x, y>> \in Order(q.misc) \/ <<x, y>> \in Order(q.mx)
               \/ x \in ToSet(q.misc) /\ y \in ToSet(q.mx)
    <3>1. CASE n = None
      <4>1. x \in ToSet(q.misc) /\ x # None
        BY <1>1, <1>2, <1>7, <2>1, <3>1
      <4>2. CASE o = None
        BY <1>2, <2>1, <3>1, <4>1, <4>2
      <4>3. CASE o # None
        BY <1>7, <2>1, <4>1, <4>3
      <4>. QED BY <4>2, <4>3
    <3>2. CASE n # None
      <4>1. x = n /\ n \in ToSet(q.mx)
        BY <1>7, <2>1, <3>2
      <4>2. CASE n = o
        <5>1. y = n
          BY <1>7, <2>1, <3>2, <4>2
        <5>2. <<n, n>> \in Order(q.mx)
          BY <1>1, <4>1, OrderIsTotal
        <5>. QED BY <4>1, <5>1, <5>2
      <4>3. CASE n # o
        <5>1. <<n, o>> \in Order(q.mx)
          BY <2>1, <3>2, <4>3 DEF Upto
        <5>2. o \in ToSet(q.mx) /\ o # None
          BY <1>1, <1>8, <5>1
        <5>3. y = o
          BY <1>7, <2>1, <5>2
        <5>. QED BY <4>1, <5>1, <5>3
      <4>. QED BY <4>2, <4>3
    <3>. QED BY <3>1, <3>2
  <2>2. <<x, y>> \in Order(q.misc) => InLine(q, x, y)
    BY <1>2, <1>7, <1>9, <2>0 DEF InLine
  <2>3. <<x, y>> \in Order(q.mx) => InLine(q, x, y)
    <3>. SUFFICES ASSUME <<x, y>> \in Order(q.mx) PROVE InLine(q, x, y)
      OBVIOUS
    <3>1. x \in Regions /\ y \in Regions
      BY <1>1, <1>8
    <3>. QED BY <3>1, NodesInLine
  <2>4. x \in ToSet(q.misc) /\ y \in ToSet(q.mx) => InLine(q, x, y)
    <3>. SUFFICES ASSUME x \in ToSet(q.misc), y \in ToSet(q.mx) PROVE InLine(q, x, y)
      OBVIOUS
    <3>1. At(q, None, x) /\ At(q, y, y) /\ None # y /\ Upto(q.mx, None, y)
      BY <1>1, <1>7, <2>0 DEF Upto
    <3>. QED BY <2>0, <3>1 DEF InLine
  <2>5. InLine(q, x, y) => \/ <<x, y>> \in Order(q.misc) \/ <<x, y>> \in Order(q.mx)
                           \/ x \in ToSet(q.misc) /\ y \in ToSet(q.mx)
    BY <2>1 DEF InLine
  <2>. QED BY <2>2, <2>3, <2>4, <2>5
<1>11. Line(q) = q.misc \o q.mx
  <2>. DEFINE L == Line(q)
              M == q.misc \o q.mx
  <2>1. L \in Seq(All) /\ IsInjective(L)
    BY LineOf
  <2>2. \A x, y : <<x, y>> \in Order(L) <=> InLine(q, x, y)
    BY LineOf
  <2>3. \A x, y : <<x, y>> \in Order(M) <=> InLine(q, x, y)
    BY <1>6, <1>10
  <2>4. M \in Seq(All) /\ IsInjective(M)
    BY <1>6
  <2>. HIDE DEF L, M
  <2>5. L = M
    BY <2>1, <2>2, <2>3, <2>4, OrderDetermines
  <2>. QED BY <2>5 DEF L, M
<1>12. OnLine(q) = ToSet(q.misc)
  BY <1>4 DEF OnLine
<1>13. \A x, y : x \notin Regions /\ y \notin Regions =>
                 (InLine(q, x, y) <=> <<x, y>> \in Order(q.misc))
  BY <1>1, <1>8, <1>10
<1>. QED BY <1>11, <1>12, <1>13

\* What frame_rescue_clientwins leaves in the frame.
LEMMA RescuedIs ==
    ASSUME SeenAsMeant, NEW kept \in SUBSET m.mgd
    PROVE  LET going == Dropping(m.mx, kept)
               others == SetToSeq(m.mgd \ (kept \cup ToSet(m.mx)))
               flat == Flatten(AllRemoved(m, going \o others))
           IN /\ Fine(flat) /\ flat.mgd = kept /\ Seen(flat, numbered, veto)
              /\ OnLine(flat) = OnLine(m) /\ \A r \in Regions : flat.phs[r] = <<>>
              /\ flat.misc = Dropping(Line(m), Regions)
              /\ flat.mx = Dropping(Dropping(Line(m), PHolders), m.mgd \ kept)
<1>. DEFINE going == Dropping(m.mx, kept)
            others == SetToSeq(m.mgd \ (kept \cup ToSet(m.mx)))
            list == going \o others
            rest == AllRemoved(m, list)
            flat == Flatten(rest)
            gone == m.mgd \ kept
            places == Dropping(Line(m), Regions)
            stays == Dropping(Dropping(Line(m), PHolders), gone)
<1>1. /\ Fine(m) /\ FineLine(m) /\ Seen(m, numbered, veto) /\ Temp \notin OnLine(m)
      /\ m.mx \in Seq(Regions) /\ ToSet(m.mx) \subseteq m.mgd /\ m.mgd \subseteq Regions
  BY SeenAsMeantIs DEF Fine, FineLine, FineSets, Fields
<1>2. list \in Seq(Regions) /\ ToSet(list) = gone
  <2>1. going \in Seq(Regions) /\ ToSet(going) = ToSet(m.mx) \ kept
    BY <1>1, DroppingElements
  <2>. DEFINE S == m.mgd \ (kept \cup ToSet(m.mx))
  <2>2. IsFiniteSet(S) /\ S \subseteq Regions
    BY <1>1, MPlexAssumption, FS_Subset
  <2>3. others \in Seq(S) /\ ToSet(others) = S
    BY <2>2, SetToSeqIs
  <2>4. others \in Seq(Regions)
    BY <2>2, <2>3
  <2>. HIDE DEF going, others
  <2>5. list \in Seq(Regions) /\ ToSet(list) = ToSet(going) \cup ToSet(others)
    BY <2>1, <2>4, ConcatElements
  <2>. QED BY <1>1, <2>1, <2>3, <2>5
<1>. HIDE DEF list
<1>3. /\ Fine(rest) /\ rest.mgd = m.mgd \ gone /\ OnLine(rest) = OnLine(m)
      /\ Agree(m, rest, gone) /\ Seen(rest, numbered, veto)
      /\ ToSet(rest.mx) = ToSet(m.mx) \ gone
  <2>1. Fine(rest) /\ rest.mgd = m.mgd \ ToSet(list)
    BY <1>1, <1>2, AllRemovedIs
  <2>2. OnLine(rest) = OnLine(m) /\ ToSet(rest.mx) = ToSet(m.mx) \ ToSet(list)
    BY <1>1, <1>2, AllRemovedIs
  <2>3. Agree(m, rest, ToSet(list)) /\ Seen(rest, numbered, veto)
    BY <1>1, <1>2, AllRemovedIs
  <2>. QED BY <1>2, <2>1, <2>2, <2>3
<1>. HIDE DEF rest
<1>4. FineLine(rest)
  BY <1>3 DEF Fine
<1>5. /\ FineLine(flat) /\ flat.mx = rest.mx /\ SameShown(rest, flat)
      /\ OnLine(flat) = OnLine(rest) /\ Agree(rest, flat, Regions)
      /\ \A r \in Regions : flat.phs[r] = <<>>
  BY <1>4, FlattenLine
<1>. HIDE DEF flat
<1>6. Fine(flat) /\ Seen(flat, numbered, veto) /\ flat.mgd = kept
  <2>1. FineSets(flat) /\ Seen(flat, numbered, veto)
    BY <1>3, <1>5, SameSeen DEF Fine
  <2>2. flat.mgd = kept
    BY <1>1, <1>3, <1>5 DEF SameShown
  <2>. QED BY <1>5, <2>1, <2>2 DEF Fine
<1>7. /\ Line(m) \in Seq(All) /\ IsInjective(Line(m))
      /\ \A x, y : <<x, y>> \in Order(Line(m)) <=> InLine(m, x, y)
  BY <1>1, LineOf
<1>8. flat.misc = places
  <2>1. /\ places \in Seq(All) /\ IsInjective(places)
        /\ \A x, y : <<x, y>> \in Order(places) <=>
              InLine(m, x, y) /\ x \notin Regions /\ y \notin Regions
    BY <1>7, DroppingElements, DroppingOrder
  <2>2. \A x, y : x \notin Regions /\ y \notin Regions =>
              (InLine(m, x, y) <=> InLine(flat, x, y))
    <3>1. gone \subseteq Regions
      BY <1>1
    <3>. QED BY <1>3, <1>5, <3>1 DEF Agree
  <2>3. \A x, y : x \notin Regions /\ y \notin Regions =>
              (InLine(flat, x, y) <=> <<x, y>> \in Order(flat.misc))
    BY <1>5, FlatLine
  <2>4. flat.misc \in Seq(Marks) /\ IsInjective(flat.misc)
    <3>1. None \in Regions \cup {None} /\ PhsOf(flat, None) = flat.misc
      BY DEF PhsOf
    <3>. QED BY <1>5, <3>1 DEF FineLine, Fields
  <2>5. \A x, y : <<x, y>> \in Order(flat.misc) => x \notin Regions /\ y \notin Regions
    <3>1. \A x, y : <<x, y>> \in Order(flat.misc) => x \in Marks /\ y \in Marks
      BY <2>4 DEF Order, ToSet
    <3>. QED BY <1>5, <3>1, NodesAndMarks DEF FineLine
  <2>6. flat.misc \in Seq(All)
    BY <2>4 DEF All
  <2>7. \A x, y : <<x, y>> \in Order(flat.misc) <=> <<x, y>> \in Order(places)
    BY <2>1, <2>2, <2>3, <2>5
  <2>. HIDE DEF places
  <2>. QED BY <2>1, <2>4, <2>6, <2>7, OrderDetermines
<1>9. flat.mx = stays
  <2>. DEFINE nodes == Dropping(Line(m), PHolders)
  <2>1. /\ nodes \in Seq(All) /\ IsInjective(nodes)
        /\ \A x, y : <<x, y>> \in Order(nodes) <=>
              InLine(m, x, y) /\ x \notin PHolders /\ y \notin PHolders
    BY <1>7, DroppingElements, DroppingOrder
  <2>2. /\ stays \in Seq(All) /\ IsInjective(stays)
        /\ \A x, y : <<x, y>> \in Order(stays) <=>
              <<x, y>> \in Order(nodes) /\ x \notin gone /\ y \notin gone
    <3>. HIDE DEF nodes
    <3>1. stays = Dropping(nodes, gone)
      BY DEF nodes
    <3>. HIDE DEF stays, gone
    <3>. QED BY <2>1, <3>1, DroppingElements, DroppingOrder
  <2>. HIDE DEF nodes, stays
  <2>3. rest.mx \in Seq(Regions) /\ IsInjective(rest.mx)
    BY <1>4 DEF FineLine, Fields
  <2>4. ASSUME NEW x, NEW y
        PROVE  <<x, y>> \in Order(rest.mx) <=> <<x, y>> \in Order(stays)
    <3>1. <<x, y>> \in Order(stays) <=>
              /\ InLine(m, x, y) /\ x \notin PHolders /\ y \notin PHolders
              /\ x \notin gone /\ y \notin gone
      BY <2>1, <2>2
    <3>2. InLine(m, x, y) => x \in ToSet(m.mx) \cup OnLine(m) /\ y \in ToSet(m.mx) \cup OnLine(m)
      BY <1>1, NotInLine
    <3>3. OnLine(m) \subseteq PHolders
      <4>1. m.misc \in Seq(Marks) /\ m.phs \in [Regions -> Seq(Marks)]
        BY <1>1 DEF FineLine, Fields
      <4>2. OnLine(m) \subseteq Marks
        BY <4>1 DEF OnLine, ToSet
      <4>. QED BY <1>1, <4>2 DEF Marks
    <3>4. <<x, y>> \in Order(stays) <=>
              /\ InLine(m, x, y) /\ x \in Regions \ gone /\ y \in Regions \ gone
      <4>1. Regions \cap PHolders = {}
        BY MPlexAssumption
      <4>. QED BY <1>1, <3>1, <3>2, <3>3, <4>1
    <3>5. x \in Regions \ gone /\ y \in Regions \ gone =>
              (InLine(m, x, y) <=> <<x, y>> \in Order(rest.mx))
      BY <1>3, <1>4, NodesInLine DEF Agree
    <3>6. <<x, y>> \in Order(rest.mx) => x \in Regions \ gone /\ y \in Regions \ gone
      <4>1. <<x, y>> \in Order(rest.mx) => x \in ToSet(rest.mx) /\ y \in ToSet(rest.mx)
        BY DEF Order
      <4>. QED BY <1>1, <1>3, <4>1
    <3>. QED BY <3>4, <3>5, <3>6
  <2>5. rest.mx \in Seq(All)
    BY <2>3 DEF All
  <2>6. rest.mx = stays
    BY <2>2, <2>3, <2>4, <2>5, OrderDetermines
  <2>. QED BY <1>5, <2>6
<1>. QED BY <1>3, <1>5, <1>6, <1>8, <1>9 DEF flat, rest, list
RingsAfter ==
    /\ ring' \in Seq(PHolders) /\ IsInjective(ring')
    /\ OnLine(m') \subseteq PHolders /\ OnLine(m') \cap ToSet(ring') = {}
Empties ==
    /\ RingsAfter
    /\ \E gone \in SUBSET Regions :
        LET stays == Dropping(Dropping(Line(m), PHolders), gone)
            places == Dropping(Line(m), Regions)
        IN \/ Line(m') = stays /\ ring' = places
           \/ Line(m') \in {stays, places \o stays} /\ ring' = ring
Refills ==
    /\ RingsAfter
    /\ Line(m) = <<>> /\ ring' = <<>>
    /\ \E r \in Regions : Dropping(Line(m'), {r}) = ring

LEMMA PlacesOf ==
    ASSUME SeenAsMeant
    PROVE  OnLine(m) \subseteq PHolders
<1>1. Fields(m) /\ Temp \notin OnLine(m)
  BY SeenAsMeantIs DEF Fine, FineLine
<1>2. m.misc \in Seq(Marks) /\ m.phs \in [Regions -> Seq(Marks)]
  BY <1>1 DEF Fields
<1>3. OnLine(m) \subseteq Marks
  BY <1>2 DEF OnLine, ToSet
<1>. QED BY <1>1, <1>3 DEF Marks

LEMMA RecreateStep ==
    ASSUME SeenAsMeant, NEW ph \in PHolders, NEW r \in Regions, NEW hide,
           Recreate(ph, r, hide)
    PROVE  Keeps(Refills)
<1>. DEFINE q == [m EXCEPT !.misc = ring]
            p == AttachAt(q, r, ph, FALSE, hide, FALSE, FALSE)
<1>1. /\ Fine(m) /\ ring \in Seq(PHolders) /\ IsInjective(ring) /\ ph \in ToSet(ring)
      /\ m = Blank(m.small) /\ m' = p /\ ring' = <<>> /\ Notes({}, {}, {r})
  BY SeenAsMeantIs DEF Recreate, Rings
<1>2. m.small \in BOOLEAN
  BY <1>1 DEF Fine, FineLine, Fields
<1>3. /\ m.mgd = {} /\ m.mx = <<>> /\ m.current = None /\ m.misc = <<>>
      /\ m.phs = [n \in Regions |-> <<>>] /\ m.hidden = {} /\ m.mapped = {}
      /\ m.up = FALSE
  <2>. DEFINE b == Blank(m.small)
  <2>1. /\ b.mgd = {} /\ b.mx = <<>> /\ b.current = None /\ b.misc = <<>>
        /\ b.phs = [n \in Regions |-> <<>>] /\ b.hidden = {} /\ b.mapped = {}
        /\ b.up = FALSE
    BY DEF Blank
  <2>. HIDE DEF b
  <2>2. m = b
    BY <1>1 DEF b
  <2>. QED BY <2>1, <2>2
<1>4. ring \in Seq(Marks) /\ Fields(m)
  BY <1>1 DEF Marks, Fine, FineLine
<1>5. /\ Fields(q) /\ q.misc = ring /\ q.mx = <<>> /\ q.phs = [n \in Regions |-> <<>>]
      /\ q.mgd = {} /\ q.current = None /\ q.hidden = {} /\ q.mapped = {}
      /\ q.up = FALSE /\ SameShown(m, q)
  BY <1>3, <1>4 DEF Fields, SameShown
<1>. HIDE DEF q
<1>6. ToSet(<<>>) = {} /\ IsInjective(<<>>)
  BY DEF ToSet, IsInjective
<1>7. Fine(q)
  <2>1. \A n \in Regions : n # None /\ PhsOf(q, n) = <<>>
    BY <1>5, MPlexAssumption DEF PhsOf
  <2>2. PhsOf(q, None) = ring
    BY <1>5 DEF PhsOf
  <2>3. FineLine(q)
    BY <1>1, <1>5, <1>6, <2>1, <2>2 DEF FineLine
  <2>4. FineSets(q)
    BY <1>5, <1>6 DEF FineSets
  <2>. QED BY <2>3, <2>4 DEF Fine
<1>8. Line(q) = ring /\ OnLine(q) = ToSet(ring)
  <2>1. Line(q) = ring \o <<>> /\ OnLine(q) = ToSet(ring)
    BY <1>5, <1>7, FlatLine DEF Fine
  <2>. QED BY <1>4, <2>1
<1>9. /\ Fine(p) /\ OnlyMoves(q, p, r)
      /\ \A N, V : Seen(q, N, V) => Seen(p, N, V)
  <2>1. r \in Regions \ q.mgd /\ ph \in OnLine(q)
    BY <1>1, <1>5, <1>8
  <2>. QED BY <1>7, <2>1, AttachAtIs
<1>. HIDE DEF p
<1>10. Seen(p, numbered \ {r}, veto \ {r})
  <2>1. Seen(q, numbered \ {r}, veto \ {r})
    BY <1>5, MPlexAssumption DEF Seen, OnlyCurrent, ToMap, Shown, MayBeMapped
  <2>. QED BY <1>9, <2>1
<1>11. /\ Seen(m', numbered', veto')
       /\ numbered' \subseteq Regions /\ veto' \subseteq Regions
  <2>1. (numbered \ {r}) \cup {} = numbered \ {r} /\ (veto \ {r}) \cup {} = veto \ {r}
    OBVIOUS
  <2>2. Seen(m', (numbered \ {r}) \cup {}, (veto \ {r}) \cup {})
    BY <1>1, <1>10, <2>1
  <2>. QED BY <1>1, <1>9, <2>2, NotesSeen
<1>12. Dropping(Line(p), {r}) = ring
  <2>1. Dropping(Line(q), {r}) = Dropping(Line(p), {r})
    BY <1>7, <1>9, AgreeDropping DEF Fine, OnlyMoves
  <2>2. Dropping(ring, {r}) = ring
    <3>1. /\ Dropping(ring, {r}) \in Seq(PHolders) /\ IsInjective(Dropping(ring, {r}))
          /\ \A x, y : <<x, y>> \in Order(Dropping(ring, {r})) <=>
                <<x, y>> \in Order(ring) /\ x \notin {r} /\ y \notin {r}
      BY <1>1, DroppingElements, DroppingOrder
    <3>2. \A x, y : <<x, y>> \in Order(ring) => x # r /\ y # r
      <4>1. r \notin ToSet(ring)
        BY <1>1, MPlexAssumption DEF ToSet
      <4>. QED BY <4>1 DEF Order
    <3>3. \A x, y : <<x, y>> \in Order(Dropping(ring, {r})) <=> <<x, y>> \in Order(ring)
      BY <3>1, <3>2
    <3>. QED BY <1>1, <3>1, <3>3, OrderDetermines
  <2>. QED BY <1>8, <2>1, <2>2
<1>13. RingsAfter
  <2>1. OnLine(m') = ToSet(ring)
    BY <1>1, <1>8, <1>9 DEF OnlyMoves
  <2>2. ToSet(ring) \subseteq PHolders
    BY <1>1 DEF ToSet
  <2>3. <<>> \in Seq(PHolders)
    OBVIOUS
  <2>. QED BY <1>1, <1>6, <2>1, <2>2, <2>3 DEF RingsAfter
<1>14. Line(m) = <<>>
  BY <1>1, <1>2, BlankIs
<1>. QED BY <1>1, <1>9, <1>11, <1>12, <1>13, <1>14 DEF Keeps, Refills

LEMMA DestroyStep ==
    ASSUME SeenAsMeant, Destroy
    PROVE  Keeps(Empties)
<1>1. PICK small \in BOOLEAN : m' = Blank(small)
  BY DEF Destroy
<1>2. Notes({}, {}, {}) /\ ring' = ring /\ Rings /\ FineLine(m)
  BY SeenAsMeantIs DEF Destroy, Fine
<1>3. Fine(m') /\ OnLine(m') = {} /\ Line(m') = <<>> /\ Seen(m', numbered, veto)
  BY <1>1, BlankIs
<1>4. /\ Seen(m', numbered', veto')
      /\ numbered' \subseteq Regions /\ veto' \subseteq Regions
  BY <1>2, <1>3, NoNotesSeen
<1>5. Dropping(Dropping(Line(m), PHolders), Regions) = <<>>
  <2>1. Line(m) \in Seq(All) /\ ToSet(Line(m)) = ToSet(m.mx) \cup OnLine(m)
    BY <1>2, LineOf
  <2>2. /\ Dropping(Line(m), PHolders) \in Seq(All)
        /\ ToSet(Dropping(Line(m), PHolders)) = ToSet(Line(m)) \ PHolders
    BY <2>1, DroppingElements
  <2>3. /\ Dropping(Dropping(Line(m), PHolders), Regions) \in Seq(All)
        /\ ToSet(Dropping(Dropping(Line(m), PHolders), Regions))
             = ToSet(Dropping(Line(m), PHolders)) \ Regions
    BY <2>2, DroppingElements
  <2>4. ToSet(m.mx) \subseteq Regions /\ OnLine(m) \subseteq PHolders
    BY <1>2, NodesAndMarks, PlacesOf DEF FineLine
  <2>5. ToSet(Dropping(Dropping(Line(m), PHolders), Regions)) = {}
    BY <2>1, <2>2, <2>3, <2>4
  <2>. QED BY <2>3, <2>5, NoElements
<1>6. RingsAfter
  BY <1>2, <1>3 DEF RingsAfter, Rings
<1>. QED BY <1>2, <1>3, <1>4, <1>5, <1>6 DEF Keeps, Empties

LEMMA RescueStep ==
    ASSUME SeenAsMeant, NEW kept \in SUBSET m.mgd, NEW way, Rescue(kept, way)
    PROVE  Keeps(Empties)
<1>. DEFINE going == Dropping(m.mx, kept)
            others == SetToSeq(m.mgd \ (kept \cup ToSet(m.mx)))
            flat == Flatten(AllRemoved(m, going \o others))
            left == IF way = "keep" THEN flat ELSE [flat EXCEPT !.misc = <<>>]
            gone == m.mgd \ kept
            places == Dropping(Line(m), Regions)
            stays == Dropping(Dropping(Line(m), PHolders), gone)
<1>1. /\ Fine(flat) /\ flat.mgd = kept /\ Seen(flat, numbered, veto)
      /\ OnLine(flat) = OnLine(m) /\ \A r \in Regions : flat.phs[r] = <<>>
      /\ flat.misc = places /\ flat.mx = stays
  BY RescuedIs
<1>2. /\ ring' = IF way = "recreate" THEN flat.misc ELSE ring
      /\ IF kept = {} THEN \E small \in BOOLEAN : m' = Blank(small) ELSE m' = left
      /\ Notes({}, {}, {})
  BY DEF Rescue
<1>. HIDE DEF flat
<1>3. /\ Fields(flat) /\ FineLine(flat) /\ FineSets(flat) /\ gone \in SUBSET Regions
      /\ Rings /\ OnLine(m) \subseteq PHolders
  BY <1>1, SeenAsMeantIs, PlacesOf DEF Fine, FineLine, Fields
<1>4. /\ flat.misc \in Seq(Marks) /\ IsInjective(flat.misc) /\ flat.mx \in Seq(Regions)
      /\ Line(flat) = flat.misc \o flat.mx /\ OnLine(flat) = ToSet(flat.misc)
  <2>1. None \in Regions \cup {None} /\ PhsOf(flat, None) = flat.misc
    BY DEF PhsOf
  <2>2. Line(flat) = flat.misc \o flat.mx /\ OnLine(flat) = ToSet(flat.misc)
    BY <1>1, <1>3, FlatLine
  <2>3. flat.misc \in Seq(Marks) /\ flat.mx \in Seq(Regions)
    BY <1>3 DEF Fields
  <2>4. IsInjective(flat.misc)
    BY <1>3, <2>1 DEF FineLine
  <2>. QED BY <2>2, <2>3, <2>4
<1>5. flat.misc \in Seq(PHolders)
  <2>1. ToSet(flat.misc) \subseteq PHolders
    BY <1>1, <1>3, <1>4
  <2>. QED BY <1>4, <2>1 DEF ToSet
<1>6. ToSet(<<>>) = {} /\ IsInjective(<<>>)
  BY DEF ToSet, IsInjective
<1>7. /\ Fine(left) /\ Seen(left, numbered, veto)
      /\ Line(left) = (IF way = "keep" THEN places \o stays ELSE stays)
      /\ OnLine(left) = (IF way = "keep" THEN OnLine(m) ELSE {})
  <2>1. CASE way = "keep"
    <3>1. left = flat
      BY <2>1
    <3>. QED BY <1>1, <1>4, <2>1, <3>1
  <2>2. CASE way # "keep"
    <3>. DEFINE p == [flat EXCEPT !.misc = <<>>]
    <3>1. left = p
      BY <2>2
    <3>2. /\ Fields(p) /\ p.misc = <<>> /\ p.mx = flat.mx /\ p.phs = flat.phs
          /\ SameShown(flat, p)
      <4>1. <<>> \in Seq(Marks)
        OBVIOUS
      <4>. QED BY <1>3, <4>1 DEF Fields, SameShown
    <3>. HIDE DEF p, left
    <3>3. \A n \in Regions \cup {None} : PhsOf(p, n) = <<>>
      BY <1>1, <3>2 DEF PhsOf
    <3>4. FineLine(p)
      BY <1>3, <1>6, <3>2, <3>3 DEF FineLine
    <3>5. FineSets(p) /\ Seen(p, numbered, veto)
      BY <1>1, <1>3, <3>2, SameSeen
    <3>6. Line(p) = <<>> \o flat.mx /\ OnLine(p) = {}
      BY <1>1, <1>6, <3>2, <3>4, FlatLine
    <3>7. Line(p) = flat.mx
      BY <1>4, <3>6
    <3>. QED BY <1>1, <2>2, <3>1, <3>4, <3>5, <3>6, <3>7 DEF Fine
  <2>. QED BY <2>1, <2>2
<1>. HIDE DEF left
<1>8. /\ Fine(m') /\ Seen(m', numbered, veto)
      /\ Line(m') \in {stays, IF way = "keep" THEN places \o stays ELSE stays}
      /\ OnLine(m') \in {{}, IF way = "keep" THEN OnLine(m) ELSE {}}
  <2>1. CASE kept = {}
    <3>1. PICK small \in BOOLEAN : m' = Blank(small)
      BY <1>2, <2>1
    <3>2. Fine(m') /\ OnLine(m') = {} /\ Line(m') = <<>> /\ Seen(m', numbered, veto)
      BY <3>1, BlankIs
    <3>3. stays = <<>>
      <4>1. ToSet(flat.mx) = {}
        BY <1>1, <1>3, <2>1 DEF FineSets
      <4>. QED BY <1>1, <1>4, <4>1, NoElements
    <3>. QED BY <3>2, <3>3
  <2>2. CASE kept # {}
    <3>1. m' = left
      BY <1>2, <2>2
    <3>. QED BY <1>7, <3>1
  <2>. QED BY <2>1, <2>2
<1>9. /\ Seen(m', numbered', veto')
      /\ numbered' \subseteq Regions /\ veto' \subseteq Regions
  BY <1>2, <1>8, NoNotesSeen
<1>10. RingsAfter
  <2>1. CASE way = "recreate"
    BY <1>2, <1>4, <1>5, <1>8, <2>1 DEF RingsAfter
  <2>2. CASE way # "recreate"
    <3>1. ring' = ring /\ OnLine(m') \subseteq OnLine(m)
      BY <1>2, <1>8, <2>2
    <3>. QED BY <1>3, <3>1 DEF RingsAfter, Rings
  <2>. QED BY <2>1, <2>2
<1>11. \/ Line(m') = stays /\ ring' = places
       \/ Line(m') \in {stays, places \o stays} /\ ring' = ring
  BY <1>1, <1>2, <1>8
<1>12. Empties
  BY <1>3, <1>10, <1>11 DEF Empties
<1>. QED BY <1>8, <1>9, <1>12 DEF Keeps
-----------------------------------------------------------------------------
(* The invariant, and that the mplex keeps its line.                       *)

RingLoses ==
    /\ UNCHANGED <<m, numbered, veto>>
    /\ ring' \in Seq(PHolders) /\ IsInjective(ring') /\ ToSet(ring') \subseteq ToSet(ring)
    /\ ring' = ring \/ \E ph \in PHolders : ring' = Dropping(ring, {ph})
Outcome == failed' \in {"no", "assertion", "loop", "selflink"}
Step ==
    \/ Keeps(RegionMoves) \/ Keeps(PlaceMoves) \/ Keeps(LineStays)
    \/ Keeps(Empties) \/ Keeps(Refills) \/ RingLoses

\* Each action is one of those.
LEMMA WorksStep ==
    ASSUME SeenAsMeant, Works
    PROVE  Step /\ Outcome
<1>0. failed \in {"no", "assertion", "loop", "selflink"} /\ Rings
  BY SeenAsMeantIs
<1>1. ASSUME NEW r \in Regions, NEW index \in Indices, NEW way \in Ways,
             Attach(r, index, FALSE, way[1], way[2])
      PROVE  Step /\ Outcome
  <2>1. Keeps(RegionMoves)
    BY <1>1, AttachStep
  <2>. QED BY <1>0, <1>1, <2>1 DEF Step, Outcome, Attach
<1>2. ASSUME NEW r \in Regions, NEW index \in Indices, SetIndex(r, index)
      PROVE  Step /\ Outcome
  <2>1. CASE UNCHANGED <<m, ring, numbered, veto>>
    BY <1>0, <1>2, <2>1 DEF Step, Outcome, SetIndex, RingLoses, Rings
  <2>2. CASE ~UNCHANGED <<m, ring, numbered, veto>>
    <3>1. Keeps(RegionMoves)
      BY <1>2, <2>2, SetIndexStep
    <3>. QED BY <1>0, <1>2, <3>1 DEF Step, Outcome, SetIndex
  <2>. QED BY <2>1, <2>2
<1>3. ASSUME NEW r \in Regions, NEW way \in Ways,
             Attach(r, AtEnd, TRUE, way[1], way[2])
      PROVE  Step /\ Outcome
  <2>1. Keeps(RegionMoves)
    BY <1>3, AttachStep
  <2>. QED BY <1>0, <1>3, <2>1 DEF Step, Outcome, Attach
<1>4. ASSUME NEW ph \in PHolders, NEW r \in Regions, NEW way \in Ways,
             UsePHolder(ph, r, way[1], way[2])
      PROVE  Step /\ Outcome
  <2>1. Keeps(RegionMoves)
    BY <1>4, UsePHolderStep
  <2>. QED BY <1>0, <1>4, <2>1 DEF Step, Outcome, UsePHolder
<1>5. ASSUME NEW ph \in PHolders, NEW r \in Regions, NEW hide \in BOOLEAN,
             Recreate(ph, r, hide)
      PROVE  Step /\ Outcome
  <2>1. Keeps(Refills)
    BY <1>5, RecreateStep
  <2>. QED BY <1>0, <1>5, <2>1 DEF Step, Outcome, Recreate
<1>6. ASSUME NEW ph \in PHolders, NEW r \in Regions, GetPHolder(ph, r)
      PROVE  Step /\ Outcome
  <2>1. Keeps(PlaceMoves)
    BY <1>6, GetPHolderStep
  <2>. QED BY <1>0, <1>6, <2>1 DEF Step, Outcome, GetPHolder
<1>7. ASSUME NEW ph \in PHolders, NEW index \in Indices, MakePHolder(ph, index)
      PROVE  Step /\ Outcome
  <2>1. Keeps(PlaceMoves)
    BY <1>7, MakePHolderStep
  <2>. QED BY <1>0, <1>7, <2>1 DEF Step, Outcome, MakePHolder
<1>8. ASSUME NEW ph \in PHolders, DropPHolder(ph)
      PROVE  Step /\ Outcome
  <2>1. Keeps(PlaceMoves)
    BY <1>8, DropPHolderStep
  <2>. QED BY <1>0, <1>8, <2>1 DEF Step, Outcome, DropPHolder
<1>9. ASSUME NEW ph \in PHolders, DropFromRing(ph)
      PROVE  Step /\ Outcome
  BY <1>9, DropFromRingStep DEF Step, Outcome, RingLoses
<1>10. ASSUME (\E n \in DOMAIN m.mx : SwitchNth(n)) \/ SwitchNext \/ SwitchPrev
       PROVE  Step /\ Outcome
  <2>1. Keeps(LineStays)
    BY <1>10, SwitchStep
  <2>2. failed' = failed
    BY <1>10 DEF SwitchNth, SwitchNext, SwitchPrev, Switch
  <2>. QED BY <1>0, <2>1, <2>2 DEF Step, Outcome
<1>11. ASSUME NEW r \in Regions, Leave(r)
       PROVE  Step /\ Outcome
  <2>1. Keeps(RegionMoves)
    BY <1>11, LeaveStep
  <2>. QED BY <1>0, <1>11, <2>1 DEF Step, Outcome, Leave
<1>12. ASSUME NEW r \in Regions, Hide(r) \/ Unhide(r) \/ \E inTheWay : Goto(r, inTheWay)
       PROVE  Step /\ Outcome
  <2>1. Keeps(LineStays)
    BY <1>12, HideStep, UnhideStep, GotoStep
  <2>. QED BY <1>0, <1>12, <2>1 DEF Step, Outcome, Hide, Unhide, Goto
<1>13. ASSUME Map \/ Unmap \/ Fit
       PROVE  Step /\ Outcome
  <2>1. Keeps(LineStays)
    BY <1>13, MapStep
  <2>. QED BY <1>0, <1>13, <2>1 DEF Step, Outcome, Map, Unmap, Fit
<1>14. ASSUME Destroy
       PROVE  Step /\ Outcome
  <2>1. Keeps(Empties)
    BY <1>14, DestroyStep
  <2>. QED BY <1>0, <1>14, <2>1 DEF Step, Outcome, Destroy
<1>15. ASSUME NEW kept \in SUBSET m.mgd, NEW way, Rescue(kept, way)
       PROVE  Step /\ Outcome
  <2>1. Keeps(Empties)
    BY <1>15, RescueStep
  <2>. QED BY <1>0, <1>15, <2>1 DEF Step, Outcome, Rescue
<1>. QED BY <1>1, <1>2, <1>3, <1>4, <1>5, <1>6, <1>7, <1>8, <1>9, <1>10, <1>11,
            <1>12, <1>13, <1>14, <1>15 DEF Works

LEMMA NextStep ==
    ASSUME SeenAsMeant, [Next]_vars
    PROVE  Step /\ Outcome
<1>1. CASE UNCHANGED vars
  BY <1>1, SeenAsMeantIs DEF vars, Step, Outcome, RingLoses, Rings
<1>2. CASE ~UNCHANGED vars
  BY <1>2, WorksStep DEF Next, Stopped
<1>. QED BY <1>1, <1>2

LEMMA StepIsKept ==
    ASSUME SeenAsMeant, Step, Outcome
    PROVE  SeenAsMeant'
<1>1. SeenAsMeant' <=> (/\ Fine(m) /\ Temp \notin OnLine(m) /\ Rings
                        /\ Seen(m, numbered, veto)
                        /\ failed \in {"no", "assertion", "loop", "selflink"}
                        /\ numbered \subseteq Regions /\ veto \subseteq Regions)'
  BY SeenAsMeantIs, PTL
<1>2. SUFFICES /\ Fine(m') /\ Temp \notin OnLine(m') /\ RingsAfter
               /\ Seen(m', numbered', veto')
               /\ numbered' \subseteq Regions /\ veto' \subseteq Regions
  BY <1>1, <1>2 DEF Outcome, Rings, RingsAfter
<1>3. /\ Fine(m) /\ Temp \notin OnLine(m) /\ Rings /\ Seen(m, numbered, veto)
      /\ numbered \subseteq Regions /\ veto \subseteq Regions /\ OnLine(m) \subseteq PHolders
  BY SeenAsMeantIs, PlacesOf
<1>4. Temp \notin PHolders
  BY MPlexAssumption
<1>5. CASE Keeps(RegionMoves) \/ Keeps(LineStays)
  <2>1. OnLine(m') = OnLine(m) /\ ring' = ring
    BY <1>5 DEF Keeps, RegionMoves, LineStays, OnlyMoves
  <2>. QED BY <1>3, <1>5, <2>1 DEF Keeps, Rings, RingsAfter
<1>6. CASE Keeps(PlaceMoves)
  <2>1. PICK ph \in PHolders : \/ ph \notin Present /\ OnLine(m') = OnLine(m) \cup {ph}
                               \/ OnLine(m') = OnLine(m) \ {ph}
    BY <1>6 DEF Keeps, PlaceMoves
  <2>2. ring' = ring
    BY <1>6 DEF Keeps, PlaceMoves
  <2>3. /\ OnLine(m') \subseteq PHolders /\ OnLine(m') \cap ToSet(ring) = {}
    BY <1>3, <2>1 DEF Present, Rings
  <2>. QED BY <1>3, <1>4, <1>6, <2>2, <2>3 DEF Keeps, Rings, RingsAfter
<1>7. CASE Keeps(Empties) \/ Keeps(Refills)
  BY <1>4, <1>7 DEF Keeps, Empties, Refills, RingsAfter
<1>8. CASE RingLoses
  BY <1>3, <1>8 DEF RingLoses, Rings, RingsAfter
<1>. QED BY <1>5, <1>6, <1>7, <1>8 DEF Step

LEMMA InitIsSeen ==
    Init => SeenAsMeant
<1>. SUFFICES ASSUME Init PROVE SeenAsMeant
  OBVIOUS
<1>1. PICK small \in BOOLEAN : m = Blank(small)
  BY DEF Init
<1>2. Fine(m) /\ OnLine(m) = {} /\ Seen(m, numbered, veto)
  BY <1>1, BlankIs
<1>3. /\ ring \in Seq(PHolders) /\ IsInjective(ring) /\ failed = "no"
      /\ numbered = {} /\ veto = {}
  BY DEF Init, IsInjective
<1>. QED BY <1>2, <1>3, SeenAsMeantIs DEF Rings

\* In all orders of attaching, switching, hiding, mapping, renumbering,
\* rescuing and making again, the lists of a mplex are well formed, of the
\* numbered regions only the current one is to be seen, and windows are mapped
\* as they are shown (mplex.c, mplexpholder.c, llist.c).
THEOREM MPlexIsSeenAsMeant == Spec => []SeenAsMeant
<1>1. Init => SeenAsMeant
  BY InitIsSeen
<1>2. SeenAsMeant /\ [Next]_vars => SeenAsMeant'
  BY NextStep, StepIsKept
<1>. QED BY <1>1, <1>2, PTL DEF Spec

LEMMA NextTo ==
    ASSUME NEW T, NEW s \in Seq(T), IsInjective(s), NEW x \in ToSet(s), NEW y \in ToSet(s),
           x # y, <<x, y>> \in Order(s),
           \A z : <<x, z>> \in Order(s) /\ <<z, y>> \in Order(s) => z \in {x, y}
    PROVE  Index(s, y) = Index(s, x) + 1
<1>. DEFINE i == Index(s, x)
            j == Index(s, y)
<1>1. i \in 1 .. Len(s) /\ s[i] = x /\ j \in 1 .. Len(s) /\ s[j] = y
  BY IndexIs
<1>2. \A k \in 1 .. Len(s), l \in 1 .. Len(s) : s[k] = s[l] => k = l
  BY DEF IsInjective
<1>. HIDE DEF i, j
<1>3. i < j
  <2>1. PICK k, l \in 1 .. Len(s) : k <= l /\ s[k] = x /\ s[l] = y
    BY OrderOf
  <2>2. k = i /\ l = j
    BY <1>1, <1>2, <2>1
  <2>. QED BY <1>1, <2>1, <2>2
<1>4. ASSUME i + 1 < j PROVE FALSE
  <2>. DEFINE k == i + 1
  <2>1. k \in 1 .. Len(s) /\ i <= k /\ k <= j
    BY <1>1, <1>4
  <2>. HIDE DEF k
  <2>2. <<x, s[k]>> \in Order(s) /\ <<s[k], y>> \in Order(s)
    BY <1>1, <2>1, OrderOf
  <2>3. k = i \/ k = j
    BY <1>1, <1>2, <2>1, <2>2
  <2>. QED BY <1>1, <1>4, <2>3 DEF k
<1>5. j = i + 1
  BY <1>1, <1>3, <1>4
<1>. QED BY <1>5 DEF i, j

\* A region that takes a placeholder gets right before it in the line,
\* wherever it was before (mplex_do_attach_final, mplex.c:1290).
LEMMA PlacedBefore ==
    ASSUME NEW q, FineLine(q), NEW r \in ToSet(q.mx), NEW ph \in Marks, FirstOn(q, r, ph)
    PROVE  Index(Line(q), ph) = Index(Line(q), r) + 1
<1>. DEFINE l == Line(q)
            s == q.phs[r]
<1>1. /\ Fields(q) /\ q.mx \in Seq(Regions) /\ IsInjective(q.mx) /\ r \in Regions
      /\ r # None /\ None \notin ToSet(q.mx) /\ Regions \cap Marks = {}
      /\ r \in Nodes(q) /\ \A n \in Nodes(q) : n \in Regions \cup {None}
  <2>1. Fields(q) /\ q.mx \in Seq(Regions) /\ IsInjective(q.mx)
    BY DEF FineLine, Fields
  <2>2. ToSet(q.mx) \subseteq Regions /\ None \notin Regions /\ Regions \cap Marks = {}
    BY <2>1, NodesAndMarks
  <2>. QED BY <2>1, <2>2 DEF Nodes
<1>2. PhsOf(q, r) = s /\ s \in Seq(Marks) /\ IsInjective(s)
  <2>1. PhsOf(q, r) = s
    BY <1>1 DEF PhsOf
  <2>. QED BY <1>1, <2>1, NodesAndMarks DEF FineLine
<1>3. ph \in ToSet(s) /\ \A x \in ToSet(s) : <<ph, x>> \in Order(s)
  <2>1. s # <<>> /\ s[1] = ph /\ 1 \in 1 .. Len(s)
    BY <1>2 DEF FirstOn
  <2>2. \A x \in ToSet(s) : \E i \in 1 .. Len(s) : 1 <= i /\ s[i] = x
    BY <1>2 DEF ToSet
  <2>. QED BY <1>2, <2>1, <2>2, OrderOf DEF ToSet
<1>4. /\ l \in Seq(All) /\ IsInjective(l)
      /\ \A x : x \in ToSet(l) <=> \E n \in Nodes(q) : At(q, n, x)
      /\ \A x, y : <<x, y>> \in Order(l) <=> InLine(q, x, y)
  <2>1. l \in Seq(All) /\ IsInjective(l)
    BY LineOf
  <2>2. \A x : x \in ToSet(l) <=> \E n \in Nodes(q) : At(q, n, x)
    BY LineOf
  <2>3. \A x, y : <<x, y>> \in Order(l) <=> InLine(q, x, y)
    BY LineOf
  <2>. QED BY <2>1, <2>2, <2>3
<1>. HIDE DEF l, s
<1>5. At(q, r, r) /\ At(q, r, ph) /\ r # ph
  BY <1>1, <1>2, <1>3 DEF At
<1>6. InLine(q, r, ph)
  BY <1>1, <1>5 DEF InLine
<1>7. ASSUME NEW x, InLine(q, r, x), InLine(q, x, ph) PROVE x \in {r, ph}
  <2>1. PICK n, k \in Nodes(q) :
          /\ At(q, n, r) /\ At(q, k, x)
          /\ \/ n = k /\ (r = n \/ <<r, x>> \in Order(PhsOf(q, n)))
             \/ n # k /\ Upto(q.mx, n, k)
    BY <1>7 DEF InLine
  <2>2. PICK h, o \in Nodes(q) :
          /\ At(q, h, x) /\ At(q, o, ph)
          /\ \/ h = o /\ (x = h \/ <<x, ph>> \in Order(PhsOf(q, h)))
             \/ h # o /\ Upto(q.mx, h, o)
    BY <1>7 DEF InLine
  <2>3. n = r /\ o = r /\ h = k
    BY <1>1, <1>5, <2>1, <2>2, OnePlace
  <2>4. k = r
    <3>1. ASSUME k # r PROVE FALSE
      <4>1. <<r, k>> \in Order(q.mx)
        BY <1>1, <2>1, <2>3, <3>1 DEF Upto
      <4>2. k \in ToSet(q.mx)
        BY <4>1 DEF Order
      <4>3. <<k, r>> \in Order(q.mx)
        BY <1>1, <2>2, <2>3, <3>1, <4>2 DEF Upto
      <4>. QED BY <1>1, <3>1, <4>1, <4>3, OrderIsTotal
    <3>. QED BY <3>1
  <2>5. CASE x = r
    BY <2>5
  <2>6. CASE x # r
    <3>1. <<x, ph>> \in Order(s)
      BY <1>2, <2>2, <2>3, <2>4, <2>6
    <3>2. x \in ToSet(s)
      BY <3>1 DEF Order
    <3>3. <<ph, x>> \in Order(s)
      BY <1>3, <3>2
    <3>. QED BY <1>2, <3>1, <3>3, OrderIsTotal
  <2>. QED BY <2>5, <2>6
<1>8. r \in ToSet(l) /\ ph \in ToSet(l)
  BY <1>1, <1>4, <1>5
<1>9. Index(l, ph) = Index(l, r) + 1
  BY <1>4, <1>5, <1>6, <1>7, <1>8, NextTo
<1>. QED BY <1>9 DEF l

THEOREM ReturnsToItsPlace == Spec => []ReturnsInPlace
<1>1. SeenAsMeant => ReturnsInPlace
  <2>. SUFFICES ASSUME SeenAsMeant, NEW ph \in OnLine(m), NEW r \in Regions
                PROVE  LET l == Line(AttachAt(Detached(m, r), r, ph, FALSE, FALSE, FALSE, FALSE))
                       IN Index(l, ph) = Index(l, r) + 1
    BY DEF ReturnsInPlace
  <2>. DEFINE p == AttachAt(Detached(m, r), r, ph, FALSE, FALSE, FALSE, FALSE)
  <2>1. Fine(m) /\ ph \in Marks
    BY SeenAsMeantIs, PlacesOf DEF Marks
  <2>2. Fine(p) /\ r \in ToSet(p.mx) /\ FirstOn(p, r, ph)
    BY <2>1, AttachedIs
  <2>. HIDE DEF p
  <2>3. Index(Line(p), ph) = Index(Line(p), r) + 1
    BY <2>1, <2>2, PlacedBefore DEF Fine
  <2>. QED BY <2>3 DEF p
<1>. QED BY <1>1, MPlexIsSeenAsMeant, PTL
\* PlaceLine has the operators on lists that the mplex has.
LEMMA SameOperators ==
    /\ \A s : PL!ToSet(s) = ToSet(s)
    /\ \A s, S : PL!Dropping(s, S) = Dropping(s, S)
<1>1. ASSUME NEW s PROVE PL!ToSet(s) = ToSet(s)
  BY DEF PL!ToSet, ToSet
<1>2. ASSUME NEW s, NEW S PROVE PL!Only(s, S) = Only(s, S)
  BY DEF PL!Only, Only
<1>3. ASSUME NEW s, NEW S PROVE PL!Dropping(s, S) = Dropping(s, S)
  BY <1>1, <1>2 DEF PL!Dropping, Dropping
<1>. QED BY <1>1, <1>3

\* The line of the mplex is that of PlaceLine: nothing on it moves unasked,
\* across disposal and making again of the frame (frame.c:604, 636).
LEMMA StepKeepsLine ==
    ASSUME SeenAsMeant, Step
    PROVE  [PL!Next]_<<Line(m), ring>>
<1>1. FineLine(m) /\ OnLine(m) \subseteq PHolders /\ ToSet(Line(m)) = ToSet(m.mx) \cup OnLine(m)
      /\ ToSet(m.mx) \subseteq Regions /\ Regions \cap PHolders = {}
  <2>1. FineLine(m)
    BY SeenAsMeantIs DEF Fine
  <2>. QED BY <2>1, PlacesOf, LineOf, NodesAndMarks, MPlexAssumption DEF FineLine
<1>2. CASE Keeps(RegionMoves)
  <2>1. PICK r \in Regions : Agree(m, m', {r})
    BY <1>2 DEF Keeps, RegionMoves, OnlyMoves
  <2>2. FineLine(m') /\ ring' = ring
    BY <1>2 DEF Keeps, RegionMoves, Fine
  <2>3. Dropping(Line(m'), {r}) = Dropping(Line(m), {r})
    BY <1>1, <2>1, <2>2, AgreeDropping
  <2>4. PL!RegionChanges
    BY <2>2, <2>3, SameOperators DEF PL!RegionChanges
  <2>. QED BY <2>4 DEF PL!Next
<1>3. CASE Keeps(PlaceMoves)
  <2>1. PICK ph \in PHolders : /\ Agree(m, m', {ph})
                               /\ \/ ph \notin Present /\ OnLine(m') = OnLine(m) \cup {ph}
                                  \/ OnLine(m') = OnLine(m) \ {ph}
    BY <1>3 DEF Keeps, PlaceMoves
  <2>2. FineLine(m') /\ ring' = ring
    BY <1>3 DEF Keeps, PlaceMoves, Fine
  <2>3. Dropping(Line(m'), {ph}) = Dropping(Line(m), {ph})
    BY <1>1, <2>1, <2>2, AgreeDropping
  <2>4. ToSet(Line(m')) = ToSet(m'.mx) \cup OnLine(m') /\ ToSet(m'.mx) \subseteq Regions
    BY <2>2, LineOf, NodesAndMarks DEF FineLine
  <2>5. ph \notin ToSet(Line(m)) \/ ph \notin ToSet(Line(m'))
    BY <1>1, <2>1, <2>4 DEF Present
  <2>6. PL!PlaceChanges
    BY <2>2, <2>3, <2>5, SameOperators DEF PL!PlaceChanges
  <2>. QED BY <2>6 DEF PL!Next
<1>4. CASE Keeps(LineStays)
  BY <1>4 DEF Keeps, LineStays
<1>5. CASE Keeps(Empties)
  <2>1. PL!Emptied
    BY <1>5, SameOperators DEF Keeps, Empties, PL!Emptied
  <2>. QED BY <2>1 DEF PL!Next
<1>6. CASE Keeps(Refills)
  <2>1. PL!Refilled
    BY <1>6, SameOperators DEF Keeps, Refills, PL!Refilled
  <2>. QED BY <2>1 DEF PL!Next
<1>7. CASE RingLoses
  <2>1. Line(m') = Line(m)
    BY <1>7 DEF RingLoses
  <2>2. CASE ring' = ring
    BY <2>1, <2>2
  <2>3. CASE ring' # ring
    <3>1. PL!AsideChanges
      BY <1>7, <2>1, <2>3, SameOperators DEF RingLoses, PL!AsideChanges
    <3>. QED BY <3>1 DEF PL!Next
  <2>. QED BY <2>2, <2>3
<1>. QED BY <1>2, <1>3, <1>4, <1>5, <1>6, <1>7 DEF Step

THEOREM MPlexKeepsLine == Spec => KeepsLine
<1>1. Init => PL!Init
  <2>. SUFFICES ASSUME Init PROVE PL!Init
    OBVIOUS
  <2>1. Line(m) = <<>> /\ ring = <<>>
    BY BlankIs DEF Init
  <2>. QED BY <2>1 DEF PL!Init
<1>2. SeenAsMeant /\ [Next]_vars => [PL!Next]_<<Line(m), ring>>
  BY NextStep, StepKeepsLine
<1>. QED BY <1>1, <1>2, MPlexIsSeenAsMeant, PTL DEF Spec, KeepsLine, PL!Spec
=============================================================================
