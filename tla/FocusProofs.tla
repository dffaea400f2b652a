----------------------------- MODULE FocusProofs -----------------------------
(***************************************************************************)
(* Proofs about Focus: nothing refers to a region that has been freed, and *)
(* once all events have been handled the window manager's belief about the *)
(* focus is true, for any windows and any number of acts.                  *)
(***************************************************************************)
EXTENDS Focus, ListLemmas

-----------------------------------------------------------------------------
(* Windows in windows.  What a window is in is first taken for the least   *)
(* set that has the window and, with a window, its parent.                 *)

Parents == [Windows -> Windows \cup {None}]

UpClosed(par, S) == \A x \in S : par[x] \in S \cup {None}
Inside(par, w) ==
    {x \in Windows : \A S \in SUBSET Windows : w \in S /\ UpClosed(par, S) => x \in S}

\* Every window is in one that is in none.
Tree(par) ==
    /\ par \in Parents
    /\ \A w \in Windows : \E r \in Inside(par, w) : par[r] = None

LEMMA InsideIs ==
    ASSUME NEW par \in Parents, NEW w \in Windows
    PROVE  /\ w \in Inside(par, w) /\ Inside(par, w) \subseteq Windows
           /\ UpClosed(par, Inside(par, w))
           /\ \A S \in SUBSET Windows : w \in S /\ UpClosed(par, S)
                                            => Inside(par, w) \subseteq S
           /\ par[w] = None => Inside(par, w) = {w}
           /\ par[w] # None => Inside(par, w) = {w} \cup Inside(par, par[w])
<1>1. /\ w \in Inside(par, w) /\ Inside(par, w) \subseteq Windows
      /\ \A S \in SUBSET Windows : w \in S /\ UpClosed(par, S)
                                       => Inside(par, w) \subseteq S
  BY DEF Inside
<1>2. \A x \in Windows : UpClosed(par, Inside(par, x))
  BY DEF Inside, UpClosed, Parents
<1>3. CASE par[w] = None
  <2>1. {w} \in SUBSET Windows /\ UpClosed(par, {w})
    BY <1>3 DEF UpClosed
  <2>. QED BY <1>1, <1>2, <1>3, <2>1
<1>4. CASE par[w] # None
  <2>. DEFINE p == par[w]
  <2>1. p \in Windows
    BY <1>4 DEF Parents
  <2>2. UpClosed(par, Inside(par, p)) /\ p \in Inside(par, p)
        /\ Inside(par, p) \subseteq Windows
    BY <1>2, <2>1 DEF Inside
  <2>3. UpClosed(par, {w} \cup Inside(par, p)) /\ {w} \cup Inside(par, p) \in SUBSET Windows
    BY <2>2 DEF UpClosed
  <2>4. Inside(par, w) \subseteq {w} \cup Inside(par, p)
    BY <1>1, <2>3
  <2>5. p \in Inside(par, w)
    BY <1>1, <1>2, <1>4 DEF UpClosed
  <2>6. Inside(par, p) \subseteq Inside(par, w)
    BY <1>2, <2>1, <2>5 DEF Inside
  <2>. QED BY <1>1, <1>2, <1>4, <2>4, <2>6
<1>. QED BY <1>1, <1>2, <1>3, <1>4

LEMMA InsideTransitive ==
    ASSUME NEW par \in Parents, NEW w \in Windows, NEW x \in Inside(par, w)
    PROVE  Inside(par, x) \subseteq Inside(par, w)
<1>1. x \in Windows
  BY DEF Inside
<1>. QED BY <1>1, InsideIs

\* Whoever has all windows without a parent, and a window with its parent, has
\* them all.
LEMMA TreeInduction ==
    ASSUME NEW par, Tree(par), NEW T,
           \A w \in Windows : par[w] = None \/ par[w] \in T => w \in T
    PROVE  \A w \in Windows : w \in T
<1>. SUFFICES ASSUME NEW w \in Windows, w \notin T PROVE FALSE
  OBVIOUS
<1>. DEFINE C == Windows \ T
<1>1. UpClosed(par, C)
  BY DEF UpClosed, Tree, Parents
<1>2. Inside(par, w) \subseteq C
  BY <1>1, InsideIs DEF Tree
<1>3. PICK r \in Inside(par, w) : par[r] = None
  BY DEF Tree
<1>. QED BY <1>2, <1>3

\* No window is in itself.
LEMMA NoCycle ==
    ASSUME NEW par, Tree(par), NEW w \in Windows, par[w] # None
    PROVE  w \notin Inside(par, par[w])
<1>. SUFFICES ASSUME w \in Inside(par, par[w]) PROVE FALSE
  OBVIOUS
<1>1. par \in Parents /\ par[w] \in Windows
  BY DEF Tree, Parents
<1>. DEFINE C == {x \in Windows : w \in Inside(par, x)}
<1>2. UpClosed(par, C)
  <2>. SUFFICES ASSUME NEW x \in Windows, w \in Inside(par, x), par[x] # None
                PROVE  w \in Inside(par, par[x]) /\ par[x] \in Windows
    BY DEF UpClosed
  <2>1. par[x] \in Windows /\ Inside(par, x) = {x} \cup Inside(par, par[x])
    BY <1>1, InsideIs DEF Parents
  <2>. QED BY <2>1
<1>3. Inside(par, w) \subseteq C
  BY <1>1, <1>2, InsideIs
<1>4. PICK r \in Inside(par, w) : par[r] = None
  BY DEF Tree
<1>5. r \in Windows /\ w \in Inside(par, r) /\ Inside(par, r) = {r}
  BY <1>1, <1>3, <1>4, InsideIs
<1>. QED BY <1>4, <1>5

\* How many windows a window is in, itself included.
Depth(par, w) == Cardinality(Inside(par, w))

LEMMA DepthGrows ==
    ASSUME NEW par, Tree(par), NEW w \in Windows
    PROVE  /\ IsFiniteSet(Inside(par, w)) /\ Depth(par, w) \in Nat \ {0}
           /\ par[w] = None => Depth(par, w) = 1
           /\ par[w] # None => Depth(par, w) = Depth(par, par[w]) + 1
<1>1. par \in Parents
  BY DEF Tree
<1>2. \A x \in Windows : /\ IsFiniteSet(Inside(par, x)) /\ x \in Inside(par, x)
                         /\ Depth(par, x) \in Nat \ {0}
  <2>. SUFFICES ASSUME NEW x \in Windows
                PROVE  /\ IsFiniteSet(Inside(par, x)) /\ x \in Inside(par, x)
                       /\ Depth(par, x) \in Nat \ {0}
    OBVIOUS
  <2>1. IsFiniteSet(Inside(par, x)) /\ x \in Inside(par, x)
    BY <1>1, InsideIs, WindowsAssumption, FS_Subset
  <2>. QED BY <2>1, FS_CardinalityType, FS_EmptySet DEF Depth
<1>3. CASE par[w] = None
  BY <1>1, <1>2, <1>3, InsideIs, FS_Singleton DEF Depth
<1>4. CASE par[w] # None
  <2>1. par[w] \in Windows /\ Inside(par, w) = Inside(par, par[w]) \cup {w}
    BY <1>1, <1>4, InsideIs DEF Parents
  <2>2. w \notin Inside(par, par[w])
    BY <1>4, NoCycle
  <2>3. Depth(par, w) = Depth(par, par[w]) + 1
    BY <1>2, <2>1, <2>2, FS_AddElement DEF Depth
  <2>. QED BY <1>2, <1>4, <2>3
<1>. QED BY <1>2, <1>3, <1>4

\* Above a window there is one window at each depth.
LEMMA OneAtDepth ==
    ASSUME NEW par, Tree(par), NEW w \in Windows
    PROVE  /\ \A k \in 1..Depth(par, w) : \E x \in Inside(par, w) : Depth(par, x) = k
           /\ \A x \in Inside(par, w) : Depth(par, x) <= Depth(par, w)
           /\ \A x \in Inside(par, w) : Depth(par, x) = Depth(par, w) => x = w
<1>1. par \in Parents
  BY DEF Tree
<1>2. \A x \in Windows : /\ IsFiniteSet(Inside(par, x)) /\ x \in Inside(par, x)
                         /\ Depth(par, x) \in Nat \ {0}
  BY <1>1, DepthGrows, InsideIs
<1>. DEFINE Lower(v) ==
              /\ \A k \in 1..Depth(par, v) : \E x \in Inside(par, v) : Depth(par, x) = k
              /\ \A x \in Inside(par, v) \ {v} : Depth(par, x) < Depth(par, v)
            T == {v \in Windows : Lower(v)}
<1>3. ASSUME NEW v \in Windows, par[v] = None \/ par[v] \in T PROVE v \in T
  <2>1. CASE par[v] = None
    <3>1. Inside(par, v) = {v} /\ Depth(par, v) = 1
      BY <1>1, <2>1, InsideIs, DepthGrows
    <3>2. Lower(v)
      BY <3>1
    <3>. QED BY <3>2
  <2>2. CASE par[v] # None
    <3>. DEFINE p == par[v]
    <3>1. /\ p \in Windows /\ Inside(par, v) = {v} \cup Inside(par, p)
          /\ Depth(par, v) = Depth(par, p) + 1 /\ v \notin Inside(par, p)
      BY <1>1, <2>2, InsideIs, DepthGrows, NoCycle DEF Parents
    <3>2. Lower(p)
      BY <1>3, <2>2
    <3>. HIDE DEF p
    <3>3. \A k \in 1..Depth(par, v) : k \in 1..Depth(par, p) \/ k = Depth(par, v)
      BY <1>2, <3>1
    <3>4. \A x \in Inside(par, p) : Depth(par, x) < Depth(par, v)
      <4>. SUFFICES ASSUME NEW x \in Inside(par, p) PROVE Depth(par, x) < Depth(par, v)
        OBVIOUS
      <4>1. x \in Windows
        BY DEF Inside
      <4>. QED BY <1>2, <3>1, <3>2, <4>1
    <3>5. Lower(v)
      BY <1>2, <3>1, <3>2, <3>3, <3>4
    <3>. QED BY <3>5
  <2>. QED BY <2>1, <2>2
<1>4. Lower(w)
  <2>. HIDE DEF Lower
  <2>. QED BY <1>3, TreeInduction
<1>5. \A x \in Inside(par, w) : x \in Windows
  BY DEF Inside
<1>. QED BY <1>2, <1>4, <1>5

\* So that the recursion of ChainIn has a solution: the window at each depth.
LEMMA ChainExists ==
    ASSUME NEW par, Tree(par)
    PROVE  \E f \in [Windows -> Seq(Windows)] :
              f = [x \in Windows |-> IF par[x] = None THEN <<x>> ELSE <<x>> \o f[par[x]]]
<1>. DEFINE At(w, k) == {x \in Inside(par, w) : Depth(par, x) = k}
            one(S) == CHOOSE x \in S : TRUE
            path(w) == [k \in 1..Depth(par, w) |-> one(At(w, Depth(par, w) + 1 - k))]
            f == [x \in Windows |-> path(x)]
<1>1. par \in Parents
  BY DEF Tree
<1>2. ASSUME NEW w \in Windows
      PROVE  /\ path(w) \in Seq(Windows) /\ Len(path(w)) = Depth(par, w)
             /\ path(w)[1] = w /\ Depth(par, w) \in Nat \ {0}
  <2>1. Depth(par, w) \in Nat \ {0} /\ w \in Inside(par, w)
    BY <1>1, DepthGrows, InsideIs
  <2>2. ASSUME NEW k \in 1..Depth(par, w)
        PROVE  one(At(w, Depth(par, w) + 1 - k)) \in Windows
    <3>1. Depth(par, w) + 1 - k \in 1..Depth(par, w)
      BY <2>1
    <3>2. At(w, Depth(par, w) + 1 - k) # {}
      BY <3>1, OneAtDepth
    <3>3. At(w, Depth(par, w) + 1 - k) \subseteq Windows
      BY DEF Inside
    <3>. QED BY <3>2, <3>3
  <2>3. At(w, Depth(par, w)) = {w}
    BY <2>1, OneAtDepth
  <2>4. one(At(w, Depth(par, w))) = w
    BY <2>3
  <2>. HIDE DEF At, one
  <2>. QED BY <2>1, <2>2, <2>4
<1>3. f \in [Windows -> Seq(Windows)]
  BY <1>2
<1>4. ASSUME NEW w \in Windows
      PROVE  f[w] = IF par[w] = None THEN <<w>> ELSE <<w>> \o f[par[w]]
  <2>1. CASE par[w] = None
    <3>1. Depth(par, w) = 1
      BY <2>1, DepthGrows
    <3>2. path(w) \in Seq(Windows) /\ Len(path(w)) = 1 /\ path(w)[1] = w
      BY <1>2, <3>1
    <3>. HIDE DEF path
    <3>3. path(w) = <<w>>
      BY <3>2
    <3>. QED BY <2>1, <3>3
  <2>2. CASE par[w] # None
    <3>. DEFINE p == par[w]
                n == Depth(par, w)
    <3>1. /\ p \in Windows /\ Inside(par, w) = {w} \cup Inside(par, p)
          /\ n = Depth(par, p) + 1 /\ w \notin Inside(par, p)
      BY <1>1, <2>2, InsideIs, DepthGrows, NoCycle DEF Parents
    <3>. HIDE DEF p
    <3>2. /\ path(w) \in Seq(Windows) /\ Len(path(w)) = n /\ path(w)[1] = w
          /\ path(p) \in Seq(Windows) /\ Len(path(p)) = n - 1 /\ n \in Nat \ {0}
      BY <1>2, <3>1
    <3>3. ASSUME NEW k \in 2..n PROVE path(w)[k] = path(p)[k - 1]
      <4>0. Depth(par, p) = n - 1 /\ n \in Nat \ {0}
        <5>. HIDE DEF n
        <5>1. Depth(par, p) \in Nat
          BY <3>1, DepthGrows
        <5>. QED BY <3>1, <3>2, <5>1
      <4>1. k \in 1..n /\ k - 1 \in 1..Depth(par, p) /\ n + 1 - k # n
            /\ Depth(par, p) + 1 - (k - 1) = n + 1 - k
        <5>. HIDE DEF n
        <5>. QED BY <4>0
      <4>2. At(w, n + 1 - k) = At(p, n + 1 - k)
        BY <3>1, <4>1
      <4>3. path(w)[k] = one(At(w, n + 1 - k))
        BY <4>1
      <4>4. path(p)[k - 1] = one(At(p, n + 1 - k))
        BY <4>1
      <4>. QED BY <4>2, <4>3, <4>4
    <3>. HIDE DEF path, n
    <3>4. path(w) = <<w>> \o path(p)
      <4>. DEFINE t == <<w>> \o path(p)
      <4>1. /\ t \in Seq(Windows) /\ Len(t) = n /\ t[1] = w
            /\ \A k \in 2..n : t[k] = path(p)[k - 1]
        BY <3>2
      <4>2. \A k \in 1..n : k = 1 \/ k \in 2..n
        BY <3>2
      <4>. HIDE DEF t
      <4>3. path(w) = t
        BY <3>2, <3>3, <4>1, <4>2
      <4>. QED BY <4>3 DEF t
    <3>5. f[w] = path(w) /\ f[p] = path(p)
      BY <3>1
    <3>. QED BY <2>2, <3>4, <3>5 DEF p
  <2>. QED BY <2>1, <2>2
<1>. HIDE DEF f
<1>5. f = [x \in Windows |-> IF par[x] = None THEN <<x>> ELSE <<x>> \o f[par[x]]]
  BY <1>3, <1>4
<1>. QED BY <1>3, <1>5

LEMMA ChainIs ==
    ASSUME NEW par, Tree(par), NEW w \in Windows
    PROVE  ChainIn(par, w) = IF par[w] = None THEN <<w>>
                             ELSE <<w>> \o ChainIn(par, par[w])
<1>. DEFINE Body(f) == [x \in Windows |-> IF par[x] = None THEN <<x>>
                                          ELSE <<x>> \o f[par[x]]]
            chain == CHOOSE f : f = Body(f)
<1>1. \A x : ChainIn(par, x) = chain[x]
  BY DEF ChainIn
<1>2. \E f : f = Body(f)
  BY ChainExists
<1>3. chain = Body(chain)
  <2>. HIDE DEF Body
  <2>. QED BY <1>2
<1>. HIDE DEF chain
<1>4. chain[w] = IF par[w] = None THEN <<w>> ELSE <<w>> \o chain[par[w]]
  BY <1>3
<1>. QED BY <1>1, <1>4

LEMMA ChainElements ==
    ASSUME NEW par, Tree(par), NEW w \in Windows
    PROVE  /\ ChainIn(par, w) \in Seq(Windows) /\ ChainIn(par, w)[1] = w
           /\ Len(ChainIn(par, w)) = Depth(par, w) /\ Depth(par, w) \in Nat \ {0}
           /\ ToSet(ChainIn(par, w)) = Inside(par, w)
<1>1. par \in Parents
  BY DEF Tree
<1>. DEFINE Good(x) == /\ ChainIn(par, x) \in Seq(Windows)
                       /\ ChainIn(par, x)[1] = x
                       /\ Len(ChainIn(par, x)) = Depth(par, x)
                       /\ ToSet(ChainIn(par, x)) = Inside(par, x)
            T == {x \in Windows : Good(x)}
<1>2. ASSUME NEW x \in Windows, par[x] = None \/ par[x] \in T PROVE x \in T
  <2>1. CASE par[x] = None
    <3>1. ChainIn(par, x) = <<x>> /\ Inside(par, x) = {x} /\ Depth(par, x) = 1
      BY <1>1, <2>1, ChainIs, InsideIs, DepthGrows
    <3>2. Good(x)
      BY <3>1 DEF ToSet
    <3>. QED BY <3>2
  <2>2. CASE par[x] # None
    <3>. DEFINE p == par[x]
                d == ChainIn(par, p)
    <3>1. /\ p \in Windows /\ Inside(par, x) = {x} \cup Inside(par, p)
          /\ Depth(par, x) = Depth(par, p) + 1 /\ ChainIn(par, x) = <<x>> \o d
          /\ Depth(par, p) \in Nat
      BY <1>1, <2>2, InsideIs, DepthGrows, ChainIs DEF Parents
    <3>2. d \in Seq(Windows) /\ Len(d) = Depth(par, p) /\ ToSet(d) = Inside(par, p)
      BY <1>2, <2>2
    <3>. HIDE DEF p, d
    <3>3. /\ <<x>> \o d \in Seq(Windows) /\ Len(<<x>> \o d) = Len(d) + 1
          /\ (<<x>> \o d)[1] = x
          /\ \A k \in 1..Len(d) : (<<x>> \o d)[k + 1] = d[k]
      BY <3>2
    <3>4. ToSet(<<x>> \o d) = {x} \cup ToSet(d)
      <4>. DEFINE t == <<x>> \o d
      <4>1. /\ DOMAIN t = 1..Len(d) + 1 /\ DOMAIN d = 1..Len(d) /\ Len(d) \in Nat
            /\ t[1] = x /\ \A k \in 1..Len(d) : t[k + 1] = d[k]
        BY <3>2, <3>3
      <4>. HIDE DEF t
      <4>2. \A k \in 1..Len(d) + 1 : k = 1 \/ (k - 1 \in 1..Len(d) /\ k = (k - 1) + 1)
        BY <4>1
      <4>3. \A k \in 1..Len(d) : k + 1 \in 1..Len(d) + 1
        BY <4>1
      <4>4. ASSUME NEW k \in DOMAIN t PROVE t[k] \in {x} \cup ToSet(d)
        <5>1. CASE k = 1
          BY <4>1, <5>1
        <5>2. CASE k # 1
          <6>. DEFINE i == k - 1
          <6>1. i \in 1..Len(d) /\ k = i + 1
            BY <4>1, <4>2, <5>2
          <6>. HIDE DEF i
          <6>. QED BY <4>1, <6>1 DEF ToSet
        <5>. QED BY <5>1, <5>2
      <4>5. {x} \cup ToSet(d) \subseteq ToSet(t)
        BY <4>1, <4>3 DEF ToSet
      <4>. QED BY <4>4, <4>5 DEF t, ToSet
    <3>5. Good(x)
      BY <3>1, <3>2, <3>3, <3>4
    <3>. QED BY <3>5
  <2>. QED BY <2>1, <2>2
<1>3. Good(w)
  <2>. HIDE DEF Good
  <2>. QED BY <1>2, TreeInduction
<1>. QED BY <1>3, DepthGrows

\* AboveIn and what a window is in agree.
LEMMA AboveIs ==
    ASSUME NEW par, Tree(par), NEW w \in Windows
    PROVE  AboveIn(par, w) = Inside(par, w) /\ w # None
<1>1. w # None
  BY WindowsAssumption
<1>. QED BY <1>1, ChainElements DEF AboveIn

\* The windows a window is in, itself left out.
LEMMA OutsideElements ==
    ASSUME NEW par, Tree(par), NEW w \in Windows
    PROVE  /\ Tail(ChainIn(par, w)) \in Seq(Windows)
           /\ ToSet(Tail(ChainIn(par, w))) = Inside(par, w) \ {w}
<1>1. par \in Parents
  BY DEF Tree
<1>2. CASE par[w] = None
  <2>1. ChainIn(par, w) = <<w>> /\ Inside(par, w) = {w}
    BY <1>1, <1>2, ChainIs, InsideIs
  <2>. QED BY <2>1 DEF ToSet
<1>3. CASE par[w] # None
  <2>. DEFINE p == par[w]
              d == ChainIn(par, p)
  <2>1. /\ p \in Windows /\ Inside(par, w) = {w} \cup Inside(par, p)
        /\ ChainIn(par, w) = <<w>> \o d /\ w \notin Inside(par, p)
    BY <1>1, <1>3, InsideIs, ChainIs, NoCycle DEF Parents
  <2>2. d \in Seq(Windows) /\ ToSet(d) = Inside(par, p)
    BY <2>1, ChainElements
  <2>. HIDE DEF d
  <2>3. Tail(<<w>> \o d) = d
    BY <2>2
  <2>. QED BY <2>1, <2>2, <2>3
<1>. QED BY <1>2, <1>3

\* A window that gets another parent, which is not in it, takes along what is
\* in it and nothing else.
LEMMA Graft ==
    ASSUME NEW par, Tree(par), NEW w \in Windows, NEW p \in Windows \cup {None},
           p # None => w \notin Inside(par, p),
           NEW new \in Parents, new[w] = p, \A x \in Windows \ {w} : new[x] = par[x]
    PROVE  /\ Tree(new)
           /\ \A x \in Windows : w \notin Inside(par, x)
                                   => Inside(new, x) = Inside(par, x)
<1>1. /\ par \in Parents /\ new \in Parents
      /\ new[w] = p /\ \A x \in Windows \ {w} : new[x] = par[x]
  BY DEF Tree, Parents
<1>2. ASSUME NEW x \in Windows, w \notin Inside(par, x)
      PROVE  Inside(new, x) = Inside(par, x)
  <2>1. /\ x \in Inside(par, x) /\ Inside(par, x) \subseteq Windows
        /\ UpClosed(par, Inside(par, x))
        /\ x \in Inside(new, x) /\ Inside(new, x) \subseteq Windows
        /\ UpClosed(new, Inside(new, x))
    BY <1>1, InsideIs
  <2>2. UpClosed(new, Inside(par, x))
    BY <1>1, <1>2, <2>1 DEF UpClosed
  <2>3. Inside(new, x) \subseteq Inside(par, x)
    BY <1>1, <2>1, <2>2, InsideIs
  <2>4. w \notin Inside(new, x)
    BY <1>2, <2>3
  <2>5. UpClosed(par, Inside(new, x))
    BY <1>1, <2>1, <2>4 DEF UpClosed
  <2>6. Inside(par, x) \subseteq Inside(new, x)
    BY <1>1, <2>1, <2>5, InsideIs
  <2>. QED BY <2>3, <2>6
<1>3. Inside(new, w) = {w} \cup IF p = None THEN {} ELSE Inside(par, p)
  <2>1. CASE p = None
    BY <1>1, <2>1, InsideIs
  <2>2. CASE p # None
    <3>1. p \in Windows /\ Inside(new, p) = Inside(par, p)
      BY <1>2, <2>2
    <3>. QED BY <1>1, <2>2, <3>1, InsideIs
  <2>. QED BY <2>1, <2>2
<1>. DEFINE T == {x \in Windows : \E r \in Inside(new, x) : new[r] = None}
<1>4. w \in T
  <2>1. CASE p = None
    BY <1>1, <1>3, <2>1
  <2>2. CASE p # None
    <3>1. p \in Windows /\ w \notin Inside(par, p)
      BY <2>2
    <3>2. PICK r \in Inside(par, p) : par[r] = None
      BY <3>1 DEF Tree
    <3>3. r \in Windows \ {w}
      BY <3>1, <3>2 DEF Inside
    <3>4. new[r] = None /\ r \in Inside(new, w)
      BY <1>1, <1>3, <2>2, <3>2, <3>3
    <3>. QED BY <3>4
  <2>. QED BY <2>1, <2>2
<1>5. ASSUME NEW x \in Windows, par[x] = None \/ par[x] \in T PROVE x \in T
  <2>1. CASE x = w
    BY <1>4, <2>1
  <2>2. CASE x # w /\ par[x] = None
    <3>1. x \in Inside(new, x) /\ new[x] = None
      BY <1>1, <2>2, InsideIs
    <3>. QED BY <3>1
  <2>3. CASE x # w /\ par[x] # None
    <3>1. new[x] = par[x] /\ par[x] \in Windows /\ par[x] \in T
      BY <1>1, <1>5, <2>3
    <3>2. Inside(new, x) = {x} \cup Inside(new, par[x])
      BY <1>1, <2>3, <3>1, InsideIs
    <3>. QED BY <3>1, <3>2
  <2>. QED BY <2>1, <2>2, <2>3
<1>6. \A x \in Windows : x \in T
  <2>. HIDE DEF T
  <2>. QED BY <1>5, TreeInduction
<1>7. Tree(new)
  BY <1>1, <1>6 DEF Tree
<1>. QED BY <1>1, <1>2, <1>7

\* What FocusEvents takes of the chain of v, on the way to w: the windows v is
\* in and w is not.
LEMMA Unshared ==
    ASSUME NEW par, Tree(par), NEW v \in Windows, NEW w \in Windows
    PROVE  LET up == ChainIn(par, v)
               n == Len(up) - Cardinality(ToSet(up) \cap ToSet(ChainIn(par, w)))
           IN  /\ n \in 0..Len(up)
               /\ SubSeq(up, 1, n) \in Seq(Windows) /\ Len(SubSeq(up, 1, n)) = n
               /\ ToSet(SubSeq(up, 1, n)) = Inside(par, v) \ Inside(par, w)
               /\ n > 0 => SubSeq(up, 1, n)[1] = v
<1>1. par \in Parents
  BY DEF Tree
<1>. DEFINE W == Inside(par, w)
            up(x) == ChainIn(par, x)
            n(x) == Depth(par, x) - Cardinality(Inside(par, x) \cap W)
            Good(x) == /\ n(x) \in 0..Depth(par, x)
                       /\ {up(x)[k] : k \in 1..n(x)} = Inside(par, x) \ W
            T == {x \in Windows : Good(x)}
<1>2. \A x \in Windows : /\ up(x) \in Seq(Windows) /\ up(x)[1] = x
                         /\ Len(up(x)) = Depth(par, x) /\ Depth(par, x) \in Nat \ {0}
                         /\ ToSet(up(x)) = Inside(par, x)
                         /\ IsFiniteSet(Inside(par, x)) /\ x \in Inside(par, x)
  BY <1>1, ChainElements, DepthGrows, InsideIs
<1>. HIDE DEF up
<1>3. ASSUME NEW x \in Windows, x \in W PROVE Good(x)
  <2>1. Inside(par, x) \cap W = Inside(par, x)
    BY <1>1, <1>3, InsideTransitive
  <2>2. n(x) = 0
    <3>1. n(x) = Depth(par, x) - Depth(par, x)
      BY <2>1 DEF Depth
    <3>2. Depth(par, x) \in Nat
      BY <1>2
    <3>. HIDE DEF n
    <3>. QED BY <3>1, <3>2
  <2>. HIDE DEF n
  <2>. QED BY <1>2, <2>1, <2>2
<1>4. ASSUME NEW x \in Windows, x \notin W, par[x] = None PROVE Good(x)
  <2>1. Inside(par, x) = {x} /\ Depth(par, x) = 1
    BY <1>1, <1>4, InsideIs, DepthGrows
  <2>2. n(x) = 1
    BY <1>4, <2>1, FS_EmptySet
  <2>. HIDE DEF n
  <2>. QED BY <1>2, <1>4, <2>1, <2>2
<1>5. ASSUME NEW x \in Windows, x \notin W, par[x] # None, par[x] \in T PROVE Good(x)
  <2>. DEFINE p == par[x]
  <2>1. /\ p \in Windows /\ Inside(par, x) = {x} \cup Inside(par, p)
        /\ Depth(par, x) = Depth(par, p) + 1 /\ up(x) = <<x>> \o up(p)
        /\ Good(p)
    BY <1>1, <1>5, InsideIs, DepthGrows, ChainIs DEF Parents, up
  <2>2. Inside(par, x) \cap W = Inside(par, p) \cap W
    BY <1>5, <2>1
  <2>3. n(p) \in Nat /\ n(p) \in 0..Depth(par, p)
    BY <1>2, <2>1
  <2>4. Cardinality(Inside(par, p) \cap W) \in Nat
    BY <1>2, <2>1, FS_Intersection, FS_CardinalityType
  <2>5. n(x) = n(p) + 1
    <3>. DEFINE c == Cardinality(Inside(par, p) \cap W)
    <3>1. n(x) = Depth(par, x) - c /\ n(p) = Depth(par, p) - c
      BY <2>2
    <3>2. c \in Nat /\ Depth(par, p) \in Nat /\ Depth(par, x) = Depth(par, p) + 1
      BY <1>2, <2>1, <2>4
    <3>. HIDE DEF c, n, p
    <3>. QED BY <3>1, <3>2
  <2>6. {up(p)[k] : k \in 1..n(p)} = Inside(par, p) \ W
    BY <2>1
  <2>. HIDE DEF p, n
  <2>a. /\ Depth(par, p) \in Nat /\ n(p) \in Nat /\ n(p) <= Depth(par, p)
        /\ n(x) = n(p) + 1
    BY <1>2, <2>1, <2>3, <2>5
  <2>7. \A k \in 1..Depth(par, p) : up(x)[k + 1] = up(p)[k]
    <3>1. Len(up(p)) = Depth(par, p) /\ up(p) \in Seq(Windows)
      BY <1>2, <2>1
    <3>2. \A k \in 1..Len(up(p)) : (<<x>> \o up(p))[k + 1] = up(p)[k]
      BY <3>1
    <3>. QED BY <2>1, <3>1, <3>2
  <2>8. n(x) \in 0..Depth(par, x)
    BY <1>2, <2>1, <2>3, <2>5
  <2>9. ASSUME NEW k \in 1..n(x) PROVE up(x)[k] \in Inside(par, x) \ W
    <3>1. CASE k = 1
      BY <1>2, <1>5, <3>1
    <3>2. CASE k # 1
      <4>. DEFINE i == k - 1
      <4>1. i \in 1..n(p) /\ i \in 1..Depth(par, p) /\ k = i + 1
        BY <2>a, <3>2
      <4>. HIDE DEF i
      <4>2. up(x)[k] = up(p)[i] /\ up(p)[i] \in Inside(par, p) \ W
        BY <2>6, <2>7, <4>1
      <4>. QED BY <2>1, <4>2
    <3>. QED BY <3>1, <3>2
  <2>10. ASSUME NEW y \in Inside(par, x) \ W PROVE y \in {up(x)[k] : k \in 1..n(x)}
    <3>1. CASE y = x
      <4>1. 1 \in 1..n(x) /\ up(x)[1] = x
        BY <1>2, <2>3, <2>5
      <4>. QED BY <3>1, <4>1
    <3>2. CASE y # x
      <4>1. PICK k \in 1..n(p) : y = up(p)[k]
        BY <2>1, <2>6, <3>2
      <4>2. k \in 1..Depth(par, p) /\ k + 1 \in 1..n(x)
        BY <2>a, <4>1
      <4>3. up(x)[k + 1] = y
        BY <2>7, <4>1, <4>2
      <4>. QED BY <4>2, <4>3
    <3>. QED BY <3>1, <3>2
  <2>. QED BY <2>8, <2>9, <2>10
<1>6. \A x \in Windows : x \in T
  <2>. HIDE DEF Good
  <2>1. ASSUME NEW x \in Windows, par[x] = None \/ par[x] \in T PROVE x \in T
    BY <1>3, <1>4, <1>5, <2>1
  <2>. HIDE DEF T
  <2>. QED BY <2>1, TreeInduction
<1>. DEFINE m == n(v)
            s == SubSeq(up(v), 1, m)
<1>7. m \in 0..Len(up(v)) /\ {up(v)[k] : k \in 1..m} = Inside(par, v) \ W
  BY <1>2, <1>6
<1>8. m = Len(up(v)) - Cardinality(ToSet(up(v)) \cap ToSet(up(w)))
  BY <1>2
<1>. HIDE DEF m
<1>9. s \in Seq(Windows) /\ Len(s) = m /\ \A k \in 1..m : s[k] = up(v)[k]
  BY <1>2, <1>7
<1>. HIDE DEF s
<1>10. ToSet(s) = {up(v)[k] : k \in 1..m}
  BY <1>9 DEF ToSet
<1>11. m > 0 => s[1] = v
  <2>1. m > 0 => 1 \in 1..m
    BY <1>7
  <2>. QED BY <1>2, <1>9, <2>1
<1>. QED BY <1>7, <1>8, <1>9, <1>10, <1>11 DEF s, up

-----------------------------------------------------------------------------
(* The inductive invariant.                                                *)

\* The windows that are in nothing freed, down from the root window; those
\* being destroyed are the innermost first, one in the other.
TreeInv ==
    /\ Tree(parent) /\ parent[Root] = None /\ Root \in live \cap mapped
    /\ \A w \in live \ {Root} : parent[w] \in live
    /\ \A w \in Windows \ live : parent[w] = None
    /\ gone \subseteq Clients

DyingInv ==
    /\ ToSet(dying) \subseteq live \ {Root} /\ IsInjective(dying)
    /\ \A i, j \in 1..Len(dying) : i <= j => dying[j] \in Inside(parent, dying[i])
    /\ idle => dying = <<>>

EventSet == [type : {"In", "InNone", "Out", "OutInferior", "Enter", "Gone"},
             win : Windows]
Ins == {"In", "InNone", "OutInferior"}
Outs == {"Out"}
Turns == Ins \cup Outs

\* What the events q say of a window in the end.
Ends(q, w, Kinds) ==
    \E i \in DOMAIN q : /\ q[i].win = w /\ q[i].type \in Kinds
                       /\ \A j \in DOMAIN q :
                             j > i /\ q[j].win = w /\ q[j].type \in Turns
                                => q[j].type \in Kinds
Silent(q, w) == \A i \in DOMAIN q : q[i].win = w => q[i].type \notin Turns
EndsAt(q, w) ==
    \E i \in DOMAIN q : /\ q[i] = Event("In", w)
                       /\ \A j \in DOMAIN q : j > i => q[j].type \notin Turns
NoTurn(q) == \A i \in DOMAIN q : q[i].type \notin Turns

\* The windows the focus x is in.
Hold(par, x) == IF x = None THEN {Root} ELSE Inside(par, x)

\* Once the events q are handled, the windows act marked active will be, as
\* far as w goes, those of hold, and the list hist will begin with x.
Believed(q, act, hold, w) ==
    /\ w \in hold => Ends(q, w, Ins) \/ (Silent(q, w) /\ w \in act)
    /\ w \notin hold => Ends(q, w, Outs) \/ (Silent(q, w) /\ w \notin act)
Latest(q, hist, x) ==
    x # None => EndsAt(q, x) \/ (NoTurn(q) /\ hist # <<>> /\ Head(hist) = x)

ServerInv ==
    /\ xfocus \in live \cup {None}
    /\ xfocus # None => gone \cap Inside(parent, xfocus) = {}
    /\ \A i \in DOMAIN queue : queue[i].type = "Gone" => queue[i].win \in Clients

BeliefInv ==
    /\ active \subseteq live
    /\ \A w \in live : Believed(queue, active, Hold(parent, xfocus), w)
    /\ Latest(queue, history, xfocus)

FocusInv ==
    /\ RefersToLive /\ TreeInv /\ DyingInv /\ ServerInv /\ BeliefInv

-----------------------------------------------------------------------------
(* What a sequence of events says in the end.                              *)

\* Of two sequences, the second has the last word.
LEMMA JoinEnds ==
    ASSUME NEW q \in Seq(EventSet), NEW e \in Seq(EventSet), NEW w, NEW K
    PROVE  /\ q \o e \in Seq(EventSet)
           /\ Ends(e, w, K) => Ends(q \o e, w, K)
           /\ Ends(q, w, K) /\ Silent(e, w) => Ends(q \o e, w, K)
           /\ Silent(q, w) /\ Silent(e, w) => Silent(q \o e, w)
           /\ EndsAt(e, w) => EndsAt(q \o e, w)
           /\ EndsAt(q, w) /\ NoTurn(e) => EndsAt(q \o e, w)
           /\ NoTurn(q) /\ NoTurn(e) => NoTurn(q \o e)
<1>. DEFINE t == q \o e
            m == Len(q)
            n == Len(e)
<1>1. m \in Nat /\ n \in Nat /\ DOMAIN q = 1..m /\ DOMAIN e = 1..n
  OBVIOUS
<1>2. /\ t \in Seq(EventSet) /\ DOMAIN t = 1..(m + n)
      /\ \A i \in 1..m : t[i] = q[i]
      /\ \A i \in 1..n : t[m + i] = e[i]
  OBVIOUS
<1>. HIDE DEF t, m, n
<1>3. /\ \A i \in 1..m : i \in DOMAIN t
      /\ \A i \in 1..n : m + i \in DOMAIN t
      /\ \A i \in DOMAIN t : i \in 1..m \/ \E k \in 1..n : i = m + k
  <2>1. ASSUME NEW i \in 1..(m + n), i \notin 1..m PROVE i - m \in 1..n /\ i = m + (i - m)
    BY <1>1, <2>1
  <2>2. \A i \in 1..m : i \in DOMAIN t
    BY <1>1, <1>2
  <2>3. \A i \in 1..n : m + i \in DOMAIN t
    BY <1>1, <1>2
  <2>. QED BY <1>2, <2>1, <2>2, <2>3
<1>4. ASSUME Ends(e, w, K) PROVE Ends(t, w, K)
  <2>1. PICK i \in 1..n : /\ e[i].win = w /\ e[i].type \in K
                          /\ \A j \in 1..n : j > i /\ e[j].win = w /\ e[j].type \in Turns
                                               => e[j].type \in K
    BY <1>1, <1>4 DEF Ends
  <2>2. ASSUME NEW j \in DOMAIN t, j > m + i, t[j].win = w, t[j].type \in Turns
        PROVE  t[j].type \in K
    <3>1. j \notin 1..m
      BY <1>1, <2>2
    <3>2. PICK k \in 1..n : j = m + k
      BY <1>3, <3>1
    <3>3. k > i
      BY <1>1, <2>2, <3>2
    <3>. QED BY <1>2, <2>1, <2>2, <3>2, <3>3
  <2>. QED BY <1>2, <1>3, <2>1, <2>2 DEF Ends
<1>5. ASSUME Ends(q, w, K), Silent(e, w) PROVE Ends(t, w, K)
  <2>1. PICK i \in 1..m : /\ q[i].win = w /\ q[i].type \in K
                          /\ \A j \in 1..m : j > i /\ q[j].win = w /\ q[j].type \in Turns
                                               => q[j].type \in K
    BY <1>1, <1>5 DEF Ends
  <2>2. ASSUME NEW j \in DOMAIN t, j > i, t[j].win = w, t[j].type \in Turns
        PROVE  t[j].type \in K
    <3>1. CASE j \in 1..m
      BY <1>2, <2>1, <2>2, <3>1
    <3>2. ASSUME NEW k \in 1..n, j = m + k PROVE FALSE
      BY <1>1, <1>2, <1>5, <2>2, <3>2 DEF Silent
    <3>. QED BY <1>3, <3>1, <3>2
  <2>. QED BY <1>2, <1>3, <2>1, <2>2 DEF Ends
<1>6. ASSUME Silent(q, w), Silent(e, w) PROVE Silent(t, w)
  <2>. SUFFICES ASSUME NEW j \in DOMAIN t, t[j].win = w PROVE t[j].type \notin Turns
    BY DEF Silent
  <2>1. CASE j \in 1..m
    BY <1>1, <1>2, <1>6, <2>1 DEF Silent
  <2>2. ASSUME NEW k \in 1..n, j = m + k PROVE t[j].type \notin Turns
    BY <1>1, <1>2, <1>6, <2>2 DEF Silent
  <2>. QED BY <1>3, <2>1, <2>2
<1>7. ASSUME EndsAt(e, w) PROVE EndsAt(t, w)
  <2>1. PICK i \in 1..n : /\ e[i] = Event("In", w)
                          /\ \A j \in 1..n : j > i => e[j].type \notin Turns
    BY <1>1, <1>7 DEF EndsAt
  <2>2. ASSUME NEW j \in DOMAIN t, j > m + i PROVE t[j].type \notin Turns
    <3>1. j \notin 1..m
      BY <1>1, <2>2
    <3>2. PICK k \in 1..n : j = m + k
      BY <1>3, <3>1
    <3>3. k > i
      BY <1>1, <2>2, <3>2
    <3>. QED BY <1>2, <2>1, <3>2, <3>3
  <2>. QED BY <1>2, <1>3, <2>1, <2>2 DEF EndsAt
<1>8. ASSUME EndsAt(q, w), NoTurn(e) PROVE EndsAt(t, w)
  <2>1. PICK i \in 1..m : /\ q[i] = Event("In", w)
                          /\ \A j \in 1..m : j > i => q[j].type \notin Turns
    BY <1>1, <1>8 DEF EndsAt
  <2>2. ASSUME NEW j \in DOMAIN t, j > i PROVE t[j].type \notin Turns
    BY <1>1, <1>2, <1>3, <1>8, <2>1, <2>2 DEF NoTurn
  <2>. QED BY <1>2, <1>3, <2>1, <2>2 DEF EndsAt
<1>9. ASSUME NoTurn(q), NoTurn(e) PROVE NoTurn(t)
  <2>. SUFFICES ASSUME NEW j \in DOMAIN t PROVE t[j].type \notin Turns
    BY DEF NoTurn
  <2>1. CASE j \in 1..m
    BY <1>1, <1>2, <1>9, <2>1 DEF NoTurn
  <2>2. ASSUME NEW k \in 1..n, j = m + k PROVE t[j].type \notin Turns
    BY <1>1, <1>2, <1>9, <2>2 DEF NoTurn
  <2>. QED BY <1>3, <2>1, <2>2
<1>. QED BY <1>2, <1>4, <1>5, <1>6, <1>7, <1>8, <1>9 DEF t

\* The first event counts for what the others say nothing about.
LEMMA RestEnds ==
    ASSUME NEW q \in Seq(EventSet), q # <<>>, NEW w, NEW K \in SUBSET Turns
    PROVE  /\ Head(q) \in EventSet /\ Tail(q) \in Seq(EventSet)
           /\ Ends(q, w, K) => \/ Ends(Tail(q), w, K)
                               \/ /\ Silent(Tail(q), w)
                                  /\ Head(q).win = w /\ Head(q).type \in K
           /\ Silent(q, w) => /\ Silent(Tail(q), w)
                              /\ Head(q).win = w => Head(q).type \notin Turns
           /\ EndsAt(q, w) => \/ EndsAt(Tail(q), w)
                              \/ NoTurn(Tail(q)) /\ Head(q) = Event("In", w)
           /\ NoTurn(q) => NoTurn(Tail(q)) /\ Head(q).type \notin Turns
<1>. DEFINE t == Tail(q)
            n == Len(q)
<1>1. /\ n \in Nat \ {0} /\ DOMAIN q = 1..n /\ Head(q) = q[1] /\ q[1] \in EventSet
      /\ t \in Seq(EventSet) /\ DOMAIN t = 1..(n - 1)
      /\ \A i \in 1..(n - 1) : t[i] = q[i + 1]
  OBVIOUS
<1>. HIDE DEF t, n
<1>2. \A i \in 1..(n - 1) : i + 1 \in 1..n
  BY <1>1
<1>3. \A i \in 1..n : i = 1 \/ \E k \in 1..(n - 1) : i = k + 1
  <2>1. ASSUME NEW i \in 1..n, i # 1 PROVE i - 1 \in 1..(n - 1) /\ i = (i - 1) + 1
    BY <1>1, <2>1
  <2>. QED BY <2>1
<1>4. ASSUME Ends(q, w, K) PROVE Ends(t, w, K) \/ (Silent(t, w) /\ q[1].win = w /\ q[1].type \in K)
  <2>1. PICK i \in 1..n : /\ q[i].win = w /\ q[i].type \in K
                          /\ \A j \in 1..n : j > i /\ q[j].win = w /\ q[j].type \in Turns
                                               => q[j].type \in K
    BY <1>1, <1>4 DEF Ends
  <2>2. CASE i = 1
    <3>1. CASE Silent(t, w)
      BY <2>1, <2>2, <3>1
    <3>2. CASE ~Silent(t, w)
      <4>1. PICK k \in 1..(n - 1) : t[k].win = w /\ t[k].type \in Turns
        BY <1>1, <3>2 DEF Silent
      <4>2. ASSUME NEW j \in 1..(n - 1), t[j].win = w, t[j].type \in Turns
            PROVE  t[j].type \in K
        <5>1. j + 1 \in 1..n /\ j + 1 > i /\ t[j] = q[j + 1]
          BY <1>1, <1>2, <2>2
        <5>. QED BY <2>1, <4>2, <5>1
      <4>. QED BY <1>1, <4>1, <4>2 DEF Ends
    <3>. QED BY <3>1, <3>2
  <2>3. CASE i # 1
    <3>1. PICK k \in 1..(n - 1) : i = k + 1
      BY <1>3, <2>3
    <3>2. t[k].win = w /\ t[k].type \in K
      BY <1>1, <2>1, <3>1
    <3>3. ASSUME NEW j \in 1..(n - 1), j > k, t[j].win = w, t[j].type \in Turns
          PROVE  t[j].type \in K
      <4>1. j + 1 \in 1..n /\ j + 1 > i /\ t[j] = q[j + 1]
        BY <1>1, <1>2, <3>1, <3>3
      <4>. QED BY <2>1, <3>3, <4>1
    <3>. QED BY <1>1, <3>2, <3>3 DEF Ends
  <2>. QED BY <2>2, <2>3
<1>5. ASSUME Silent(q, w) PROVE Silent(t, w) /\ (q[1].win = w => q[1].type \notin Turns)
  <2>1. Silent(t, w)
    BY <1>1, <1>2, <1>5 DEF Silent
  <2>2. 1 \in 1..n
    BY <1>1
  <2>. QED BY <1>1, <1>5, <2>1, <2>2 DEF Silent
<1>6. ASSUME EndsAt(q, w) PROVE EndsAt(t, w) \/ (NoTurn(t) /\ q[1] = Event("In", w))
  <2>1. PICK i \in 1..n : /\ q[i] = Event("In", w)
                          /\ \A j \in 1..n : j > i => q[j].type \notin Turns
    BY <1>1, <1>6 DEF EndsAt
  <2>2. CASE i = 1
    <3>1. ASSUME NEW j \in 1..(n - 1) PROVE t[j].type \notin Turns
      <4>1. j + 1 \in 1..n /\ j + 1 > i /\ t[j] = q[j + 1]
        BY <1>1, <1>2, <2>2
      <4>. QED BY <2>1, <4>1
    <3>. QED BY <1>1, <2>1, <2>2, <3>1 DEF NoTurn
  <2>3. CASE i # 1
    <3>1. PICK k \in 1..(n - 1) : i = k + 1
      BY <1>3, <2>3
    <3>2. t[k] = Event("In", w)
      BY <1>1, <2>1, <3>1
    <3>3. ASSUME NEW j \in 1..(n - 1), j > k PROVE t[j].type \notin Turns
      <4>1. j + 1 \in 1..n /\ j + 1 > i /\ t[j] = q[j + 1]
        BY <1>1, <1>2, <3>1, <3>3
      <4>. QED BY <2>1, <4>1
    <3>. QED BY <1>1, <3>2, <3>3 DEF EndsAt
  <2>. QED BY <2>2, <2>3
<1>7. ASSUME NoTurn(q) PROVE NoTurn(t) /\ q[1].type \notin Turns
  <2>1. NoTurn(t)
    BY <1>1, <1>2, <1>7 DEF NoTurn
  <2>2. 1 \in 1..n
    BY <1>1
  <2>. QED BY <1>1, <1>7, <2>1, <2>2 DEF NoTurn
<1>. QED BY <1>1, <1>4, <1>5, <1>6, <1>7 DEF t

\* Events of one type.
LEMMA EventsElements ==
    ASSUME NEW ws \in Seq(Windows), NEW type \in {"In", "Out"}
    PROVE  LET e == Events(type, ws)
           IN  /\ e \in Seq(EventSet)
               /\ \A i \in DOMAIN e : e[i].type = type
               /\ \A w, K : type \in K /\ w \in ToSet(ws) => Ends(e, w, K)
               /\ \A w : w \notin ToSet(ws) => Silent(e, w)
<1>. DEFINE e == Events(type, ws)
<1>1. /\ e = [i \in 1..Len(ws) |-> Event(type, ws[i])] /\ Len(ws) \in Nat
      /\ DOMAIN ws = 1..Len(ws) /\ \A i \in 1..Len(ws) : ws[i] \in Windows
  BY DEF Events
<1>2. \A x \in Windows : /\ Event(type, x) \in EventSet
                         /\ Event(type, x).type = type /\ Event(type, x).win = x
  BY DEF Event, EventSet
<1>3. e \in Seq(EventSet) /\ DOMAIN e = DOMAIN ws
  BY <1>1, <1>2
<1>4. \A i \in DOMAIN e : e[i].type = type /\ e[i].win = ws[i]
  BY <1>1, <1>2
<1>. HIDE DEF e
<1>5. ASSUME NEW w, NEW K, type \in K, w \in ToSet(ws) PROVE Ends(e, w, K)
  <2>1. PICK i \in DOMAIN ws : ws[i] = w
    BY <1>5 DEF ToSet
  <2>. QED BY <1>3, <1>4, <1>5, <2>1 DEF Ends
<1>6. ASSUME NEW w, w \notin ToSet(ws) PROVE Silent(e, w)
  BY <1>3, <1>4, <1>6 DEF Silent, ToSet
<1>. QED BY <1>3, <1>4, <1>5, <1>6 DEF e

LEMMA ReverseElements ==
    ASSUME NEW T, NEW s \in Seq(T)
    PROVE  /\ Reverse(s) \in Seq(T) /\ ToSet(Reverse(s)) = ToSet(s)
           /\ Len(Reverse(s)) = Len(s)
           /\ s # <<>> => Reverse(s)[Len(s)] = s[1]
<1>. DEFINE r == Reverse(s)
            n == Len(s)
<1>1. /\ n \in Nat /\ DOMAIN s = 1..n /\ \A i \in 1..n : s[i] \in T
      /\ r = [i \in 1..n |-> s[(n - i) + 1]]
  BY DEF Reverse
<1>. HIDE DEF n, r
<1>2. \A i \in 1..n : (n - i) + 1 \in 1..n
  BY <1>1
<1>3. r \in Seq(T) /\ Len(r) = n /\ DOMAIN r = 1..n
  BY <1>1, <1>2
<1>4. ASSUME NEW i \in 1..n PROVE r[i] \in ToSet(s)
  BY <1>1, <1>2 DEF ToSet
<1>5. ASSUME NEW i \in 1..n PROVE s[i] \in ToSet(r)
  <2>1. (n - i) + 1 \in 1..n /\ (n - ((n - i) + 1)) + 1 = i
    BY <1>1
  <2>2. r[(n - i) + 1] = s[i]
    BY <1>1, <2>1
  <2>. QED BY <1>3, <2>1, <2>2 DEF ToSet
<1>6. ToSet(r) = ToSet(s)
  BY <1>1, <1>3, <1>4, <1>5 DEF ToSet
<1>7. s # <<>> => r[n] = s[1]
  <2>1. s # <<>> => n > 0
    BY DEF n
  <2>2. (n - n) + 1 = 1 /\ (n > 0 => n \in 1..n)
    BY <1>1
  <2>. QED BY <1>1, <2>1, <2>2
<1>. QED BY <1>3, <1>6, <1>7 DEF r, n

-----------------------------------------------------------------------------
(* The events of a change of focus.                                        *)

\* What is believed after two sequences, one after the other.
LEMMA JoinBelief ==
    ASSUME NEW q \in Seq(EventSet), NEW e \in Seq(EventSet), NEW w,
           NEW act, NEW mid, NEW hold,
           Believed(q, act, mid, w), Believed(e, mid, hold, w)
    PROVE  q \o e \in Seq(EventSet) /\ Believed(q \o e, act, hold, w)
BY JoinEnds DEF Believed

LEMMA EventsBelieved ==
    ASSUME NEW ws \in Seq(Windows), NEW w, NEW act
    PROVE  /\ Believed(Events("Out", ws), act, act \ ToSet(ws), w)
           /\ Believed(Events("In", ws), act, act \cup ToSet(ws), w)
<1>1. "Out" \in Outs /\ "In" \in Ins
  BY DEF Outs, Ins
<1>2. \A type \in {"In", "Out"} :
         /\ \A K : type \in K /\ w \in ToSet(ws) => Ends(Events(type, ws), w, K)
         /\ w \notin ToSet(ws) => Silent(Events(type, ws), w)
  BY EventsElements
<1>. QED BY <1>1, <1>2 DEF Believed

LEMMA EventBelieved ==
    ASSUME NEW e \in EventSet, NEW w, NEW act
    PROVE  /\ <<e>> \in Seq(EventSet) /\ DOMAIN <<e>> = {1} /\ <<e>>[1] = e
           /\ e.type \in Ins => Believed(<<e>>, act, act \cup {e.win}, w)
           /\ e.type \in Outs => Believed(<<e>>, act, act \ {e.win}, w)
           /\ e.type \notin Turns => Silent(<<e>>, w) /\ NoTurn(<<e>>)
           /\ e = Event("In", w) => EndsAt(<<e>>, w)
<1>. DEFINE s == <<e>>
<1>1. s \in Seq(EventSet) /\ DOMAIN s = {1} /\ s[1] = e
  OBVIOUS
<1>. HIDE DEF s
<1>2. \A K : e.win = w /\ e.type \in K => Ends(s, w, K)
  BY <1>1 DEF Ends
<1>3. e.win # w => Silent(s, w)
  BY <1>1 DEF Silent
<1>4. e = Event("In", w) => EndsAt(s, w)
  BY <1>1 DEF EndsAt
<1>5. e.type \notin Turns => Silent(s, w) /\ NoTurn(s)
  BY <1>1 DEF Silent, NoTurn
<1>6. /\ e.type \in Ins => Believed(s, act, act \cup {e.win}, w)
      /\ e.type \in Outs => Believed(s, act, act \ {e.win}, w)
  BY <1>2, <1>3 DEF Believed
<1>. QED BY <1>1, <1>4, <1>5, <1>6 DEF s

\* Focus-ins down to a window end at it.
LEMMA InsEndAt ==
    ASSUME NEW ws \in Seq(Windows), ws # <<>>
    PROVE  EndsAt(Events("In", Reverse(ws)), ws[1])
<1>. DEFINE r == Reverse(ws)
            e == Events("In", r)
<1>1. r \in Seq(Windows) /\ Len(r) = Len(ws) /\ r[Len(ws)] = ws[1]
  BY ReverseElements
<1>2. Len(ws) \in Nat \ {0}
  OBVIOUS
<1>. HIDE DEF r
<1>3. DOMAIN e = 1..Len(ws) /\ e[Len(ws)] = Event("In", ws[1])
  BY <1>1, <1>2 DEF Events
<1>. HIDE DEF e
<1>4. Len(ws) \in DOMAIN e /\ \A j \in DOMAIN e : ~(j > Len(ws))
  BY <1>2, <1>3
<1>. QED BY <1>3, <1>4 DEF EndsAt, e, r

\* The events of a change of focus turn the belief from the windows the focus
\* was in to those it is in now, and end at the window that has it.
LEMMA FocusEventsEnd ==
    ASSUME Tree(parent), NEW from \in Windows \cup {None},
           NEW to \in Windows \cup {None}
    PROVE  LET e == FocusEvents(from, to)
           IN  /\ e \in Seq(EventSet) /\ \A i \in DOMAIN e : e[i].type \in Turns
               /\ \A w : Believed(e, Hold(parent, from), Hold(parent, to), w)
               /\ to # None /\ from # to => EndsAt(e, to)
<1>. DEFINE e == FocusEvents(from, to)
            Good(s, h1, h2) == /\ s \in Seq(EventSet)
                               /\ \A i \in DOMAIN s : s[i].type \in Turns
                               /\ \A w : Believed(s, h1, h2, w)
<1>1. ASSUME NEW s1, NEW s2, NEW h1, NEW h2, NEW h3, Good(s1, h1, h2), Good(s2, h2, h3)
      PROVE  Good(s1 \o s2, h1, h3)
  <2>1. s1 \o s2 \in Seq(EventSet) /\ \A w : Believed(s1 \o s2, h1, h3, w)
    BY <1>1, JoinBelief
  <2>2. \A i \in DOMAIN (s1 \o s2) : (s1 \o s2)[i].type \in Turns
    <3>1. /\ \A i \in 1..Len(s1) : (s1 \o s2)[i] = s1[i] /\ i \in DOMAIN s1
          /\ \A i \in DOMAIN (s1 \o s2) :
                i \notin 1..Len(s1) => /\ i - Len(s1) \in DOMAIN s2
                                      /\ (s1 \o s2)[i] = s2[i - Len(s1)]
      BY <1>1
    <3>. QED BY <1>1, <3>1
  <2>. QED BY <2>1, <2>2
<1>2. ASSUME NEW ws \in Seq(Windows), NEW h
      PROVE  /\ Good(Events("Out", ws), h, h \ ToSet(ws))
             /\ Good(Events("In", ws), h, h \cup ToSet(ws))
  BY EventsElements, EventsBelieved DEF Turns, Ins, Outs
<1>3. ASSUME NEW x \in Windows, NEW type \in Ins, NEW h
      PROVE  Good(<<Event(type, x)>>, h, h \cup {x})
  <2>1. /\ Event(type, x) \in EventSet /\ Event(type, x).type = type
        /\ Event(type, x).win = x
    BY DEF Event, EventSet, Ins
  <2>. DEFINE y == Event(type, x)
  <2>. HIDE DEF y
  <2>2. \A w : Believed(<<y>>, h, h \cup {y.win}, w)
    BY <2>1, EventBelieved DEF y
  <2>3. <<y>> \in Seq(EventSet) /\ \A i \in DOMAIN <<y>> : <<y>>[i].type = type
    BY <2>1 DEF y
  <2>4. y.win = x /\ type \in Turns
    BY <2>1 DEF y, Turns
  <2>5. Good(<<y>>, h, h \cup {x})
    BY <2>2, <2>3, <2>4
  <2>. QED BY <2>5 DEF y
<1>4. ASSUME NEW x \in Windows, NEW h
      PROVE  Good(<<Event("Out", x)>>, h, h \ {x})
  <2>1. /\ Event("Out", x) \in EventSet /\ Event("Out", x).type = "Out"
        /\ Event("Out", x).win = x
    BY DEF Event, EventSet
  <2>. QED BY <2>1, EventBelieved DEF Turns, Outs
<1>5. ASSUME NEW x \in Windows PROVE EndsAt(<<Event("In", x)>>, x)
  <2>1. Event("In", x) \in EventSet
    BY DEF Event, EventSet
  <2>. QED BY <2>1, EventBelieved
<1>6. ASSUME NEW s1, NEW s2, NEW w, Good(s1, {}, {}) \/ s1 \in Seq(EventSet),
             s2 \in Seq(EventSet), EndsAt(s2, w)
      PROVE  EndsAt(s1 \o s2, w)
  BY <1>6, JoinEnds
<1>7. Root \in Windows /\ None \notin Windows
  BY WindowsAssumption DEF Windows
<1>8. ASSUME NEW x \in Windows
      PROVE  /\ Chain(x) \in Seq(Windows) /\ ToSet(Chain(x)) = Inside(parent, x)
             /\ Chain(x) # <<>> /\ Chain(x)[1] = x
             /\ Hold(parent, x) = Inside(parent, x)
             /\ Reverse(Chain(x)) \in Seq(Windows)
             /\ ToSet(Reverse(Chain(x))) = Inside(parent, x)
  <2>1. /\ Chain(x) \in Seq(Windows) /\ ToSet(Chain(x)) = Inside(parent, x)
        /\ Len(Chain(x)) # 0 /\ Chain(x)[1] = x
    BY ChainElements DEF Chain
  <2>2. Chain(x) # <<>>
    BY <2>1
  <2>. QED BY <1>7, <2>1, <2>2, ReverseElements DEF Hold
<1>. HIDE DEF Good
<1>9. CASE from = to
  <2>1. e = <<>>
    BY <1>9 DEF FocusEvents
  <2>2. <<>> \in Seq(EventSet) /\ DOMAIN <<>> = {}
    OBVIOUS
  <2>3. \A w : Believed(<<>>, Hold(parent, from), Hold(parent, from), w)
    BY <2>2 DEF Believed, Silent
  <2>. QED BY <1>9, <2>1, <2>2, <2>3
<1>10. CASE from # to /\ from = None
  <2>1. to \in Windows
    BY <1>10
  <2>. DEFINE s1 == <<Event("Out", Root)>>
              s2 == Events("In", Reverse(Chain(to)))
  <2>2. e = s1 \o s2
    BY <1>10 DEF FocusEvents
  <2>3. Good(s1, {Root}, {}) /\ {Root} = Hold(parent, from)
    <3>1. {Root} \ {Root} = {}
      OBVIOUS
    <3>. QED BY <1>4, <1>7, <1>10, <3>1 DEF Hold
  <2>4. Good(s2, {}, Hold(parent, to))
    <3>1. /\ {} \cup ToSet(Reverse(Chain(to))) = Hold(parent, to)
          /\ Reverse(Chain(to)) \in Seq(Windows)
      BY <1>8, <2>1
    <3>. QED BY <1>2, <3>1
  <2>5. EndsAt(s2, to)
    BY <1>8, <2>1, InsEndAt
  <2>6. Good(e, Hold(parent, from), Hold(parent, to))
    BY <1>1, <2>2, <2>3, <2>4
  <2>7. EndsAt(e, to)
    BY <1>6, <2>2, <2>3, <2>4, <2>5 DEF Good
  <2>. QED BY <2>6, <2>7 DEF Good
<1>11. CASE from # to /\ to = None
  <2>1. from \in Windows
    BY <1>11
  <2>. DEFINE s1 == Events("Out", Chain(from))
              s2 == <<Event("InNone", Root)>>
  <2>2. e = s1 \o s2
    BY <1>7, <1>11, <2>1 DEF FocusEvents
  <2>3. Good(s1, Hold(parent, from), {})
    <3>1. Hold(parent, from) \ ToSet(Chain(from)) = {}
      BY <1>8, <2>1
    <3>. QED BY <1>2, <1>8, <2>1, <3>1
  <2>4. Good(s2, {}, Hold(parent, to))
    <3>1. {} \cup {Root} = Hold(parent, to) /\ "InNone" \in Ins
      BY <1>11 DEF Hold, Ins
    <3>. QED BY <1>3, <1>7, <3>1
  <2>5. Good(e, Hold(parent, from), Hold(parent, to))
    BY <1>1, <2>2, <2>3, <2>4
  <2>. QED BY <1>11, <2>5 DEF Good
<1>12. CASE from # to /\ from # None /\ to # None
  <2>1. from \in Windows /\ to \in Windows
    BY <1>12
  <2>. DEFINE up == Chain(from)
              down == Chain(to)
              shared == Cardinality(ToSet(up) \cap ToSet(down))
              outs == SubSeq(up, 1, Len(up) - shared)
              ins == SubSeq(down, 1, Len(down) - shared)
              s1 == IF outs = <<>> THEN <<Event("OutInferior", from)>>
                    ELSE Events("Out", outs)
              s2 == IF ins = <<>> THEN <<Event("In", to)>>
                    ELSE Events("In", Reverse(ins))
              mid == Inside(parent, from) \cap Inside(parent, to)
  <2>2. e = s1 \o s2
    BY <1>12, <2>1 DEF FocusEvents
  <2>3. /\ outs \in Seq(Windows)
        /\ ToSet(outs) = Inside(parent, from) \ Inside(parent, to)
    BY <2>1, Unshared DEF Chain
  <2>4. /\ ins \in Seq(Windows) /\ (ins # <<>> => ins[1] = to)
        /\ ToSet(ins) = Inside(parent, to) \ Inside(parent, from)
    <3>1. shared = Cardinality(ToSet(down) \cap ToSet(up))
      <4>1. ToSet(up) \cap ToSet(down) = ToSet(down) \cap ToSet(up)
        OBVIOUS
      <4>. QED BY ONLY <4>1
    <3>2. LET n == Len(down) - shared
          IN  /\ n \in 0..Len(down)
              /\ ins \in Seq(Windows) /\ Len(ins) = n
              /\ ToSet(ins) = Inside(parent, to) \ Inside(parent, from)
              /\ n > 0 => ins[1] = to
      BY <2>1, <3>1, Unshared DEF Chain
    <3>. HIDE DEF ins, shared, down
    <3>3. ins # <<>> => Len(ins) > 0
      BY <3>2
    <3>. QED BY <3>2, <3>3
  <2>5. /\ Hold(parent, from) = Inside(parent, from)
        /\ Hold(parent, to) = Inside(parent, to)
    BY <1>8, <2>1
  <2>6. from \in Inside(parent, from) /\ to \in Inside(parent, to)
    BY <2>1, InsideIs DEF Tree
  <2>. HIDE DEF outs, ins
  <2>7. Good(s1, Inside(parent, from), mid)
    <3>1. CASE outs = <<>>
      <4>1. ToSet(outs) = {}
        BY <3>1 DEF ToSet
      <4>2. Inside(parent, from) \cup {from} = mid /\ Inside(parent, from) = mid
        BY <2>3, <2>6, <4>1
      <4>3. "OutInferior" \in Ins
        BY DEF Ins
      <4>. QED BY <1>3, <2>1, <3>1, <4>2, <4>3
    <3>2. CASE outs # <<>>
      <4>1. Inside(parent, from) \ ToSet(outs) = mid
        BY <2>3
      <4>. QED BY <1>2, <2>3, <3>2, <4>1
    <3>. QED BY <3>1, <3>2
  <2>8. Good(s2, mid, Inside(parent, to)) /\ EndsAt(s2, to)
    <3>1. CASE ins = <<>>
      <4>1. ToSet(ins) = {}
        BY <3>1 DEF ToSet
      <4>2. mid \cup {to} = Inside(parent, to)
        BY <2>4, <2>6, <4>1
      <4>3. "In" \in Ins
        BY DEF Ins
      <4>. QED BY <1>3, <1>5, <2>1, <3>1, <4>2, <4>3
    <3>2. CASE ins # <<>>
      <4>1. mid \cup ToSet(Reverse(ins)) = Inside(parent, to)
            /\ Reverse(ins) \in Seq(Windows)
        BY <2>4, ReverseElements
      <4>2. EndsAt(Events("In", Reverse(ins)), to)
        BY <2>4, <3>2, InsEndAt
      <4>. QED BY <1>2, <3>2, <4>1, <4>2
    <3>. QED BY <3>1, <3>2
  <2>. HIDE DEF s1, s2, mid
  <2>9. Good(e, Hold(parent, from), Hold(parent, to))
    BY <1>1, <2>2, <2>5, <2>7, <2>8
  <2>10. EndsAt(e, to)
    BY <1>6, <2>2, <2>7, <2>8 DEF Good
  <2>. QED BY <2>9, <2>10 DEF Good
<1>. QED BY <1>9, <1>10, <1>11, <1>12

-----------------------------------------------------------------------------
(* What the invariant says of a state.                                     *)

LEMMA Placed ==
    ASSUME TypeOK, TreeInv
    PROVE  /\ Root \in Windows /\ None \notin Windows /\ parent \in Parents
           /\ Root \in Frames /\ Frames \cap Clients = {}
           /\ \A x \in Windows :
                 /\ x # None /\ x \in Inside(parent, x)
                 /\ Inside(parent, x) \subseteq Windows
                 /\ Above(x) = Inside(parent, x)
                 /\ Hold(parent, x) = Inside(parent, x)
                 /\ Inside(parent, x) \ {x} \subseteq Frames
           /\ Above(None) = {} /\ Hold(parent, None) = {Root}
           /\ \A x \in live : /\ x \in Windows /\ Inside(parent, x) \subseteq live
                              /\ Root \in Inside(parent, x)
           /\ \A x \in live \ {Root} : parent[x] \in live \cap Frames
<1>1. /\ Root \in Windows /\ None \notin Windows
      /\ Root \in Frames /\ Frames \cap Clients = {}
  BY WindowsAssumption DEF Windows
<1>2. parent \in Parents /\ Tree(parent)
  BY DEF TreeInv, Tree
<1>3. ASSUME NEW x \in Windows
      PROVE  /\ x # None /\ x \in Inside(parent, x)
             /\ Inside(parent, x) \subseteq Windows
             /\ Above(x) = Inside(parent, x)
             /\ Hold(parent, x) = Inside(parent, x)
             /\ Inside(parent, x) \ {x} \subseteq Frames
  <2>1. /\ x # None /\ x \in Inside(parent, x)
        /\ Inside(parent, x) \subseteq Windows
        /\ Above(x) = Inside(parent, x)
    BY <1>1, <1>2, InsideIs, AboveIs DEF Above
  <2>2. Inside(parent, x) \subseteq {x} \cup Frames
    <3>1. {x} \cup Frames \in SUBSET Windows /\ UpClosed(parent, {x} \cup Frames)
      BY DEF TypeOK, UpClosed, Windows
    <3>. QED BY <1>2, <3>1, InsideIs
  <2>. QED BY <2>1, <2>2 DEF Hold
<1>4. ASSUME NEW x \in live
      PROVE  /\ x \in Windows /\ Inside(parent, x) \subseteq live
             /\ Root \in Inside(parent, x)
  <2>1. x \in Windows /\ live \in SUBSET Windows
    BY DEF TypeOK
  <2>2. UpClosed(parent, live)
    BY DEF TreeInv, UpClosed
  <2>3. Inside(parent, x) \subseteq live
    BY <1>2, <2>1, <2>2, InsideIs
  <2>4. PICK r \in Inside(parent, x) : parent[r] = None
    BY <1>2, <2>1 DEF Tree
  <2>5. r = Root
    BY <1>1, <2>1, <2>3, <2>4 DEF TreeInv
  <2>. QED BY <2>1, <2>3, <2>4, <2>5
<1>5. \A x \in live \ {Root} : parent[x] \in live \cap Frames
  BY <1>1 DEF TypeOK, TreeInv
<1>6. Above(None) = {} /\ Hold(parent, None) = {Root}
  BY DEF Above, AboveIn, Hold
<1>. QED BY <1>1, <1>2, <1>3, <1>4, <1>5, <1>6

\* A window without children is in no other.
LEMMA Leaf ==
    ASSUME TypeOK, TreeInv, NEW w \in live, Children(w) = {},
           NEW x \in live, x # w
    PROVE  w \notin Inside(parent, x)
<1>1. /\ parent \in Parents /\ x \in Windows /\ x \in Inside(parent, x)
      /\ Inside(parent, x) \subseteq live /\ Inside(parent, x) \subseteq Windows
  BY Placed
<1>. DEFINE S == Inside(parent, x) \ {w}
<1>2. UpClosed(parent, S)
  <2>1. UpClosed(parent, Inside(parent, x))
    BY <1>1, InsideIs
  <2>2. \A y \in S : parent[y] # w
    BY <1>1 DEF Children
  <2>. QED BY <2>1, <2>2 DEF UpClosed
<1>3. Inside(parent, x) \subseteq S
  BY <1>1, <1>2, InsideIs
<1>. QED BY <1>3

-----------------------------------------------------------------------------
(* The focus of the server moves.                                          *)

\* The server's side of a step, with the tree and the belief still as before.
ServerMoved ==
    /\ xfocus' \in live \cup {None} /\ xrevert' \in {"parent", "none"}
    /\ queue' \in Seq(EventSet)
    /\ \A i \in DOMAIN queue' : queue'[i].type = "Gone" => queue'[i].win \in Clients
    /\ xfocus' # None => gone \cap Inside(parent, xfocus') = {}
    /\ \A w \in live : Believed(queue', active, Hold(parent, xfocus'), w)
    /\ Latest(queue', history, xfocus')

\* The focus is not in w.
Away(w) == xfocus' # None => w \notin Inside(parent, xfocus')

\* Events that are not about the focus, as the server adds them.
Asides == {q \in Seq(EventSet) :
              /\ \A w : Silent(q, w)
              /\ NoTurn(q)
              /\ \A i \in DOMAIN q : q[i].type = "Gone" => q[i].win \in Clients}

LEMMA AsidesAre ==
    /\ <<>> \in Asides
    /\ \A w \in Clients : <<Event("Gone", w)>> \in Asides
    /\ \A w \in Windows : <<Event("Enter", w)>> \in Asides
<1>1. <<>> \in Seq(EventSet) /\ DOMAIN <<>> = {}
  OBVIOUS
<1>2. <<>> \in Asides
  BY <1>1 DEF Asides, Silent, NoTurn
<1>3. ASSUME NEW w \in Windows, NEW type \in {"Gone", "Enter"},
             type = "Gone" => w \in Clients
      PROVE  <<Event(type, w)>> \in Asides
  <2>. DEFINE e == Event(type, w)
  <2>1. e \in EventSet /\ e.type = type /\ e.win = w /\ e.type \notin Turns
    BY DEF Event, EventSet, Turns, Ins, Outs
  <2>. HIDE DEF e
  <2>2. /\ <<e>> \in Seq(EventSet) /\ DOMAIN <<e>> = {1} /\ <<e>>[1] = e
        /\ (\A v : Silent(<<e>>, v)) /\ NoTurn(<<e>>)
    BY <2>1, EventBelieved
  <2>3. <<e>> \in Asides
    BY <1>3, <2>1, <2>2 DEF Asides
  <2>. QED BY <2>3 DEF e
<1>. QED BY <1>2, <1>3 DEF Windows

LEMMA AsideBelieved ==
    ASSUME NEW q \in Seq(EventSet), NEW more \in Asides,
           \A i \in DOMAIN q : q[i].type = "Gone" => q[i].win \in Clients
    PROVE  /\ q \o more \in Seq(EventSet)
           /\ \A i \in DOMAIN (q \o more) :
                 (q \o more)[i].type = "Gone" => (q \o more)[i].win \in Clients
           /\ \A act, hold, w : Believed(q, act, hold, w)
                                  => Believed(q \o more, act, hold, w)
           /\ \A hist, x : Latest(q, hist, x) => Latest(q \o more, hist, x)
<1>1. /\ more \in Seq(EventSet) /\ NoTurn(more) /\ \A w : Silent(more, w)
      /\ \A i \in DOMAIN more : more[i].type = "Gone" => more[i].win \in Clients
  BY DEF Asides
<1>2. q \o more \in Seq(EventSet)
  BY <1>1
<1>3. \A i \in DOMAIN (q \o more) :
         \/ i \in DOMAIN q /\ (q \o more)[i] = q[i]
         \/ i - Len(q) \in DOMAIN more /\ (q \o more)[i] = more[i - Len(q)]
  BY <1>1
<1>4. ASSUME NEW act, NEW hold, NEW w, Believed(q, act, hold, w)
      PROVE  Believed(q \o more, act, hold, w)
  BY <1>1, <1>4, JoinEnds DEF Believed
<1>5. ASSUME NEW hist, NEW x, Latest(q, hist, x) PROVE Latest(q \o more, hist, x)
  BY <1>1, <1>5, JoinEnds DEF Latest
<1>. QED BY <1>1, <1>2, <1>3, <1>4, <1>5

\* The focus goes to a window that is there, or to none.
LEMMA FocusMoves ==
    ASSUME FocusInv, NEW to \in live \cup {None}, NEW more \in Asides,
           to # None => gone \cap Inside(parent, to) = {},
           NEW revert \in {"parent", "none"}, MoveFocus(to, revert, more)
    PROVE  ServerMoved /\ xfocus' = to
<1>. USE DEF FocusInv
<1>1. /\ TypeOK /\ Tree(parent) /\ xfocus \in Windows \cup {None}
      /\ to \in Windows \cup {None} /\ queue \in Seq(EventSet)
  BY DEF RefersToLive, TypeOK, TreeInv, EventSet
<1>. DEFINE e == FocusEvents(xfocus, to)
            q == queue \o e
<1>2. /\ e \in Seq(EventSet) /\ \A i \in DOMAIN e : e[i].type \in Turns
      /\ \A w : Believed(e, Hold(parent, xfocus), Hold(parent, to), w)
      /\ to # None /\ xfocus # to => EndsAt(e, to)
      /\ xfocus = to => e = <<>>
  BY <1>1, FocusEventsEnd DEF FocusEvents
<1>. HIDE DEF e
<1>3. q \in Seq(EventSet)
  BY <1>1, <1>2
<1>4. \A i \in DOMAIN q : q[i].type = "Gone" => q[i].win \in Clients
  <2>1. \A i \in DOMAIN q :
           \/ i \in DOMAIN queue /\ q[i] = queue[i]
           \/ i - Len(queue) \in DOMAIN e /\ q[i] = e[i - Len(queue)]
    BY <1>1, <1>2
  <2>2. "Gone" \notin Turns
    BY DEF Turns, Ins, Outs
  <2>. QED BY <1>2, <2>1, <2>2 DEF ServerInv
<1>5. \A w \in live : Believed(q, active, Hold(parent, to), w)
  BY <1>1, <1>2, JoinBelief DEF BeliefInv
<1>6. Latest(q, history, to)
  <2>1. CASE xfocus = to
    <3>1. e = <<>> /\ NoTurn(<<>>)
      BY <1>2, <2>1 DEF NoTurn
    <3>2. Latest(queue, history, to)
      BY <2>1 DEF BeliefInv
    <3>. QED BY <1>1, <1>2, <3>1, <3>2, JoinEnds DEF Latest
  <2>2. CASE xfocus # to
    BY <1>1, <1>2, <2>2, JoinEnds DEF Latest
  <2>. QED BY <2>1, <2>2
<1>7. queue' = q \o more /\ xfocus' = to /\ xrevert' = revert
  BY DEF MoveFocus, e
<1>. HIDE DEF q, FocusInv
<1>8. /\ q \o more \in Seq(EventSet)
      /\ \A i \in DOMAIN (q \o more) :
            (q \o more)[i].type = "Gone" => (q \o more)[i].win \in Clients
      /\ \A w \in live : Believed(q \o more, active, Hold(parent, to), w)
      /\ Latest(q \o more, history, to)
  BY <1>3, <1>4, <1>5, <1>6, AsideBelieved
<1>. QED BY <1>7, <1>8 DEF ServerMoved

LEMMA FocusStays ==
    ASSUME FocusInv, NEW more \in Asides, UNCHANGED server, queue' = queue \o more
    PROVE  ServerMoved /\ xfocus' = xfocus
<1>1. /\ queue \in Seq(EventSet) /\ xfocus' = xfocus /\ xrevert' = xrevert
      /\ xrevert \in {"parent", "none"}
  BY DEF FocusInv, RefersToLive, TypeOK, EventSet, server
<1>2. \A i \in DOMAIN queue : queue[i].type = "Gone" => queue[i].win \in Clients
  BY DEF FocusInv, ServerInv
<1>3. /\ queue' \in Seq(EventSet)
      /\ \A i \in DOMAIN queue' : queue'[i].type = "Gone" => queue'[i].win \in Clients
      /\ \A w \in live : Believed(queue', active, Hold(parent, xfocus), w)
      /\ Latest(queue', history, xfocus)
  BY <1>1, <1>2, AsideBelieved DEF FocusInv, BeliefInv
<1>. QED BY <1>1, <1>3 DEF ServerMoved, FocusInv, ServerInv

\* Nothing in a window that is not viewable has the focus.
LEMMA FocusAway ==
    ASSUME FocusInv, NEW w \in live \ {Root}, NEW more \in Asides, Unview(w, more)
    PROVE  ServerMoved /\ Away(w)
<1>1. TypeOK /\ TreeInv /\ Tree(parent)
  BY DEF FocusInv, RefersToLive, TreeInv
<1>2. CASE w \notin Above(xfocus)
  <2>1. UNCHANGED server /\ queue' = queue \o more
    BY <1>2 DEF Unview
  <2>2. ServerMoved /\ xfocus' = xfocus
    BY <2>1, FocusStays
  <2>3. xfocus # None => Above(xfocus) = Inside(parent, xfocus)
    BY <1>1, Placed DEF FocusInv, ServerInv
  <2>. QED BY <1>2, <2>2, <2>3 DEF Away
<1>3. CASE w \in Above(xfocus) /\ xrevert # "parent"
  <2>1. MoveFocus(None, "none", more)
    BY <1>3 DEF Unview
  <2>. QED BY <2>1, FocusMoves DEF Away
<1>4. CASE w \in Above(xfocus) /\ xrevert = "parent"
  <2>. DEFINE S == {p \in live : FullyMapped(p)}
              t == Tail(Chain(w))
              to == Head(ViewableAbove(w))
  <2>1. w \in Windows /\ Root \in Inside(parent, w) /\ Inside(parent, w) \subseteq live
    BY <1>1, Placed
  <2>2. t \in Seq(Windows) /\ ToSet(t) = Inside(parent, w) \ {w}
    BY <1>1, <2>1, OutsideElements DEF Chain
  <2>. HIDE DEF t
  <2>3. Only(t, S) \in Seq(Windows) /\ ToSet(Only(t, S)) = ToSet(t) \cap S
    BY <2>2, OnlyElements
  <2>4. Root \in S
    <3>1. Root \in live \cap mapped /\ parent[Root] = None /\ Root \in Windows
      BY <1>1, Placed DEF TreeInv
    <3>2. Above(Root) = {Root}
      BY <1>1, <3>1, Placed, InsideIs
    <3>. QED BY <3>1, <3>2 DEF FullyMapped
  <2>5. to \in ToSet(t) \cap S
    <3>1. Only(t, S) # <<>>
      <4>1. Root \in ToSet(Only(t, S))
        BY <2>1, <2>2, <2>3, <2>4
      <4>2. ToSet(<<>>) = {}
        BY DEF ToSet
      <4>. QED BY <4>1, <4>2
    <3>2. Head(Only(t, S)) \in ToSet(Only(t, S))
      <4>. DEFINE o == Only(t, S)
      <4>1. o \in Seq(Windows) /\ o # <<>>
        BY <2>3, <3>1
      <4>. HIDE DEF o
      <4>2. 1 \in DOMAIN o /\ Head(o) = o[1]
        BY <4>1
      <4>. QED BY <4>2 DEF ToSet, o
    <3>. QED BY <2>3, <3>2 DEF ViewableAbove, t
  <2>. HIDE DEF to, S
  <2>6. to \in live /\ to \in Windows /\ to \in Frames /\ to \in Inside(parent, w) /\ to # w
    BY <1>1, <2>1, <2>2, <2>5, Placed
  <2>7. w \notin Inside(parent, to)
    <3>1. parent[w] # None /\ Inside(parent, w) = {w} \cup Inside(parent, parent[w])
      BY <1>1, <2>1, <2>6, Placed, InsideIs
    <3>2. to \in Inside(parent, parent[w]) /\ parent[w] \in Windows /\ parent \in Parents
      BY <1>1, <2>1, <2>6, <3>1, Placed DEF Parents
    <3>3. Inside(parent, to) \subseteq Inside(parent, parent[w])
      BY <3>2, InsideTransitive
    <3>. QED BY <1>1, <2>1, <3>1, <3>3, NoCycle
  <2>8. gone \cap Inside(parent, to) = {}
    BY <1>1, <2>6, Placed DEF TreeInv
  <2>9. MoveFocus(to, "none", more)
    BY <1>3, <1>4 DEF Unview, to
  <2>10. ServerMoved /\ xfocus' = to
    BY <2>6, <2>8, <2>9, FocusMoves
  <2>. QED BY <2>7, <2>10 DEF Away
<1>. QED BY <1>2, <1>3, <1>4

-----------------------------------------------------------------------------
(* Requests.                                                               *)

Requests(L) == [next : L \cup {None}, source : Other..Fallback]

LEMMA RequestElements ==
    ASSUME NEW L, NEW r \in Requests(L)
    PROVE  /\ r.next \in L \cup {None} /\ r.source \in Other..Fallback
           /\ \A x \in L \cup {None}, src \in Other..Fallback :
                 Request(x, src) \in Requests(L)
           /\ \A w : NoLongerNext(w, r) \in Requests(L \ {w})
<1>1. r.next \in L \cup {None} /\ r.source \in Other..Fallback
  BY DEF Requests
<1>2. ASSUME NEW w PROVE NoLongerNext(w, r) \in Requests(L \ {w})
  <2>1. NoLongerNext(w, r) = [next |-> IF r.next = w THEN None ELSE r.next,
                              source |-> r.source]
    BY DEF NoLongerNext, Requests
  <2>. QED BY <1>1, <2>1 DEF Requests
<1>. QED BY <1>1, <1>2 DEF Requests, Request

\* A request asks for a region of L when all that can be asked for is in L.
LEMMA HackElements ==
    ASSUME NEW L, NEW pend \in Requests(L), await \in L \cup {None},
           NEW hist \in Seq(L), NEW w, NEW shown
    PROVE  Hack(w, shown, hist, pend) \in Requests(L)
<1>. DEFINE act == IF await # None THEN await ELSE First(hist)
<1>1. First(hist) \in L \cup {None}
  BY DEF First
<1>2. act \in L \cup {None}
  BY <1>1
<1>3. PointerHack \in Other..Fallback
  BY DEF PointerHack, Other, Fallback
<1>4. Hack(w, shown, hist, pend) \in {pend, Request(act, PointerHack)}
  BY DEF Hack
<1>. HIDE DEF act
<1>. QED BY <1>2, <1>3, <1>4, RequestElements

LEMMA RemovalElements ==
    ASSUME NEW L, NEW pend \in Requests(L), NEW par, NEW f, NEW w,
           Children(f) \ {w} \subseteq L
    PROVE  AfterRemoval(par, f, w, pend) \subseteq Requests(L)
<1>1. Other \in Other..Fallback
  BY DEF Other, Fallback
<1>2. \A c \in Children(f) \ {w} : Request(c, Other) \in Requests(L)
  BY <1>1, RequestElements
<1>. QED BY <1>2 DEF AfterRemoval

LEMMA AttachElements ==
    ASSUME NEW L, NEW pend \in Requests(L), await \in L \cup {None},
           history \in Seq(L), NEW w \in L, NEW how, NEW par, NEW f
    PROVE  AfterAttach(how, par, w, f, pend) \in Requests(L)
<1>1. Other \in Other..Fallback
  BY DEF Other, Fallback
<1>. QED BY <1>1, RequestElements, HackElements DEF AfterAttach

\* Those of a state in which nothing refers to what has been freed.
LEMMA PendingElements ==
    ASSUME RefersToLive
    PROVE  /\ Pending \in Requests(live) /\ await \in live \cup {None}
           /\ history \in Seq(live)
<1>1. history \in Seq(live)
  <2>1. history \in Seq(Windows) /\ ToSet(history) \subseteq live
    BY DEF RefersToLive, TypeOK
  <2>2. \A i \in 1..Len(history) : history[i] \in live
    BY <2>1 DEF ToSet
  <2>. QED BY <2>1, <2>2
<1>. QED BY <1>1 DEF Pending, Request, Requests, RefersToLive, TypeOK

-----------------------------------------------------------------------------
(* The steps that leave the tree as it is.                                 *)

LEMMA StillServed ==
    ASSUME FocusInv, ServerMoved, UNCHANGED <<live, parent, gone, active, history>>
    PROVE  ServerInv' /\ BeliefInv'
<1>1. active \subseteq live
  BY DEF FocusInv, BeliefInv
<1>. QED BY <1>1 DEF ServerMoved, ServerInv, BeliefInv

LEMMA ActElements ==
    ASSUME TypeOK, Act
    PROVE  acts' \in 0..MaxActs
BY WindowsAssumption DEF TypeOK, Act

\* What is shown exists.
LEMMA ShownElements ==
    ASSUME FocusInv, NEW w \in live
    PROVE  Shown(w) \subseteq live /\ Root \in Shown(w)
<1>1. TypeOK /\ TreeInv
  BY DEF FocusInv, RefersToLive
<1>2. Above(w) \subseteq live
  BY <1>1, Placed
<1>. QED BY <1>1, <1>2 DEF Shown, TypeOK, TreeInv

LEMMA ClientFocusesKeeps ==
    ASSUME FocusInv, NEW w \in Windows, NEW revert \in {"parent", "none"},
           ClientFocuses(w, revert)
    PROVE  FocusInv'
<1>1. TypeOK /\ TreeInv /\ RefersToLive
  BY DEF FocusInv, RefersToLive
<1>2. w \in live \ gone /\ MoveFocus(w, revert, <<>>)
  BY DEF ClientFocuses, Viewable
<1>3. gone \cap Inside(parent, w) = {}
  BY <1>1, <1>2, Placed DEF TreeInv
<1>4. ServerMoved
  BY <1>2, <1>3, FocusMoves, AsidesAre
<1>5. /\ UNCHANGED <<live, parent, mapped, gone, dying, active, sub, history, next, source,
                     await, idle>>
      /\ acts' \in 0..MaxActs
  BY <1>1, ActElements DEF ClientFocuses, prog, tree
<1>6. ServerInv' /\ BeliefInv'
  BY <1>4, <1>5, StillServed
<1>7. RefersToLive'
  BY <1>1, <1>4, <1>5 DEF RefersToLive, TypeOK, ServerMoved, EventSet
<1>8. TreeInv' /\ DyingInv'
  BY <1>5 DEF FocusInv, TreeInv, DyingInv
<1>. QED BY <1>6, <1>7, <1>8 DEF FocusInv

LEMMA ClientDropsKeeps ==
    ASSUME FocusInv, ClientDrops
    PROVE  FocusInv'
<1>1. TypeOK /\ RefersToLive
  BY DEF FocusInv, RefersToLive
<1>2. MoveFocus(None, "none", <<>>)
  BY DEF ClientDrops
<1>3. ServerMoved
  BY <1>2, FocusMoves, AsidesAre
<1>4. /\ UNCHANGED <<live, parent, mapped, gone, dying, active, sub, history, next, source,
                     await, idle>>
      /\ acts' \in 0..MaxActs
  BY <1>1, ActElements DEF ClientDrops, prog, tree
<1>5. ServerInv' /\ BeliefInv'
  BY <1>3, <1>4, StillServed
<1>6. RefersToLive'
  BY <1>1, <1>3, <1>4 DEF RefersToLive, TypeOK, ServerMoved, EventSet
<1>7. TreeInv' /\ DyingInv'
  BY <1>4 DEF FocusInv, TreeInv, DyingInv
<1>. QED BY <1>5, <1>6, <1>7 DEF FocusInv

LEMMA ClientGoesKeeps ==
    ASSUME FocusInv, NEW w \in Windows, ClientGoes(w)
    PROVE  FocusInv'
<1>1. TypeOK /\ TreeInv /\ RefersToLive
  BY DEF FocusInv, RefersToLive
<1>2. w \in live \ {Root} /\ w \in Clients /\ Unview(w, <<Event("Gone", w)>>)
  BY <1>1, Placed DEF ClientGoes
<1>3. ServerMoved /\ Away(w)
  BY <1>2, FocusAway, AsidesAre
<1>4. /\ UNCHANGED <<live, parent, mapped, dying, active, sub, history, next, source,
                     await, idle>>
      /\ gone' = gone \cup {w}
      /\ acts' \in 0..MaxActs
  BY <1>1, ActElements DEF ClientGoes, prog
<1>5. ServerInv' /\ BeliefInv'
  <2>1. active \subseteq live
    BY DEF FocusInv, BeliefInv
  <2>2. xfocus' # None => gone' \cap Inside(parent, xfocus') = {}
    BY <1>3, <1>4 DEF ServerMoved, Away
  <2>. QED BY <1>3, <1>4, <2>1, <2>2 DEF ServerMoved, ServerInv, BeliefInv
<1>6. RefersToLive'
  BY <1>1, <1>2, <1>3, <1>4 DEF RefersToLive, TypeOK, ServerMoved, EventSet
<1>7. TreeInv' /\ DyingInv'
  BY <1>2, <1>4 DEF FocusInv, TreeInv, DyingInv
<1>. QED BY <1>5, <1>6, <1>7 DEF FocusInv

LEMMA PointerEntersKeeps ==
    ASSUME FocusInv, NEW w \in Windows, PointerEnters(w)
    PROVE  FocusInv'
<1>1. TypeOK /\ RefersToLive
  BY DEF FocusInv, RefersToLive
<1>2. queue' = queue \o <<Event("Enter", w)>> /\ UNCHANGED server
  BY <1>1 DEF PointerEnters, TypeOK
<1>3. ServerMoved
  BY <1>2, FocusStays, AsidesAre
<1>4. /\ UNCHANGED <<live, parent, mapped, gone, dying, active, sub, history, next, source,
                     await, idle>>
      /\ acts' \in 0..MaxActs
  BY <1>1, ActElements DEF PointerEnters, prog, tree
<1>5. ServerInv' /\ BeliefInv'
  BY <1>3, <1>4, StillServed
<1>6. RefersToLive'
  BY <1>1, <1>3, <1>4 DEF RefersToLive, TypeOK, ServerMoved, EventSet
<1>7. TreeInv' /\ DyingInv'
  BY <1>4 DEF FocusInv, TreeInv, DyingInv
<1>. QED BY <1>5, <1>6, <1>7 DEF FocusInv

LEMMA FindIdleKeeps ==
    ASSUME FocusInv, FindIdle
    PROVE  FocusInv'
<1>1. /\ UNCHANGED <<live, parent, mapped, gone, dying, active, sub, history, next, source,
                     await, xfocus, xrevert, queue, acts>>
      /\ idle' = TRUE /\ dying = <<>>
  BY DEF FindIdle, Running, prog, tree, server
<1>. QED BY <1>1 DEF FocusInv, RefersToLive, TypeOK, TreeInv, DyingInv, ServerInv,
                     BeliefInv

LEMMA FlushFocusKeeps ==
    ASSUME FocusInv, FlushFocus
    PROVE  FocusInv'
<1>1. TypeOK /\ TreeInv /\ RefersToLive /\ dying = <<>> /\ ToSet(dying) = {}
  BY DEF FocusInv, RefersToLive, DyingInv, FlushFocus, ToSet
<1>2. PICK w \in Targets(next) : FinaliseFocusing(w)
  BY DEF FlushFocus
<1>3. w \in live
  BY <1>2 DEF Targets
<1>4. ServerMoved
  <2>1. CASE UNCHANGED <<server, queue>>
    <3>1. queue' = queue \o <<>> /\ UNCHANGED server
      BY <1>1, <2>1 DEF TypeOK
    <3>. QED BY <3>1, FocusStays, AsidesAre
  <2>2. CASE Viewable(w) /\ MoveFocus(w, "parent", <<>>)
    <3>1. gone \cap Inside(parent, w) = {}
      BY <1>1, <1>3, <2>2, Placed DEF TreeInv, Viewable
    <3>. QED BY <1>3, <2>2, <3>1, FocusMoves, AsidesAre
  <2>. QED BY <1>2, <2>1, <2>2 DEF FinaliseFocusing, SetInputFocus
<1>5. /\ UNCHANGED <<live, parent, mapped, gone, dying, active, sub, history, source, acts>>
      /\ idle' = FALSE /\ next' = None
  BY DEF FlushFocus, tree
<1>6. await' \in live \cup {None}
  BY <1>1, <1>2, <1>3 DEF FinaliseFocusing, RefersToLive
<1>7. ServerInv' /\ BeliefInv'
  BY <1>4, <1>5, StillServed
<1>8. RefersToLive'
  BY <1>1, <1>4, <1>5, <1>6 DEF RefersToLive, TypeOK, ServerMoved, EventSet
<1>9. TreeInv' /\ DyingInv'
  BY <1>5 DEF FocusInv, TreeInv, DyingInv
<1>. QED BY <1>7, <1>8, <1>9 DEF FocusInv

LEMMA SetFocusKeeps ==
    ASSUME FocusInv, NEW w \in Windows, SetFocus(w) \/ Goto(w)
    PROVE  FocusInv'
<1>1. TypeOK /\ RefersToLive /\ w \in live
  BY DEF FocusInv, RefersToLive, SetFocus, Goto
<1>2. /\ UNCHANGED <<live, parent, gone, dying, active, sub, history, await, idle,
                     xfocus, xrevert, queue>>
      /\ next' = w /\ source' = Other /\ acts' \in 0..MaxActs
      /\ mapped' \in {mapped, Shown(w)}
  BY <1>1, ActElements DEF SetFocus, Goto, tree, server
<1>3. mapped' \subseteq live /\ Root \in mapped'
  BY <1>1, <1>2, ShownElements DEF TypeOK, FocusInv, TreeInv
<1>4. RefersToLive'
  <2>1. source' \in Other..Fallback
    BY <1>2 DEF Other, Fallback
  <2>. QED BY <1>1, <1>2, <1>3, <2>1 DEF RefersToLive, TypeOK
<1>5. TreeInv' /\ DyingInv' /\ ServerInv' /\ BeliefInv'
  BY <1>2, <1>3 DEF FocusInv, TreeInv, DyingInv, ServerInv, BeliefInv
<1>. QED BY <1>4, <1>5 DEF FocusInv

LEMMA MapKeeps ==
    ASSUME FocusInv, NEW w \in Windows, Map(w)
    PROVE  FocusInv'
<1>1. TypeOK /\ RefersToLive
  BY DEF FocusInv, RefersToLive
<1>2. /\ UNCHANGED <<live, parent, gone, dying, active, sub, history, next, source, await,
                     idle, xfocus, xrevert, queue>>
      /\ mapped' = mapped \cup {w} /\ w \in live /\ acts' \in 0..MaxActs
  BY <1>1, ActElements DEF Map, prog, server
<1>3. RefersToLive'
  BY <1>1, <1>2 DEF RefersToLive, TypeOK
<1>4. TreeInv' /\ DyingInv' /\ ServerInv' /\ BeliefInv'
  BY <1>2 DEF FocusInv, TreeInv, DyingInv, ServerInv, BeliefInv
<1>. QED BY <1>3, <1>4 DEF FocusInv

\* A window that is hidden takes the focus out of it; a switch hides the
\* other one.
LEMMA HidingKeeps ==
    ASSUME FocusInv, NEW w \in Windows, NEW u \in Windows, Unmap(u) \/ Switch(w, u)
    PROVE  FocusInv'
<1>1. TypeOK /\ TreeInv /\ RefersToLive
  BY DEF FocusInv, RefersToLive
<1>2. u \in live \ {Root}
  <2>1. CASE Unmap(u)
    BY <1>1, <2>1 DEF Unmap, TypeOK
  <2>2. CASE Switch(w, u)
    <3>1. w \in live \ {Root} /\ u \in live /\ parent[u] = parent[w]
      BY <1>1, <2>2 DEF Switch, TypeOK, TreeInv
    <3>2. parent[w] # None /\ parent[Root] = None
      BY <1>1, <3>1, Placed DEF TreeInv
    <3>. QED BY <3>1, <3>2
  <2>. QED BY <2>1, <2>2
<1>3. ServerMoved
  <2>1. Unview(u, <<>>)
    BY DEF Unmap, Switch
  <2>. QED BY <1>2, <2>1, FocusAway, AsidesAre
<1>4. /\ UNCHANGED <<live, parent, gone, dying, active, sub, history, await, idle>>
      /\ acts' \in 0..MaxActs
      /\ mapped' \subseteq live /\ Root \in mapped'
  BY <1>1, <1>2, ActElements DEF Unmap, Switch, TypeOK, TreeInv
<1>5. next' \in live \cup {None} /\ source' \in Other..Fallback
  <2>1. Other \in Other..Fallback
    BY DEF Other, Fallback
  <2>2. PICK r \in Requests(live) : FocusNextIs(r)
    <3>1. /\ Hack(u, FullyMapped(u), history, Pending) \in Requests(live)
          /\ w \in live => Request(w, Other) \in Requests(live)
      BY <1>1, <2>1, PendingElements, HackElements, RequestElements
    <3>. QED BY <3>1 DEF Unmap, Switch
  <2>. QED BY <2>2, RequestElements DEF FocusNextIs
<1>6. ServerInv' /\ BeliefInv'
  BY <1>3, <1>4, StillServed
<1>7. RefersToLive'
  BY <1>1, <1>3, <1>4, <1>5 DEF RefersToLive, TypeOK, ServerMoved, EventSet
<1>8. TreeInv' /\ DyingInv'
  BY <1>4 DEF FocusInv, TreeInv, DyingInv
<1>. QED BY <1>6, <1>7, <1>8 DEF FocusInv

-----------------------------------------------------------------------------
(* Destroying.                                                             *)

\* The wait moves to a region that is not being destroyed: the root window is
\* one.
LEMMA EnterDestroyKeeps ==
    ASSUME FocusInv, NEW w \in live \ {Root}, EnterDestroy(w),
           dying # <<>> => parent[w] = Head(dying), dying # <<>> \/ ~idle,
           UNCHANGED <<live, parent, idle>>
    PROVE  /\ DyingInv' /\ dying' \in Seq(Windows)
           /\ await' \in live \cup {None} /\ await' \notin ToSet(dying')
<1>1. TypeOK /\ TreeInv /\ Tree(parent)
  BY DEF FocusInv, RefersToLive, TreeInv
<1>2. /\ w \in Windows /\ Root \in Inside(parent, w) /\ w \in Inside(parent, w)
      /\ Inside(parent, w) \subseteq live /\ parent \in Parents
  BY <1>1, Placed
<1>3. /\ dying \in Seq(Windows) /\ ToSet(dying) \subseteq live \ {Root}
      /\ IsInjective(dying) /\ Len(dying) \in Nat
  BY <1>1 DEF TypeOK, FocusInv, DyingInv
<1>4. ToSet(dying) \subseteq Inside(parent, w) \ {w}
  <2>. SUFFICES ASSUME NEW x \in ToSet(dying) PROVE x \in Inside(parent, w) \ {w}
    OBVIOUS
  <2>1. dying # <<>>
    BY DEF ToSet
  <2>. DEFINE p == parent[w]
  <2>2. p = dying[1] /\ 1 \in 1..Len(dying)
    BY <1>3, <2>1
  <2>3. PICK j \in 1..Len(dying) : dying[j] = x
    BY <1>3 DEF ToSet
  <2>4. 1 <= j
    BY <2>3
  <2>5. x \in Inside(parent, p)
    BY <2>2, <2>3, <2>4 DEF FocusInv, DyingInv
  <2>6. p \in Windows /\ p # None
    BY <1>1, <1>3, <2>2, Placed
  <2>7. Inside(parent, w) = {w} \cup Inside(parent, p) /\ w \notin Inside(parent, p)
    BY <1>1, <1>2, <2>6, InsideIs, NoCycle
  <2>. QED BY <2>5, <2>7
<1>5. /\ dying' = <<w>> \o dying /\ dying' \in Seq(Windows)
      /\ Len(dying') = Len(dying) + 1 /\ dying'[1] = w
      /\ \A i \in 1..Len(dying) : dying'[i + 1] = dying[i]
      /\ ToSet(dying') = {w} \cup ToSet(dying) /\ IsInjective(dying')
  BY <1>2, <1>3, <1>4, PrependElements DEF EnterDestroy
<1>6. \A i \in 1..Len(dying') : i = 1 \/ \E k \in 1..Len(dying) : i = k + 1
  <2>. SUFFICES ASSUME NEW i \in 1..Len(dying'), i # 1
                PROVE  i - 1 \in 1..Len(dying) /\ i = (i - 1) + 1
    OBVIOUS
  <2>. QED BY <1>3, <1>5
<1>7. \A i \in 1..Len(dying) : dying[i] \in ToSet(dying)
  BY <1>3 DEF ToSet
<1>8. ASSUME NEW i \in 1..Len(dying'), NEW j \in 1..Len(dying'), i <= j
       PROVE  dying'[j] \in Inside(parent, dying'[i])
  <2>1. CASE i = 1
    <3>1. dying'[j] \in {w} \cup ToSet(dying)
      BY <1>5, <1>6, <1>7
    <3>. QED BY <1>2, <1>4, <1>5, <2>1, <3>1
  <2>2. CASE i # 1
    <3>1. PICK k \in 1..Len(dying) : i = k + 1
      BY <1>6, <2>2
    <3>2. PICK l \in 1..Len(dying) : j = l + 1
      BY <1>6, <1>8, <2>2
    <3>3. k <= l
      BY <1>8, <3>1, <3>2
    <3>4. dying[l] \in Inside(parent, dying[k])
      BY <3>3 DEF FocusInv, DyingInv
    <3>. QED BY <1>5, <3>1, <3>2, <3>4
  <2>. QED BY <2>1, <2>2
<1>9. ~idle'
  BY DEF FocusInv, DyingInv
<1>10. DyingInv'
  BY <1>3, <1>5, <1>8, <1>9 DEF DyingInv
<1>11. await' \in live \cup {None} /\ await' \notin ToSet(dying')
  <2>1. CASE await # w
    BY <1>5, <2>1 DEF EnterDestroy, FocusInv, RefersToLive
  <2>2. CASE await = w
    <3>. DEFINE t == Tail(Chain(w))
                o == Dropping(t, ToSet(dying))
    <3>1. t \in Seq(Windows) /\ ToSet(t) = Inside(parent, w) \ {w}
      BY <1>1, <1>2, OutsideElements DEF Chain
    <3>. HIDE DEF t
    <3>2. o \in Seq(Windows) /\ ToSet(o) = ToSet(t) \ ToSet(dying)
      BY <3>1, DroppingElements
    <3>3. Root \in ToSet(o)
      BY <1>2, <1>3, <3>1, <3>2
    <3>4. await' = Head(o)
      BY <2>2 DEF EnterDestroy, LiveAbove, t
    <3>. HIDE DEF o
    <3>5. o # <<>>
      BY <3>3 DEF ToSet
    <3>6. 1 \in DOMAIN o /\ Head(o) = o[1]
      BY <3>2, <3>5
    <3>7. Head(o) \in ToSet(o)
      BY <3>6 DEF ToSet
    <3>. QED BY <1>2, <1>5, <3>1, <3>2, <3>4, <3>7
  <2>. QED BY <2>1, <2>2
<1>. QED BY <1>5, <1>10, <1>11

LEMMA DestroyKeeps ==
    ASSUME FocusInv, NEW w \in Windows, Destroy(w) \/ DestroyChild(w)
    PROVE  FocusInv'
<1>1. TypeOK /\ TreeInv /\ RefersToLive
  BY DEF FocusInv, RefersToLive
<1>2. /\ w \in live \ {Root} /\ EnterDestroy(w)
      /\ dying # <<>> => parent[w] = Head(dying)
      /\ dying # <<>> \/ ~idle
  <2>1. CASE Destroy(w)
    BY <2>1 DEF Destroy, Running
  <2>2. CASE DestroyChild(w)
    <3>1. w \in live /\ parent[w] = Head(dying) /\ dying # <<>> /\ EnterDestroy(w)
      BY <2>2 DEF DestroyChild, Children
    <3>2. Head(dying) \in Windows
      BY <1>1, <3>1 DEF TypeOK
    <3>3. w # Root
      BY <1>1, <3>1, <3>2, Placed DEF TreeInv
    <3>. QED BY <3>1, <3>3
  <2>. QED BY <2>1, <2>2
<1>3. /\ UNCHANGED <<live, parent, mapped, gone, active, sub, history, next, source, idle,
                     xfocus, xrevert, queue>>
      /\ acts' \in 0..MaxActs
  BY <1>1, ActElements DEF Destroy, DestroyChild, server, TypeOK
<1>4. /\ DyingInv' /\ dying' \in Seq(Windows)
      /\ await' \in live \cup {None} /\ await' \notin ToSet(dying')
  BY <1>2, <1>3, EnterDestroyKeeps
<1>5. RefersToLive'
  BY <1>1, <1>3, <1>4 DEF RefersToLive, TypeOK
<1>6. TreeInv' /\ ServerInv' /\ BeliefInv'
  BY <1>3 DEF FocusInv, TreeInv, ServerInv, BeliefInv
<1>. QED BY <1>4, <1>5, <1>6 DEF FocusInv

LEMMA UnlinkHead ==
    ASSUME NEW T, NEW s \in Seq(T), IsInjective(s), NEW c \in ToSet(s), c # Head(s)
    PROVE  Unlink(s, c) # <<>> /\ Head(Unlink(s, c)) = Head(s)
<1>. DEFINE at == CHOOSE i \in DOMAIN s : s[i] = c
<1>1. at \in 1..Len(s) /\ s[at] = c
  BY DEF ToSet
<1>. HIDE DEF at
<1>2. Len(s) \in Nat /\ Head(s) = s[1] /\ at # 1
  BY <1>1
<1>. DEFINE t == RemoveAt(s, at)
<1>3. /\ t \in Seq(T) /\ Len(t) = Len(s) - 1
      /\ \A i \in 1..Len(s) - 1 : t[i] = IF i < at THEN s[i] ELSE s[i + 1]
  BY <1>1, RemoveAtElements
<1>. HIDE DEF t
<1>4. 1 \in 1..Len(s) - 1 /\ 1 < at
  BY <1>1, <1>2
<1>5. t # <<>> /\ t[1] = s[1]
  BY <1>3, <1>4
<1>6. Unlink(s, c) = t
  BY DEF Unlink, t, at
<1>. QED BY <1>2, <1>3, <1>5, <1>6

LEMMA ForgottenElements ==
    ASSUME RefersToLive, NEW w
    PROVE  /\ Forgotten(w) \in Seq(Windows) /\ Forgotten(w) \in Seq(live \ {w})
           /\ ToSet(Forgotten(w)) \subseteq live \ {w} /\ IsInjective(Forgotten(w))
           /\ history # <<>> /\ Head(history) # w
                 => Forgotten(w) # <<>> /\ Head(Forgotten(w)) = Head(history)
<1>1. /\ history \in Seq(Windows) /\ ToSet(history) \subseteq live
      /\ IsInjective(history)
  BY DEF RefersToLive, TypeOK
<1>2. /\ Forgotten(w) \in Seq(Windows) /\ IsInjective(Forgotten(w))
      /\ ToSet(Forgotten(w)) \subseteq live \ {w}
  BY <1>1, UnlinkElements DEF Forgotten
<1>3. history # <<>> /\ Head(history) # w
         => Forgotten(w) # <<>> /\ Head(Forgotten(w)) = Head(history)
  BY <1>1, UnlinkHead DEF Forgotten
<1>. DEFINE r == Forgotten(w)
<1>4. \A i \in 1..Len(r) : r[i] \in ToSet(r)
  BY <1>2 DEF ToSet
<1>. HIDE DEF r
<1>5. r \in Seq(live \ {w})
  BY <1>2, <1>4 DEF r
<1>. QED BY <1>2, <1>3, <1>5 DEF r

\* A region that has no children left goes.
LEMMA FinishDestroyKeeps ==
    ASSUME FocusInv, FinishDestroy
    PROVE  FocusInv'
<1>. DEFINE w == Head(dying)
<1>1. /\ TypeOK /\ TreeInv /\ RefersToLive /\ Tree(parent)
      /\ dying \in Seq(Windows) /\ dying # <<>> /\ Children(w) = {}
      /\ IsInjective(dying)
  BY DEF FocusInv, RefersToLive, TypeOK, TreeInv, DyingInv, FinishDestroy
<1>2. /\ w \in ToSet(dying) /\ Tail(dying) \in Seq(Windows)
      /\ ToSet(Tail(dying)) = ToSet(dying) \ {w} /\ IsInjective(Tail(dying))
  BY <1>1, TailElements
<1>3. w \in live \ {Root} /\ w \in Windows
  BY <1>1, <1>2 DEF FocusInv, DyingInv, TypeOK
<1>4. /\ UNCHANGED <<idle, acts, await>> /\ dying' = Tail(dying)
      /\ live' = live \ {w} /\ parent' = [parent EXCEPT ![w] = None]
      /\ mapped' = mapped \ {w} /\ gone' = gone \ {w} /\ active' = active \ {w}
      /\ sub' = [NoSub(w) EXCEPT ![w] = None] /\ history' = Forgotten(w)
  BY DEF FinishDestroy, Deinit
<1>5. IF w \in gone THEN UNCHANGED <<server, queue>> ELSE Unview(w, <<>>)
  BY DEF FinishDestroy
<1>6. IF w \in Clients THEN DeinitClient(w) ELSE DeinitWindow(w)
  BY DEF FinishDestroy
<1>. HIDE DEF w
<1>7. ServerMoved /\ Away(w)
  <2>1. CASE w \in gone
    <3>1. queue' = queue \o <<>> /\ UNCHANGED server
      BY <1>1, <1>5, <2>1 DEF TypeOK
    <3>2. ServerMoved
      BY <3>1, FocusStays, AsidesAre
    <3>. QED BY <2>1, <3>2 DEF ServerMoved, Away
  <2>2. CASE w \notin gone
    BY <1>3, <1>5, <2>2, FocusAway, AsidesAre
  <2>. QED BY <2>1, <2>2
<1>8. /\ Tree(parent') /\ parent'[w] = None
      /\ \A x \in Windows \ {w} : parent'[x] = parent[x]
      /\ \A x \in Windows : w \notin Inside(parent, x)
                             => Inside(parent', x) = Inside(parent, x)
  <2>1. /\ parent' \in Parents /\ parent'[w] = None
        /\ \A x \in Windows \ {w} : parent'[x] = parent[x]
    BY <1>1, <1>3, <1>4 DEF Tree, Parents
  <2>. QED BY <1>1, <1>3, <2>1, Graft
<1>9. \A x \in live \ {w} : parent[x] # w /\ Inside(parent', x) = Inside(parent, x)
  BY <1>1, <1>3, <1>8, Leaf, Placed DEF Children
<1>10. next' \in live' \cup {None} /\ source' \in Other..Fallback
  <2>. DEFINE L == live \ {w}
  <2>1. PICK r \in Requests(L) : FocusNextIs(r)
    <3>1. /\ Pending \in Requests(live) /\ await \in live \cup {None}
          /\ history \in Seq(live) /\ Forgotten(w) \in Seq(L)
      BY <1>1, PendingElements, ForgottenElements
    <3>2. await \in L \cup {None}
      BY <1>1, <1>2, <3>1 DEF RefersToLive
    <3>3. Children(parent[w]) \ {w} \subseteq L
      BY DEF Children
    <3>4. ASSUME NEW pend \in Requests(live) PROVE AfterDeinit(w, pend) \subseteq Requests(L)
      <4>1. NoLongerNext(w, pend) \in Requests(L)
        BY RequestElements
      <4>2. AfterRemoval(parent, parent[w], w, NoLongerNext(w, pend)) \subseteq Requests(L)
        BY <3>3, <4>1, RemovalElements
      <4>3. \A p \in Requests(L) : NoLongerNext(w, p) \in Requests(L \ {w})
        BY RequestElements
      <4>4. L \ {w} = L
        OBVIOUS
      <4>. QED BY <4>2, <4>3, <4>4 DEF AfterDeinit
    <3>5. CASE DeinitClient(w)
      <4>1. Hack(w, FullyMapped(w), history, Pending) \in Requests(live)
        BY <3>1, HackElements
      <4>. QED BY <3>1, <3>4, <3>5, <4>1 DEF DeinitClient
    <3>6. CASE DeinitWindow(w)
      <4>1. PICK pend \in AfterDeinit(w, Pending) :
               FocusNextIs(Hack(w, w \in mapped, Forgotten(w), pend))
        BY <3>6 DEF DeinitWindow
      <4>2. pend \in Requests(L)
        BY <3>1, <3>4, <4>1
      <4>3. Hack(w, w \in mapped, Forgotten(w), pend) \in Requests(L)
        BY <3>1, <3>2, <4>2, HackElements
      <4>. QED BY <4>1, <4>3
    <3>. QED BY <1>6, <3>5, <3>6
  <2>. QED BY <1>4, <2>1, RequestElements DEF FocusNextIs
<1>11. RefersToLive'
  <2>1. /\ history' \in Seq(Windows) /\ ToSet(history') \subseteq live'
        /\ IsInjective(history')
    BY <1>1, <1>4, ForgottenElements
  <2>2. await' \in live' \cup {None} /\ await' \notin ToSet(dying')
    BY <1>1, <1>2, <1>4 DEF RefersToLive
  <2>3. /\ sub' \in [Windows -> Windows \cup {None}]
        /\ \A p \in Windows : sub'[p] # None =>
              sub'[p] \in live' \cap active' /\ parent'[sub'[p]] = p
    <3>1. sub' \in [Windows -> Windows \cup {None}]
      BY <1>1, <1>4 DEF TypeOK, NoSub
    <3>2. ASSUME NEW p \in Windows, sub'[p] # None
          PROVE  sub'[p] \in live' \cap active' /\ parent'[sub'[p]] = p
      <4>1. p # w /\ sub'[p] = sub[p] /\ ~(p = parent[w] /\ sub[p] = w)
        BY <1>1, <1>3, <1>4, <3>2 DEF TypeOK, NoSub
      <4>2. sub[p] \in live \cap active /\ parent[sub[p]] = p /\ sub[p] \in Windows
        BY <1>1, <3>2, <4>1 DEF RefersToLive, TypeOK
      <4>3. sub[p] # w
        BY <4>1, <4>2
      <4>. QED BY <1>4, <1>8, <4>1, <4>2, <4>3
    <3>. QED BY <3>1, <3>2
  <2>4. parent' \in [Windows -> Frames \cup {None}]
    BY <1>1, <1>4 DEF TypeOK
  <2>5. /\ live' \subseteq Windows /\ mapped' \subseteq live' /\ gone' \subseteq live'
        /\ active' \subseteq Windows
    BY <1>1, <1>4 DEF TypeOK
  <2>6. xfocus' \in Windows \cup {None} /\ queue' \in Seq(EventSet)
        /\ xrevert' \in {"parent", "none"}
    BY <1>1, <1>7 DEF ServerMoved, TypeOK
  <2>7. TypeOK'
    BY <1>1, <1>2, <1>4, <1>10, <2>1, <2>2, <2>3, <2>4, <2>5, <2>6 DEF TypeOK, EventSet
  <2>. QED BY <1>10, <2>1, <2>2, <2>3, <2>7 DEF RefersToLive
<1>12. TreeInv'
  <2>1. parent'[Root] = None /\ Root \in live' \cap mapped' /\ gone' \subseteq Clients
    BY <1>1, <1>3, <1>4, <1>8, Placed DEF TreeInv
  <2>2. \A x \in live' \ {Root} : parent'[x] \in live'
    <3>. SUFFICES ASSUME NEW x \in live' \ {Root} PROVE parent'[x] \in live'
      OBVIOUS
    <3>1. x \in live \ {w} /\ x \in Windows /\ parent[x] \in live
      BY <1>1, <1>4, Placed
    <3>. QED BY <1>4, <1>8, <1>9, <3>1
  <2>3. \A x \in Windows \ live' : parent'[x] = None
    BY <1>1, <1>4, <1>8 DEF TreeInv
  <2>. QED BY <1>8, <2>1, <2>2, <2>3 DEF TreeInv
<1>13. DyingInv'
  <2>1. ToSet(dying') \subseteq live' \ {Root} /\ IsInjective(dying')
    BY <1>2, <1>4 DEF FocusInv, DyingInv
  <2>2. idle' => dying' = <<>>
    BY <1>1, <1>4 DEF FocusInv, DyingInv
  <2>3. ASSUME NEW i \in 1..Len(dying'), NEW j \in 1..Len(dying'), i <= j
        PROVE  dying'[j] \in Inside(parent', dying'[i])
    <3>1. /\ i + 1 \in 1..Len(dying) /\ j + 1 \in 1..Len(dying) /\ i + 1 <= j + 1
          /\ dying'[i] = dying[i + 1] /\ dying'[j] = dying[j + 1]
          /\ i \in DOMAIN dying'
      BY <1>1, <1>2, <1>4, <2>3
    <3>2. dying'[j] \in Inside(parent, dying'[i])
      BY <3>1 DEF FocusInv, DyingInv
    <3>3. dying'[i] \in live \ {w}
      BY <1>4, <2>1, <3>1 DEF ToSet
    <3>. QED BY <1>9, <3>2, <3>3
  <2>. QED BY <2>1, <2>2, <2>3 DEF DyingInv
<1>14. /\ xfocus' \in live' \cup {None}
       /\ xfocus' # None => /\ Inside(parent', xfocus') = Inside(parent, xfocus')
                            /\ xfocus' # w
       /\ Hold(parent', xfocus') = Hold(parent, xfocus')
  <2>1. CASE xfocus' = None
    BY <2>1 DEF Hold
  <2>2. CASE xfocus' # None
    <3>1. xfocus' \in live /\ w \notin Inside(parent, xfocus')
      BY <1>7, <2>2 DEF ServerMoved, Away
    <3>2. xfocus' # w
      BY <1>1, <3>1, Placed
    <3>. QED BY <1>4, <1>9, <3>1, <3>2 DEF Hold
  <2>. QED BY <2>1, <2>2
<1>15. ServerInv'
  BY <1>4, <1>7, <1>14 DEF ServerMoved, ServerInv
<1>16. BeliefInv'
  <2>1. active' \subseteq live'
    BY <1>4 DEF FocusInv, BeliefInv
  <2>2. ASSUME NEW x \in live' PROVE Believed(queue', active', Hold(parent', xfocus'), x)
    <3>1. x \in live /\ (x \in active' <=> x \in active)
      BY <1>4
    <3>2. Believed(queue', active, Hold(parent, xfocus'), x)
      BY <1>7, <3>1 DEF ServerMoved
    <3>. QED BY <1>14, <3>1, <3>2 DEF Believed
  <2>3. Latest(queue', history', xfocus')
    <3>1. Latest(queue', history, xfocus')
      BY <1>7 DEF ServerMoved
    <3>. QED BY <1>1, <1>4, <1>14, <3>1, ForgottenElements DEF Latest
  <2>. QED BY <2>1, <2>2, <2>3 DEF BeliefInv
<1>. QED BY <1>11, <1>12, <1>13, <1>15, <1>16 DEF FocusInv

-----------------------------------------------------------------------------
(* Windows come and move.                                                  *)

LEMMA CreateKeeps ==
    ASSUME FocusInv, NEW w \in Windows, NEW f \in Windows, NEW how \in Hows,
           Create(w, f, how)
    PROVE  FocusInv'
<1>1. /\ TypeOK /\ TreeInv /\ RefersToLive /\ Tree(parent) /\ parent \in Parents
      /\ xfocus \in live \cup {None} /\ dying = <<>> /\ ToSet(dying) = {}
  BY DEF FocusInv, RefersToLive, TreeInv, Tree, ServerInv, Create, Running, ToSet
<1>2. /\ w \notin live /\ f \in live /\ f \in Frames /\ f # w
      /\ \A i \in DOMAIN queue : queue[i].win # w
      /\ live' = live \cup {w} /\ parent' = [parent EXCEPT ![w] = f]
      /\ mapped' = Showing(w, how)
      /\ FocusNextIs(AfterAttach(how, parent', w, f, Pending))
      /\ UNCHANGED <<active, sub, history, await, gone, dying, idle, xfocus, xrevert, queue>>
      /\ acts' \in 0..MaxActs
  BY <1>1, ActElements DEF Create, server
<1>3. w # Root
  BY <1>1, <1>2 DEF TreeInv
<1>4. \A x \in live : /\ x \in Windows /\ x # w /\ w \notin Inside(parent, x)
                     /\ Inside(parent, x) \subseteq live
  BY <1>1, <1>2, Placed
<1>5. /\ Tree(parent') /\ parent'[w] = f
      /\ \A x \in Windows \ {w} : parent'[x] = parent[x]
      /\ \A x \in live : Inside(parent', x) = Inside(parent, x)
  <2>1. /\ parent' \in Parents /\ parent'[w] = f /\ w \notin Inside(parent, f)
        /\ \A x \in Windows \ {w} : parent'[x] = parent[x]
    BY <1>1, <1>2, <1>4 DEF Parents
  <2>. QED BY <1>1, <1>4, <2>1, Graft
<1>6. Hold(parent', xfocus) = Hold(parent, xfocus) /\ w \notin Hold(parent, xfocus)
  <2>1. CASE xfocus = None
    BY <1>3, <2>1 DEF Hold
  <2>2. CASE xfocus # None
    <3>1. xfocus \in live
      BY <1>1, <2>2
    <3>. QED BY <1>4, <1>5, <2>2, <3>1 DEF Hold
  <2>. QED BY <2>1, <2>2
<1>7. next' \in live' \cup {None} /\ source' \in Other..Fallback
  <2>1. /\ Pending \in Requests(live) /\ await \in live \cup {None}
        /\ history \in Seq(live)
    BY <1>1, PendingElements
  <2>2. Pending \in Requests(live') /\ history \in Seq(live') /\ await \in live' \cup {None}
    BY <1>2, <2>1 DEF Requests
  <2>3. AfterAttach(how, parent', w, f, Pending) \in Requests(live')
    BY <1>2, <2>2, AttachElements
  <2>. QED BY <1>2, <2>3, RequestElements DEF FocusNextIs
<1>8. RefersToLive'
  <2>1. TypeOK'
    <3>1. live' \subseteq Windows /\ mapped' \subseteq live' /\ gone' \subseteq live'
      BY <1>1, <1>2 DEF TypeOK, Showing
    <3>2. parent' \in [Windows -> Frames \cup {None}]
      BY <1>1, <1>2 DEF TypeOK
    <3>. QED BY <1>1, <1>2, <1>7, <3>1, <3>2 DEF TypeOK
  <2>2. \A p \in Windows : sub'[p] # None =>
           sub'[p] \in live' \cap active' /\ parent'[sub'[p]] = p
    BY <1>1, <1>2, <1>4, <1>5 DEF RefersToLive
  <2>. QED BY <1>1, <1>2, <1>7, <2>1, <2>2 DEF RefersToLive
<1>9. TreeInv'
  <2>1. parent'[Root] = None /\ Root \in live' \cap mapped' /\ gone' \subseteq Clients
    BY <1>1, <1>2, <1>3, <1>5, Placed DEF TreeInv, Showing
  <2>2. \A x \in live' \ {Root} : parent'[x] \in live'
    BY <1>1, <1>2, <1>4, <1>5 DEF TreeInv
  <2>3. \A x \in Windows \ live' : parent'[x] = None
    BY <1>1, <1>2, <1>5 DEF TreeInv
  <2>. QED BY <1>5, <2>1, <2>2, <2>3 DEF TreeInv
<1>10. DyingInv'
  BY <1>1, <1>2 DEF DyingInv, ToSet, IsInjective
<1>11. ServerInv'
  <2>1. xfocus # None => Inside(parent', xfocus) = Inside(parent, xfocus)
    BY <1>1, <1>5
  <2>. QED BY <1>2, <2>1 DEF FocusInv, ServerInv
<1>12. BeliefInv'
  <2>1. active' \subseteq live' /\ w \notin active
    BY <1>2 DEF FocusInv, BeliefInv
  <2>2. Silent(queue, w)
    BY <1>2 DEF Silent
  <2>3. Believed(queue, active, Hold(parent, xfocus), w)
    BY <1>6, <2>1, <2>2 DEF Believed
  <2>4. \A x \in live : Believed(queue, active, Hold(parent, xfocus), x)
    BY DEF FocusInv, BeliefInv
  <2>5. Latest(queue, history, xfocus)
    BY DEF FocusInv, BeliefInv
  <2>. QED BY <1>2, <1>6, <2>1, <2>3, <2>4, <2>5 DEF BeliefInv
<1>. QED BY <1>8, <1>9, <1>10, <1>11, <1>12 DEF FocusInv

\* A window moves without the focus: what is in it loses it first.
LEMMA ReparentKeeps ==
    ASSUME FocusInv, NEW w \in Windows, NEW f \in Windows, NEW how \in Hows,
           Reparent(w, f, how)
    PROVE  FocusInv'
<1>1. /\ TypeOK /\ TreeInv /\ RefersToLive /\ Tree(parent) /\ parent \in Parents
      /\ dying = <<>> /\ ToSet(dying) = {}
  BY DEF FocusInv, RefersToLive, TreeInv, Tree, Reparent, Running, ToSet
<1>2. /\ w \in live \ {Root} /\ f \in live /\ f \in Frames /\ w \notin Above(f)
      /\ parent' = [parent EXCEPT ![w] = f] /\ mapped' = Showing(w, how)
      /\ sub' = NoSub(w) /\ Unview(w, <<>>)
      /\ UNCHANGED <<live, active, history, await, gone, dying, idle>>
      /\ acts' \in 0..MaxActs
  BY <1>1, ActElements DEF Reparent, Below, UnsetParent
<1>3. \E pend \in AfterRemoval(parent', parent[w], w, Pending) :
         FocusNextIs(AfterAttach(how, parent', w, f, pend))
  BY DEF Reparent
<1>4. w \notin Inside(parent, f)
  BY <1>1, <1>2, Placed
<1>5. /\ Tree(parent') /\ parent'[w] = f
      /\ \A x \in Windows \ {w} : parent'[x] = parent[x]
      /\ \A x \in Windows : w \notin Inside(parent, x)
                             => Inside(parent', x) = Inside(parent, x)
  <2>1. /\ parent' \in Parents /\ parent'[w] = f
        /\ \A x \in Windows \ {w} : parent'[x] = parent[x]
    BY <1>1, <1>2 DEF Parents
  <2>. QED BY <1>1, <1>4, <2>1, Graft
<1>6. ServerMoved /\ Away(w)
  BY <1>2, FocusAway, AsidesAre
<1>7. /\ xfocus' # None => Inside(parent', xfocus') = Inside(parent, xfocus')
      /\ Hold(parent', xfocus') = Hold(parent, xfocus')
  BY <1>1, <1>5, <1>6 DEF ServerMoved, Away, Hold, TypeOK
<1>8. next' \in live \cup {None} /\ source' \in Other..Fallback
  <2>1. /\ Pending \in Requests(live) /\ await \in live \cup {None}
        /\ history \in Seq(live)
    BY <1>1, PendingElements
  <2>2. PICK pend \in AfterRemoval(parent', parent[w], w, Pending) :
           FocusNextIs(AfterAttach(how, parent', w, f, pend))
    BY <1>3
  <2>3. Children(parent[w]) \ {w} \subseteq live
    BY DEF Children
  <2>4. pend \in Requests(live)
    BY <2>1, <2>2, <2>3, RemovalElements
  <2>5. AfterAttach(how, parent', w, f, pend) \in Requests(live)
    BY <1>2, <2>1, <2>4, AttachElements
  <2>. QED BY <2>2, <2>5, RequestElements DEF FocusNextIs
<1>9. RefersToLive'
  <2>1. sub' \in [Windows -> Windows \cup {None}]
    BY <1>1, <1>2 DEF TypeOK, NoSub
  <2>2. ASSUME NEW p \in Windows, sub'[p] # None
        PROVE  sub'[p] \in live' \cap active' /\ parent'[sub'[p]] = p
    <3>1. sub'[p] = sub[p] /\ ~(p = parent[w] /\ sub[p] = w)
      BY <1>2, <2>2 DEF NoSub
    <3>2. sub[p] \in live \cap active /\ parent[sub[p]] = p /\ sub[p] \in Windows
      BY <1>1, <2>2, <3>1 DEF RefersToLive, TypeOK
    <3>. QED BY <1>2, <1>5, <3>1, <3>2
  <2>3. TypeOK'
    <3>1. mapped' \subseteq live
      BY <1>1, <1>2 DEF TypeOK, Showing
    <3>2. parent' \in [Windows -> Frames \cup {None}]
      BY <1>1, <1>2 DEF TypeOK
    <3>3. xfocus' \in Windows \cup {None} /\ queue' \in Seq(EventSet)
          /\ xrevert' \in {"parent", "none"}
      BY <1>1, <1>6 DEF ServerMoved, TypeOK
    <3>. QED BY <1>1, <1>2, <1>8, <2>1, <3>1, <3>2, <3>3 DEF TypeOK, EventSet
  <2>. QED BY <1>1, <1>2, <1>8, <2>2, <2>3 DEF RefersToLive
<1>10. TreeInv'
  <2>1. parent'[Root] = None /\ Root \in live' \cap mapped' /\ gone' \subseteq Clients
    BY <1>1, <1>2, <1>5, Placed DEF TreeInv, Showing
  <2>2. \A x \in live' \ {Root} : parent'[x] \in live'
    <3>. SUFFICES ASSUME NEW x \in live \ {Root} PROVE parent'[x] \in live
      BY <1>2
    <3>1. x \in Windows /\ parent[x] \in live
      BY <1>1, Placed
    <3>. QED BY <1>2, <1>5, <3>1
  <2>3. \A x \in Windows \ live' : parent'[x] = None
    BY <1>1, <1>2, <1>5 DEF TreeInv
  <2>. QED BY <1>5, <2>1, <2>2, <2>3 DEF TreeInv
<1>11. DyingInv'
  BY <1>1, <1>2 DEF DyingInv, ToSet, IsInjective
<1>12. ServerInv'
  BY <1>2, <1>6, <1>7 DEF ServerMoved, ServerInv
<1>13. BeliefInv'
  <2>1. active' \subseteq live'
    BY <1>2 DEF FocusInv, BeliefInv
  <2>. QED BY <1>2, <1>6, <1>7, <2>1 DEF ServerMoved, BeliefInv
<1>. QED BY <1>9, <1>10, <1>11, <1>12, <1>13 DEF FocusInv

-----------------------------------------------------------------------------
(* Handling an event.                                                      *)

\* The first event is done what it says, act2 being active after it.
LEMMA RestBelief ==
    ASSUME NEW q \in Seq(EventSet), q # <<>>, NEW act, NEW act2, NEW hold, NEW w,
           Believed(q, act, hold, w),
           Head(q).win = w /\ Head(q).type \in Ins => w \in act2,
           Head(q).win = w /\ Head(q).type \in Outs => w \notin act2,
           Head(q).win # w \/ Head(q).type \notin Turns => (w \in act2 <=> w \in act)
    PROVE  Believed(Tail(q), act2, hold, w)
<1>1. /\ Ins \in SUBSET Turns /\ Outs \in SUBSET Turns /\ Turns = Ins \cup Outs
      /\ Ins \cap Outs = {}
  BY DEF Turns, Ins, Outs
<1>2. CASE w \in hold
  <2>1. CASE Ends(q, w, Ins)
    <3>1. \/ Ends(Tail(q), w, Ins)
          \/ Silent(Tail(q), w) /\ Head(q).win = w /\ Head(q).type \in Ins
      BY <1>1, <2>1, RestEnds
    <3>. QED BY <1>2, <3>1 DEF Believed
  <2>2. CASE Silent(q, w) /\ w \in act
    <3>1. Silent(Tail(q), w) /\ (Head(q).win = w => Head(q).type \notin Turns)
      BY <1>1, <2>2, RestEnds
    <3>. QED BY <1>2, <2>2, <3>1 DEF Believed
  <2>. QED BY <1>2, <2>1, <2>2 DEF Believed
<1>3. CASE w \notin hold
  <2>1. CASE Ends(q, w, Outs)
    <3>1. \/ Ends(Tail(q), w, Outs)
          \/ Silent(Tail(q), w) /\ Head(q).win = w /\ Head(q).type \in Outs
      BY <1>1, <2>1, RestEnds
    <3>. QED BY <1>3, <3>1 DEF Believed
  <2>2. CASE Silent(q, w) /\ w \notin act
    <3>1. Silent(Tail(q), w) /\ (Head(q).win = w => Head(q).type \notin Turns)
      BY <1>1, <2>2, RestEnds
    <3>. QED BY <1>3, <2>2, <3>1 DEF Believed
  <2>. QED BY <1>3, <2>1, <2>2 DEF Believed
<1>. QED BY <1>2, <1>3

\* A window with the focus has no active region in it any more when the last
\* event says that it has the focus.
LEMMA NoSubLeft ==
    ASSUME FocusInv, queue # <<>>, NEW x \in live, xfocus = x,
           NoTurn(Tail(queue)), Head(queue) = Event("In", x)
    PROVE  sub[x] = None
<1>. DEFINE c == sub[x]
<1>. SUFFICES ASSUME c # None PROVE FALSE
  OBVIOUS
<1>1. /\ TypeOK /\ TreeInv /\ RefersToLive /\ Tree(parent) /\ parent \in Parents
      /\ queue \in Seq(EventSet)
  BY DEF FocusInv, RefersToLive, TreeInv, Tree, TypeOK, EventSet
<1>2. x \in Windows
  BY <1>1, Placed
<1>3. c \in live \cap active /\ parent[c] = x /\ c \in Windows
  BY <1>1, <1>2 DEF RefersToLive, TypeOK
<1>4. c \notin Hold(parent, x)
  BY <1>1, <1>2, <1>3, Placed, NoCycle
<1>5. Ends(queue, c, Outs)
  BY <1>3, <1>4 DEF FocusInv, BeliefInv, Believed
<1>6. Outs \in SUBSET Turns /\ "In" \notin Outs
  BY DEF Turns, Outs
<1>7. Ends(Tail(queue), c, Outs)
  BY <1>1, <1>5, <1>6, RestEnds DEF Event
<1>. QED BY <1>6, <1>7 DEF Ends, NoTurn

\* region_got_focus and region_lost_focus leave nothing that refers to what is
\* not there.
LEMMA GotFocusKeeps ==
    ASSUME FocusInv, NEW w \in live, GotFocus(w)
    PROVE  /\ await' \in {await, None}
           /\ history' \in Seq(Windows) /\ ToSet(history') \subseteq live
           /\ IsInjective(history')
           /\ active' = active \cup {w}
           /\ sub' \in [Windows -> Windows \cup {None}]
           /\ \A p \in Windows : sub'[p] # None =>
                 sub'[p] \in live \cap active' /\ parent[sub'[p]] = p
           /\ sub[w] = None => history' # <<>> /\ Head(history') = w
<1>1. /\ TypeOK /\ TreeInv /\ RefersToLive /\ w \in Windows /\ w \in Above(w)
      /\ None \notin Windows
  BY Placed DEF FocusInv, RefersToLive
<1>2. await' \in {await, None} /\ active' = active \cup {w}
  BY DEF GotFocus, ClearedAwait
<1>3. /\ Pushed(w) \in Seq(Windows) /\ ToSet(Pushed(w)) \subseteq live
      /\ IsInjective(Pushed(w)) /\ Pushed(w) # <<>> /\ Head(Pushed(w)) = w
  <2>. DEFINE d == Dropping(history, Above(w))
  <2>1. /\ d \in Seq(Windows) /\ ToSet(d) = ToSet(history) \ Above(w)
        /\ IsInjective(d) /\ w \notin ToSet(d)
    BY <1>1, DroppingElements DEF RefersToLive, TypeOK
  <2>. HIDE DEF d
  <2>. QED BY <1>1, <2>1, PrependElements DEF Pushed, d, RefersToLive
<1>4. history' = IF sub[w] = None THEN Pushed(w) ELSE history
  BY DEF GotFocus
<1>5. /\ sub' \in [Windows -> Windows \cup {None}]
      /\ \A p \in Windows : sub'[p] # None =>
            sub'[p] \in live \cap active' /\ parent[sub'[p]] = p
  BY <1>1, <1>2 DEF GotFocus, RefersToLive, TypeOK
<1>. QED BY <1>1, <1>2, <1>3, <1>4, <1>5 DEF RefersToLive, TypeOK

LEMMA LostFocusKeeps ==
    ASSUME FocusInv, NEW w \in live, LostFocus(w)
    PROVE  /\ active' = active \ {w} /\ UNCHANGED <<history, await>>
           /\ sub' \in [Windows -> Windows \cup {None}]
           /\ \A p \in Windows : sub'[p] # None =>
                 sub'[p] \in live \cap active' /\ parent[sub'[p]] = p
<1>1. TypeOK /\ RefersToLive
  BY DEF FocusInv, RefersToLive
<1>2. active' = active \ {w} /\ UNCHANGED <<history, await>>
  BY DEF LostFocus
<1>3. sub' \in [Windows -> Windows \cup {None}]
  BY <1>1 DEF LostFocus, NoSub, TypeOK
<1>4. ASSUME NEW p \in Windows, sub'[p] # None
      PROVE  sub'[p] \in live \cap active' /\ parent[sub'[p]] = p
  <2>1. sub'[p] = sub[p] /\ (w \in active => ~(p = parent[w] /\ sub[p] = w))
    BY <1>1, <1>4 DEF LostFocus, NoSub, TypeOK
  <2>2. sub[p] \in live \cap active /\ parent[sub[p]] = p
    BY <1>1, <1>4, <2>1 DEF RefersToLive
  <2>. QED BY <1>2, <2>1, <2>2
<1>. QED BY <1>2, <1>3, <1>4

LEMMA HandleEventKeeps ==
    ASSUME FocusInv, HandleEvent
    PROVE  FocusInv'
<1>. DEFINE e == Head(queue)
<1>1. /\ TypeOK /\ TreeInv /\ RefersToLive /\ queue \in Seq(EventSet) /\ queue # <<>>
      /\ dying = <<>> /\ ~idle
      /\ queue' = Tail(queue) /\ UNCHANGED <<xfocus, xrevert, idle, acts>>
  BY DEF FocusInv, RefersToLive, TypeOK, EventSet, HandleEvent, Running, server
<1>2. e \in EventSet /\ queue' \in Seq(EventSet)
  BY <1>1, RestEnds
<1>3. /\ e.type = "Gone" => e.win \in Clients
      /\ \A i \in DOMAIN queue' : queue'[i].type = "Gone" => queue'[i].win \in Clients
  <2>1. /\ 1 \in DOMAIN queue /\ e = queue[1]
        /\ \A i \in DOMAIN queue' : i + 1 \in DOMAIN queue /\ queue'[i] = queue[i + 1]
    BY <1>1
  <2>. QED BY <2>1 DEF FocusInv, ServerInv
\* Whatever the event, it is enough to look at what has changed.
<1>4. ASSUME UNCHANGED <<live, parent, gone>>,
             mapped' \subseteq live, Root \in mapped',
             active' \subseteq live,
             \A w \in live :
                /\ e.win = w /\ e.type \in Ins => w \in active'
                /\ e.win = w /\ e.type \in Outs => w \notin active'
                /\ e.win # w \/ e.type \notin Turns => (w \in active' <=> w \in active),
             history' \in Seq(Windows), ToSet(history') \subseteq live,
             IsInjective(history'),
             e.type \notin Turns => history' = history,
             e.type = "In" /\ e.win \in live /\ sub[e.win] = None =>
                history' # <<>> /\ Head(history') = e.win,
             sub' \in [Windows -> Windows \cup {None}],
             \A p \in Windows : sub'[p] # None =>
                sub'[p] \in live \cap active' /\ parent[sub'[p]] = p,
             next' \in live \cup {None}, source' \in Other..Fallback,
             await' \in live \cup {None}, await' \notin ToSet(dying'),
             dying' \in Seq(Windows), DyingInv'
      PROVE  FocusInv'
  <2>1. TypeOK'
    BY <1>1, <1>2, <1>4 DEF TypeOK, EventSet
  <2>2. RefersToLive'
    BY <1>4, <2>1 DEF RefersToLive
  <2>3. TreeInv'
    BY <1>4 DEF FocusInv, TreeInv
  <2>4. ServerInv'
    BY <1>1, <1>3, <1>4 DEF FocusInv, ServerInv
  <2>5. \A w \in live : Believed(queue', active', Hold(parent, xfocus), w)
    <3>. SUFFICES ASSUME NEW w \in live
                  PROVE  Believed(queue', active', Hold(parent, xfocus), w)
      OBVIOUS
    <3>1. Believed(queue, active, Hold(parent, xfocus), w)
      BY DEF FocusInv, BeliefInv
    <3>2. /\ e.win = w /\ e.type \in Ins => w \in active'
          /\ e.win = w /\ e.type \in Outs => w \notin active'
          /\ e.win # w \/ e.type \notin Turns => (w \in active' <=> w \in active)
      BY <1>4
    <3>. QED BY <1>1, <3>1, <3>2, RestBelief
  <2>6. Latest(queue', history', xfocus)
    <3>. SUFFICES ASSUME xfocus # None
                  PROVE  \/ EndsAt(queue', xfocus)
                         \/ NoTurn(queue') /\ history' # <<>> /\ Head(history') = xfocus
      BY DEF Latest
    <3>1. xfocus \in live
      BY DEF FocusInv, ServerInv
    <3>2. CASE EndsAt(queue, xfocus)
      <4>1. \/ EndsAt(queue', xfocus)
            \/ NoTurn(queue') /\ e = Event("In", xfocus)
        BY <1>1, <3>2, RestEnds
      <4>2. ASSUME NoTurn(queue'), e = Event("In", xfocus)
            PROVE  history' # <<>> /\ Head(history') = xfocus
        <5>1. sub[xfocus] = None
          BY <1>1, <3>1, <4>2, NoSubLeft
        <5>2. e.type = "In" /\ e.win = xfocus
          BY <4>2 DEF Event
        <5>. QED BY <1>4, <3>1, <5>1, <5>2
      <4>. QED BY <4>1, <4>2
    <3>3. CASE NoTurn(queue) /\ history # <<>> /\ Head(history) = xfocus
      <4>1. NoTurn(queue') /\ e.type \notin Turns
        BY <1>1, <3>3, RestEnds
      <4>. QED BY <1>4, <3>3, <4>1
    <3>. QED BY <3>2, <3>3 DEF FocusInv, BeliefInv, Latest
  <2>7. BeliefInv'
    BY <1>1, <1>4, <2>5, <2>6 DEF BeliefInv
  <2>. QED BY <1>4, <2>2, <2>3, <2>4, <2>7 DEF FocusInv
<1>. HIDE DEF e
<1>5. /\ mapped \subseteq live /\ Root \in mapped /\ active \subseteq live
      /\ history \in Seq(Windows) /\ ToSet(history) \subseteq live
      /\ IsInjective(history) /\ sub \in [Windows -> Windows \cup {None}]
      /\ \A p \in Windows : sub[p] # None =>
            sub[p] \in live \cap active /\ parent[sub[p]] = p
      /\ next \in live \cup {None} /\ source \in Other..Fallback
      /\ await \in live \cup {None} /\ await \notin ToSet(dying)
      /\ dying \in Seq(Windows) /\ DyingInv
      /\ Root \in live /\ ToSet(dying) = {}
  BY <1>1 DEF FocusInv, RefersToLive, TypeOK, TreeInv, BeliefInv, ToSet
<1>6. /\ Turns = Ins \cup Outs /\ "In" \in Ins /\ "InNone" \in Ins
      /\ "OutInferior" \in Ins /\ "Out" \in Outs
      /\ Ins \cap Outs = {} /\ "Enter" \notin Turns /\ "Gone" \notin Turns
      /\ "In" \in Turns
  BY DEF Turns, Ins, Outs
<1>7. ASSUME UNCHANGED <<live, parent, gone, dying>> PROVE DyingInv'
  BY <1>1, <1>5, <1>7 DEF DyingInv
<1>8. CASE HandleFocusIn(e)
  <2>1. /\ e.type \in {"In", "InNone"} /\ e.win \in live /\ GotFocus(e.win)
        /\ UNCHANGED <<live, parent, mapped, gone, dying>>
    BY <1>8 DEF HandleFocusIn, tree
  <2>2. next' \in live \cup {None} /\ source' \in Other..Fallback
    BY <1>5, <1>8 DEF HandleFocusIn, FocusNextAfter, Other, Fallback
  <2>3. /\ await' \in {await, None}
        /\ history' \in Seq(Windows) /\ ToSet(history') \subseteq live
        /\ IsInjective(history')
        /\ active' = active \cup {e.win}
        /\ sub' \in [Windows -> Windows \cup {None}]
        /\ \A p \in Windows : sub'[p] # None =>
              sub'[p] \in live \cap active' /\ parent[sub'[p]] = p
        /\ sub[e.win] = None => history' # <<>> /\ Head(history') = e.win
    BY <2>1, GotFocusKeeps
  <2>4. e.type \in Ins /\ e.type \in Turns /\ e.type \notin Outs
    BY <1>6, <2>1
  <2>5. await' \in live \cup {None} /\ await' \notin ToSet(dying')
    BY <1>5, <2>1, <2>3
  <2>6. DyingInv'
    BY <1>7, <2>1
  <2>. QED BY <1>4, <1>5, <2>1, <2>2, <2>3, <2>4, <2>5, <2>6
<1>9. CASE HandleFocusOut(e)
  <2>1. /\ e.type \in {"Out", "OutInferior"} /\ e.win \in live
        /\ UNCHANGED <<next, source, live, parent, mapped, gone, dying>>
    BY <1>9 DEF HandleFocusOut, tree
  <2>2. DyingInv'
    BY <1>7, <2>1
  <2>3. CASE e.type = "Out"
    <3>1. LostFocus(e.win)
      BY <1>9, <2>3 DEF HandleFocusOut
    <3>2. /\ active' = active \ {e.win} /\ UNCHANGED <<history, await>>
          /\ sub' \in [Windows -> Windows \cup {None}]
          /\ \A p \in Windows : sub'[p] # None =>
                sub'[p] \in live \cap active' /\ parent[sub'[p]] = p
      BY <2>1, <3>1, LostFocusKeeps
    <3>3. e.type \in Outs /\ e.type \notin Ins /\ e.type \in Turns /\ e.type # "In"
      BY <1>6, <2>3
    <3>. QED BY <1>4, <1>5, <2>1, <2>2, <3>2, <3>3
  <2>4. CASE e.type = "OutInferior"
    <3>1. GotFocus(e.win)
      BY <1>9, <2>4 DEF HandleFocusOut
    <3>2. /\ await' \in {await, None}
          /\ history' \in Seq(Windows) /\ ToSet(history') \subseteq live
          /\ IsInjective(history')
          /\ active' = active \cup {e.win}
          /\ sub' \in [Windows -> Windows \cup {None}]
          /\ \A p \in Windows : sub'[p] # None =>
                sub'[p] \in live \cap active' /\ parent[sub'[p]] = p
      BY <2>1, <3>1, GotFocusKeeps
    <3>3. e.type \in Ins /\ e.type \in Turns /\ e.type \notin Outs /\ e.type # "In"
      BY <1>6, <2>4
    <3>4. await' \in live \cup {None} /\ await' \notin ToSet(dying')
      BY <1>5, <2>1, <3>2
    <3>. QED BY <1>4, <1>5, <2>1, <2>2, <3>2, <3>3, <3>4
  <2>. QED BY <2>1, <2>3, <2>4
<1>10. CASE HandleEnter(e)
  <2>1. /\ e.type = "Enter" /\ e.win \in live /\ Entered(e.win)
        /\ UNCHANGED <<active, sub, history, await, live, parent, gone, dying>>
    BY <1>10 DEF HandleEnter
  <2>2. /\ mapped' \subseteq live /\ Root \in mapped'
        /\ next' \in live \cup {None} /\ source' \in Other..Fallback
    BY <1>5, <2>1, ShownElements DEF Entered, EnterWindow, Other, Fallback
  <2>3. e.type \notin Turns /\ e.type \notin Ins /\ e.type \notin Outs /\ e.type # "In"
    BY <1>6, <2>1
  <2>4. DyingInv'
    BY <1>7, <2>1
  <2>. QED BY <1>4, <1>5, <2>1, <2>2, <2>3, <2>4
<1>11. CASE HandleGone(e)
  <2>1. /\ e.type = "Gone" /\ e.win \in live /\ EnterDestroy(e.win)
        /\ UNCHANGED <<active, sub, history, next, source, live, parent, mapped, gone>>
    BY <1>11 DEF HandleGone
  <2>2. e.win \in live \ {Root}
    BY <1>1, <1>3, <2>1, Placed DEF e
  <2>3. /\ DyingInv' /\ dying' \in Seq(Windows)
        /\ await' \in live \cup {None} /\ await' \notin ToSet(dying')
    BY <1>1, <2>1, <2>2, EnterDestroyKeeps
  <2>4. e.type \notin Turns /\ e.type \notin Ins /\ e.type \notin Outs /\ e.type # "In"
    BY <1>6, <2>1
  <2>. QED BY <1>4, <1>5, <2>1, <2>3, <2>4
<1>12. CASE HandleStray(e)
  <2>1. /\ e.win \notin live
        /\ UNCHANGED <<active, sub, history, next, source, await, live, parent, mapped, gone,
                       dying>>
    BY <1>12 DEF HandleStray, prog, tree
  <2>2. DyingInv'
    BY <1>7, <2>1
  <2>. QED BY <1>4, <1>5, <2>1, <2>2
<1>. QED BY <1>8, <1>9, <1>10, <1>11, <1>12 DEF HandleEvent, e

-----------------------------------------------------------------------------
(* The theorems.                                                           *)

LEMMA HomeTree ==
    Tree(Home)
<1>1. /\ Root \in Windows /\ None \notin Windows /\ Home \in Parents
      /\ IsFiniteSet(Windows)
  BY WindowsAssumption DEF Windows, Parents
<1>2. PICK depth \in [Windows -> 0..Cardinality(Windows)] :
         \A w \in Windows \ {Root} : Home[w] # None /\ depth[Home[w]] < depth[w]
  BY WindowsAssumption
<1>3. \A x \in Windows : depth[x] \in Int
  BY <1>1, <1>2, FS_CardinalityType
<1>4. ASSUME NEW w \in Windows PROVE \E r \in Inside(Home, w) : Home[r] = None
  <2>. DEFINE S == {depth[x] : x \in Inside(Home, w)}
  <2>1. /\ w \in Inside(Home, w) /\ Inside(Home, w) \subseteq Windows
        /\ UpClosed(Home, Inside(Home, w))
    BY <1>1, InsideIs
  <2>2. S \in SUBSET Int /\ S # {}
    BY <1>3, <2>1
  <2>3. IsFiniteSet(S)
    <3>1. IsFiniteSet(Inside(Home, w))
      BY <1>1, <2>1, FS_Subset
    <3>2. \E f : f \in Surjection(Inside(Home, w), S)
      <4>1. [x \in Inside(Home, w) |-> depth[x]] \in Surjection(Inside(Home, w), S)
        BY DEF Surjection
      <4>. QED BY <4>1
    <3>. QED BY <3>1, <3>2, FS_Surjection
  <2>4. PICK m \in S : \A y \in S : m <= y
    <3>. HIDE DEF S
    <3>. QED BY <2>2, <2>3, LeastInt
  <2>5. PICK r \in Inside(Home, w) : depth[r] = m
    OBVIOUS
  <2>6. CASE Home[r] # None
    <3>1. Home[r] \in Inside(Home, w) /\ r \in Windows
      BY <2>1, <2>6 DEF UpClosed
    <3>2. r # Root
      BY <2>6, WindowsAssumption
    <3>3. depth[Home[r]] < depth[r] /\ depth[Home[r]] \in S
      BY <1>2, <3>1, <3>2
    <3>4. m <= depth[Home[r]] /\ m \in Int /\ depth[Home[r]] \in Int
      BY <2>2, <2>4, <3>3
    <3>. HIDE DEF S
    <3>. QED BY <2>5, <3>3, <3>4
  <2>. QED BY <2>6
<1>. QED BY <1>1, <1>4 DEF Tree

LEMMA InitFocus ==
    Init => FocusInv
<1>. SUFFICES ASSUME NEW w \in Windows, InitAt(w) PROVE FocusInv
  BY DEF Init
<1>1. /\ Root \in Frames /\ Root \in Windows /\ None \notin Windows
      /\ Home \in [Windows -> Frames \cup {None}] /\ Home[Root] = None
      /\ \A x \in Windows \ {Root} : Home[x] # None
      /\ MaxActs \in Nat /\ Frames \subseteq Windows /\ Home \in Parents
  BY WindowsAssumption DEF Windows, Parents
<1>2. /\ Tree(Home) /\ AboveIn(Home, w) = Inside(Home, w)
      /\ w \in Inside(Home, w) /\ Inside(Home, w) \subseteq Windows
      /\ UpClosed(Home, Inside(Home, w))
  BY <1>1, HomeTree, AboveIs, InsideIs
<1>3. /\ live = Windows /\ parent = Home /\ mapped = Windows
      /\ xfocus = w /\ xrevert = "parent" /\ active = Inside(Home, w)
      /\ history = <<w>> /\ next = None /\ source = Other /\ await = None
      /\ dying = <<>> /\ idle = FALSE /\ gone = {} /\ queue = <<>> /\ acts = 0
  BY <1>2 DEF InitAt
<1>4. ASSUME NEW p \in Inside(Home, w), p # w
      PROVE  \E c \in Inside(Home, w) : Home[c] = p
  <2>. DEFINE S == {y \in Inside(Home, w) :
                      y = w \/ \E c \in Inside(Home, w) : Home[c] = y}
  <2>1. w \in S /\ UpClosed(Home, S) /\ S \in SUBSET Windows
    BY <1>2 DEF UpClosed
  <2>2. Inside(Home, w) \subseteq S
    <3>. HIDE DEF S
    <3>. QED BY <1>1, <2>1, InsideIs
  <2>. QED BY <1>4, <2>2
<1>5. /\ sub \in [Windows -> Windows \cup {None}]
      /\ \A p \in Windows : sub[p] # None =>
            sub[p] \in live \cap active /\ parent[sub[p]] = p
  <2>1. sub = [p \in Windows |-> IF p = w \/ p \notin active THEN None
                                 ELSE CHOOSE c \in active : Home[c] = p]
    BY DEF InitAt
  <2>2. ASSUME NEW p \in Windows
        PROVE  \/ sub[p] = None
               \/ sub[p] \in Inside(Home, w) /\ Home[sub[p]] = p
    BY <1>3, <1>4, <2>1
  <2>3. \A p \in Windows : sub[p] \in Windows \cup {None}
    BY <1>2, <2>2
  <2>. QED BY <1>2, <1>3, <2>1, <2>2, <2>3
<1>6. /\ <<w>> \in Seq(Windows) /\ ToSet(<<w>>) = {w} /\ IsInjective(<<w>>)
      /\ <<w>> # <<>> /\ Head(<<w>>) = w
      /\ <<>> \in Seq(Windows) /\ ToSet(<<>>) = {} /\ IsInjective(<<>>)
      /\ <<>> \in Seq(EventSet) /\ DOMAIN <<>> = {} /\ Len(<<>>) = 0
  BY DEF ToSet, IsInjective
<1>7. TypeOK
  <2>1. source \in Other..Fallback /\ acts \in 0..MaxActs
    BY <1>1, <1>3 DEF Other, Fallback
  <2>. QED BY <1>1, <1>2, <1>3, <1>5, <1>6, <2>1 DEF TypeOK, EventSet
<1>8. RefersToLive
  BY <1>3, <1>5, <1>6, <1>7 DEF RefersToLive
<1>9. TreeInv
  <2>1. \A x \in Windows \ {Root} : Home[x] \in Windows
    BY <1>1
  <2>. QED BY <1>1, <1>2, <1>3, <2>1 DEF TreeInv
<1>10. DyingInv
  BY <1>3, <1>6 DEF DyingInv
<1>11. ServerInv
  BY <1>3, <1>6 DEF ServerInv
<1>12. BeliefInv
  <2>1. Hold(parent, xfocus) = active
    BY <1>1, <1>3 DEF Hold
  <2>2. NoTurn(queue) /\ \A x : Silent(queue, x)
    BY <1>3, <1>6 DEF NoTurn, Silent
  <2>. QED BY <1>2, <1>3, <1>6, <2>1, <2>2 DEF BeliefInv, Believed, Latest
<1>. QED BY <1>8, <1>9, <1>10, <1>11, <1>12 DEF FocusInv

LEMMA NextFocus ==
    FocusInv /\ [Next]_vars => FocusInv'
<1>. SUFFICES ASSUME FocusInv, [Next]_vars PROVE FocusInv'
  OBVIOUS
<1>1. CASE UNCHANGED vars
  BY <1>1 DEF vars, prog, tree, server, FocusInv, RefersToLive, TypeOK, TreeInv,
              DyingInv, ServerInv, BeliefInv
<1>2. CASE ProgramNext
  BY <1>2, HandleEventKeeps, FindIdleKeeps, FlushFocusKeeps, FinishDestroyKeeps,
     DestroyKeeps DEF ProgramNext
<1>3. CASE ClientNext
  BY <1>3, ClientFocusesKeeps, ClientDropsKeeps, ClientGoesKeeps, PointerEntersKeeps
     DEF ClientNext
<1>4. CASE UserNext
  BY <1>4, SetFocusKeeps, MapKeeps, HidingKeeps, DestroyKeeps, CreateKeeps, ReparentKeeps
     DEF UserNext
<1>. QED BY <1>1, <1>2, <1>3, <1>4 DEF Next

\* The invariant holds of every behaviour: region_deinit, await_watch_handler
\* and the handlers of focus events keep it.
THEOREM FocusInvariance ==
    Spec => []FocusInv
<1>. QED BY InitFocus, NextFocus, PTL DEF Spec

\* Nothing refers to a region that has been freed (region_deinit, focus.c).
THEOREM NothingFreedIsReferredTo ==
    Spec => []RefersToLive
<1>1. FocusInv => RefersToLive
  BY DEF FocusInv
<1>. QED BY <1>1, FocusInvariance, PTL

\* With all events handled, the regions marked active are those the focus of
\* the server is in, and the list begins with the region that has it
\* (ioncore_handle_focus_in, ioncore_handle_focus_out).
THEOREM BeliefIsTrue ==
    Spec => []BeliefTrue
<1>1. FocusInv => BeliefTrue
  <2>. SUFFICES ASSUME FocusInv, queue = <<>>
                PROVE  /\ active = IF xfocus = None THEN {Root} ELSE Above(xfocus)
                       /\ xfocus # None => First(history) = xfocus /\ sub[xfocus] = None
    BY DEF BeliefTrue, Quiet
  <2>1. /\ TypeOK /\ TreeInv /\ Tree(parent) /\ RefersToLive /\ DOMAIN <<>> = {}
        /\ xfocus \in live \cup {None}
    BY DEF FocusInv, RefersToLive, TreeInv, ServerInv
  <2>2. \A w \in live : w \in active <=> w \in Hold(parent, xfocus)
    BY <2>1 DEF FocusInv, BeliefInv, Believed, Ends
  <2>3. Hold(parent, xfocus) \subseteq live
    BY <2>1, Placed DEF Hold, TreeInv
  <2>4. active = Hold(parent, xfocus)
    BY <2>2, <2>3 DEF FocusInv, BeliefInv
  <2>5. active = IF xfocus = None THEN {Root} ELSE Above(xfocus)
    BY <2>1, <2>4, Placed
  <2>6. ASSUME xfocus # None PROVE First(history) = xfocus
    BY <2>1, <2>6 DEF FocusInv, BeliefInv, Latest, EndsAt, First
  <2>7. ASSUME xfocus # None PROVE sub[xfocus] = None
    <3>. SUFFICES ASSUME sub[xfocus] # None PROVE FALSE
      OBVIOUS
    <3>1. xfocus \in live /\ xfocus \in Windows
      BY <2>1, <2>7, Placed
    <3>2. sub[xfocus] \in live \cap active /\ parent[sub[xfocus]] = xfocus
      BY <2>1, <3>1 DEF RefersToLive
    <3>3. sub[xfocus] \in Windows /\ sub[xfocus] \in Inside(parent, xfocus)
      BY <2>1, <2>4, <3>1, <3>2, Placed
    <3>. QED BY <2>1, <3>1, <3>2, <3>3, NoCycle, Placed
  <2>. QED BY <2>5, <2>6, <2>7
<1>. QED BY <1>1, FocusInvariance, PTL
=============================================================================
