--------------------------- MODULE DialogueProofs ---------------------------
(***************************************************************************)
(* Proofs about what passes between the program and its user.              *)
(*                                                                         *)
(* Query, for any characters, texts, histories and answers: the cursor and *)
(* the selection stay in the line, with autoshowcompl an answer changes no *)
(* text but the one it is about, the user's own text comes back, and the   *)
(* ring of the history is the list of the last different entries.          *)
(*                                                                         *)
(* Activity, for any finite set of regions: the counts of activity in the  *)
(* managers are exact, and what is on the activity list is an existing     *)
(* region that has its flag set.  The counts are inductive with two more   *)
(* facts: the hierarchy holds only regions that exist, so that a region    *)
(* that is created counts nothing, and while a propagation is under way    *)
(* one manager is one off.                                                 *)
(***************************************************************************)
EXTENDS Query, Activity, ListLemmas, FiniteSetTheorems

Line == [p : AnyText, point : Int, mark : Int]
SoundLine(l) == l \in Line /\ Sound(l)

-----------------------------------------------------------------------------
(* The line editor keeps the cursor and the selection in the text.         *)

LEMMA InsertedSound ==
    ASSUME NEW l, SoundLine(l), NEW s \in AnyText, NEW move \in BOOLEAN
    PROVE  SoundLine(Inserted(l, s, move))
<1>. DEFINE before == SubSeq(l.p, 1, l.point)
            after == SubSeq(l.p, l.point + 1, Len(l.p))
<1>1. before \in AnyText /\ Len(before) = l.point
  BY DEF SoundLine, Line, Sound, AnyText
<1>2. after \in AnyText /\ Len(after) = Len(l.p) - l.point
  BY DEF SoundLine, Line, Sound, AnyText
<1>3. Len(s) \in Nat
  BY DEF AnyText
<1>. DEFINE p == before \o s \o after
<1>4. p \in AnyText /\ Len(p) = Len(l.p) + Len(s)
  BY <1>1, <1>2, <1>3 DEF SoundLine, Line, Sound, AnyText
<1>. DEFINE mark == IF l.mark > l.point THEN l.mark + Len(s) ELSE l.mark
            point == IF move THEN l.point + Len(s) ELSE l.point
<1>5. /\ Inserted(l, s, move).p = p /\ Inserted(l, s, move).point = point
      /\ Inserted(l, s, move).mark = mark
      /\ Inserted(l, s, move) \in [p : {p}, point : {point}, mark : {mark}]
  BY DEF Inserted, SoundLine, Line
<1>6. /\ Len(l.p) \in Nat /\ l.point \in 0..Len(l.p) /\ l.mark \in Int
      /\ l.mark <= Len(l.p)
  BY DEF SoundLine, Line, Sound, AnyText
<1>. HIDE DEF p
<1>7. point \in 0..Len(p) /\ mark \in Int /\ mark <= Len(p)
  BY <1>3, <1>4, <1>6
<1>. HIDE DEF point, mark
<1>. QED BY <1>4, <1>5, <1>7 DEF SoundLine, Line, Sound

\* What is left of a text when k characters at offset i are taken out.
LEMMA TextWithout ==
    ASSUME NEW s \in AnyText, NEW i \in 0..Len(s), NEW k \in 0..Len(s) - i
    PROVE  LET r == SubSeq(s, 1, i) \o SubSeq(s, i + k + 1, Len(s))
           IN r \in AnyText /\ Len(r) = Len(s) - k /\ (k = 0 => r = s)
<1>. DEFINE before == SubSeq(s, 1, i)
            after == SubSeq(s, i + k + 1, Len(s))
<1>1. before \in AnyText /\ Len(before) = i
  BY DEF AnyText
<1>2. after \in AnyText /\ Len(after) = Len(s) - i - k
  BY DEF AnyText
<1>3. /\ \A j \in 1..Len(before) : before[j] = s[j]
      /\ \A j \in 1..Len(after) : after[j] = s[i + k + j]
  BY DEF AnyText
<1>4. s \in Seq(Character) /\ Len(s) \in Nat
  BY DEF AnyText
<1>. HIDE DEF before, after
<1>5. before \o after \in AnyText /\ Len(before \o after) = Len(s) - k
  <2>1. before \in Seq(Character) /\ after \in Seq(Character)
    BY <1>1, <1>2 DEF AnyText
  <2>. DEFINE r == before \o after
  <2>2. r \in Seq(Character) /\ Len(r) = Len(before) + Len(after)
    BY <2>1, ConcatProperties
  <2>. HIDE DEF r
  <2>3. i + (Len(s) - i - k) = Len(s) - k
    BY <1>4
  <2>. QED BY <1>1, <1>2, <2>2, <2>3 DEF AnyText, r
<1>6. ASSUME k = 0, NEW j \in 1..Len(s) PROVE (before \o after)[j] = s[j]
  <2>1. /\ before \in Seq(Character) /\ Len(before) = i
        /\ after \in Seq(Character) /\ Len(after) = Len(s) - i
    BY <1>1, <1>2, <1>4, <1>6 DEF AnyText
  <2>2. \A n \in 1..Len(before) + Len(after) :
            (before \o after)[n] = IF n <= Len(before) THEN before[n]
                                   ELSE after[n - Len(before)]
    BY <2>1, ConcatProperties
  <2>3. CASE j <= i
    BY <1>3, <1>4, <2>1, <2>2, <2>3
  <2>4. CASE ~(j <= i)
    <3>1. j - i \in 1..Len(after) /\ i + k + (j - i) = j
      BY <1>4, <1>6, <2>1, <2>4
    <3>2. (before \o after)[j] = after[j - i]
      BY <1>4, <2>1, <2>2, <2>4
    <3>. QED BY <1>3, <3>1, <3>2
  <2>. QED BY <2>3, <2>4
<1>7. ASSUME k = 0 PROVE before \o after = s
  <2>. DEFINE r == before \o after
  <2>1. r \in Seq(Character) /\ Len(r) = Len(s) /\ Len(s) \in Nat
    BY <1>4, <1>5, <1>7 DEF AnyText
  <2>2. \A j \in 1..Len(r) : r[j] = s[j]
    BY <1>6, <1>7, <2>1
  <2>. HIDE DEF r
  <2>3. r = s
    BY <1>4, <2>1, <2>2, SeqEqual
  <2>. QED BY <2>3 DEF r
<1>. QED BY <1>5, <1>7 DEF before, after

LEMMA RemovedSound ==
    ASSUME NEW l, SoundLine(l), NEW n \in Nat
    PROVE  /\ SoundLine(Removed(l, n)) /\ Removed(l, n).point = l.point
           /\ n = 0 \/ l.point = Len(l.p) => Removed(l, n) = l
<1>. DEFINE k == Min2(n, Len(l.p) - l.point)
            p == SubSeq(l.p, 1, l.point)
                 \o SubSeq(l.p, l.point + k + 1, Len(l.p))
<1>1. /\ l.p \in AnyText /\ l.point \in 0..Len(l.p) /\ Len(l.p) \in Nat
      /\ l.mark \in Int
  BY DEF SoundLine, Line, Sound, AnyText
<1>2. /\ k \in 0..Len(l.p) - l.point
      /\ n = 0 \/ l.point = Len(l.p) => k = 0
  BY <1>1 DEF Min2
<1>3. p \in AnyText /\ Len(p) = Len(l.p) - k /\ (k = 0 => p = l.p)
  BY <1>1, <1>2, TextWithout
<1>4. /\ Removed(l, n).p = p /\ Removed(l, n).point = l.point
      /\ Removed(l, n).mark = IF l.mark > l.point THEN l.mark - k ELSE l.mark
      /\ Removed(l, n) \in [p : {p}, point : {l.point},
              mark : {IF l.mark > l.point THEN l.mark - k ELSE l.mark}]
  BY DEF Removed, SoundLine, Line
<1>. HIDE DEF p, k
<1>5. SoundLine(Removed(l, n))
  BY <1>1, <1>2, <1>3, <1>4 DEF SoundLine, Line, Sound
<1>6. n = 0 \/ l.point = Len(l.p) => Removed(l, n) = l
  BY <1>1, <1>2, <1>3, <1>4 DEF SoundLine, Line
<1>. QED BY <1>4, <1>5, <1>6

LEMMA MovedSound ==
    ASSUME NEW l, SoundLine(l), NEW i \in 0..Len(l.p)
    PROVE  LET r == [l EXCEPT !.point = i]
           IN SoundLine(r) /\ r.p = l.p /\ r.point = i
BY DEF SoundLine, Line, Sound

LEMMA SimpleMoves ==
    ASSUME NEW l, SoundLine(l)
    PROVE  \A r \in {Back(l), Forward(l), Bol(l), Eol(l), SetMark(l),
                     ClearMark(l), Copy(l)} : SoundLine(r) /\ r.p = l.p
BY DEF SoundLine, Line, Sound, Back, Forward, Bol, Eol, SetMark, ClearMark,
       Copy, HasSelection, Unmarked, AnyText

WordBegin(p, i) == IsWord(p, i) /\ (i = 0 \/ ~IsWord(p, i - 1))

LEMMA WordBegins ==
    ASSUME NEW l, SoundLine(l)
    PROVE  /\ SoundLine(BSkipWord(l)) /\ BSkipWord(l).p = l.p
           /\ BSkipWord(l).point \in 0..l.point
           /\ BSkipWord(l) = [l EXCEPT !.point = BSkipWord(l).point]
           /\ BSkipWord(l).point = 0 \/ WordBegin(l.p, BSkipWord(l).point)
           /\ \A j \in 0..l.point - 1 :
                 WordBegin(l.p, j) => j <= BSkipWord(l).point
<1>. DEFINE begins == {i \in 0..l.point - 1 : WordBegin(l.p, i)}
            last == CHOOSE k \in begins : \A j \in begins : j <= k
            i == IF begins = {} THEN 0 ELSE last
<1>1. l.point \in 0..Len(l.p) /\ Len(l.p) \in Nat
  BY DEF SoundLine, Line, Sound, AnyText
<1>2. begins \subseteq 0..l.point - 1 /\ begins \subseteq Int
  OBVIOUS
<1>3. IsFiniteSet(begins)
  <2>1. IsFiniteSet(0..l.point - 1)
    BY <1>1, FS_Interval
  <2>. QED BY <1>2, <2>1, FS_Subset
<1>. HIDE DEF begins
<1>4. begins # {} => \E k \in begins : \A j \in begins : j <= k
  BY <1>2, <1>3, GreatestInt
<1>a. begins # {} => last \in begins
  BY <1>4
<1>. HIDE DEF last
<1>5. i \in 0..l.point
  <2>1. CASE begins = {}
    BY <1>1, <2>1
  <2>2. CASE begins # {}
    <3>1. last \in 0..l.point - 1
      BY <1>2, <1>a, <2>2
    <3>. QED BY <1>1, <2>2, <3>1
  <2>. QED BY <2>1, <2>2
<1>6. BSkipWord(l) = [l EXCEPT !.point = i]
  BY DEF BSkipWord, begins, last, WordBegin
<1>b. i = 0 \/ WordBegin(l.p, i)
  BY <1>a DEF begins
<1>c. ASSUME NEW j \in 0..l.point - 1, WordBegin(l.p, j) PROVE j <= i
  <2>1. j \in begins
    BY <1>c DEF begins
  <2>. QED BY <1>4, <2>1 DEF last
<1>. HIDE DEF i
<1>7. i \in 0..Len(l.p)
  BY <1>1, <1>5
<1>8. /\ SoundLine(BSkipWord(l)) /\ BSkipWord(l).p = l.p
      /\ BSkipWord(l).point = i
  BY <1>6, <1>7, MovedSound
<1>. QED BY <1>5, <1>6, <1>8, <1>b, <1>c

LEMMA WordEnds ==
    ASSUME NEW l, SoundLine(l)
    PROVE  /\ SoundLine(SkipWord(l)) /\ SkipWord(l).p = l.p
           /\ SkipWord(l).point \in l.point..Len(l.p)
           /\ SkipWord(l) = [l EXCEPT !.point = SkipWord(l).point]
<1>. DEFINE ends == {i \in l.point + 1..Len(l.p) :
                       IsWord(l.p, i - 1) /\ (i = Len(l.p) \/ ~IsWord(l.p, i))}
            next == CHOOSE k \in ends : \A j \in ends : k <= j
            i == IF ends = {} THEN Len(l.p) ELSE next
<1>1. l.point \in 0..Len(l.p) /\ Len(l.p) \in Nat
  BY DEF SoundLine, Line, Sound, AnyText
<1>2. ends \subseteq l.point + 1..Len(l.p) /\ ends \subseteq Int
  OBVIOUS
<1>3. IsFiniteSet(ends)
  <2>1. l.point + 1 \in Int /\ Len(l.p) \in Int
    BY <1>1
  <2>2. IsFiniteSet(l.point + 1..Len(l.p))
    BY <2>1, FS_Interval
  <2>. QED BY <1>2, <2>2, FS_Subset
<1>. HIDE DEF ends
<1>4. ends # {} => \E k \in ends : \A j \in ends : k <= j
  BY <1>2, <1>3, LeastInt
<1>a. ends # {} => next \in ends
  BY <1>4
<1>. HIDE DEF next
<1>5. i \in l.point..Len(l.p)
  <2>1. CASE ends = {}
    BY <1>1, <2>1
  <2>2. CASE ends # {}
    <3>1. next \in l.point + 1..Len(l.p)
      BY <1>2, <1>a, <2>2
    <3>. QED BY <1>1, <2>2, <3>1
  <2>. QED BY <2>1, <2>2
<1>6. SkipWord(l) = [l EXCEPT !.point = i]
  BY DEF SkipWord, ends, next
<1>. HIDE DEF i
<1>7. i \in 0..Len(l.p)
  BY <1>1, <1>5
<1>. QED BY <1>5, <1>6, <1>7, MovedSound

LEMMA TransposeCharsSound ==
    ASSUME NEW l, SoundLine(l)
    PROVE  /\ SoundLine(TransposeChars(l))
           /\ ~(l.point > 0 /\ Len(l.p) >= 2) => TransposeChars(l) = l
<1>. DEFINE pos == IF l.point = Len(l.p) THEN l.point - 1 ELSE l.point
            p == Swapped(l.p, pos)
            point == IF l.point = Len(l.p) THEN l.point ELSE l.point + 1
<1>1. /\ l.point \in 0..Len(l.p) /\ Len(l.p) \in Nat /\ l.p \in AnyText
      /\ l.mark \in Int /\ l.mark <= Len(l.p)
  BY DEF SoundLine, Line, Sound, AnyText
<1>2. CASE l.point > 0 /\ Len(l.p) >= 2
  <2>1. pos \in 1..Len(l.p) /\ pos + 1 \in 1..Len(l.p)
    BY <1>1, <1>2
  <2>2. l.p[pos] \in Character /\ l.p[pos + 1] \in Character
    BY <1>1, <2>1 DEF AnyText
  <2>. DEFINE p1 == [l.p EXCEPT ![pos] = l.p[pos + 1]]
  <2>a. p1 \in Seq(Character) /\ Len(p1) = Len(l.p)
    BY <1>1, <2>1, <2>2, ExceptSeq DEF AnyText
  <2>b. p = [p1 EXCEPT ![pos + 1] = l.p[pos]]
    BY DEF p1, Swapped
  <2>. HIDE DEF p1, p, pos
  <2>c. pos + 1 \in 1..Len(p1)
    BY <2>1, <2>a
  <2>d. /\ [p1 EXCEPT ![pos + 1] = l.p[pos]] \in Seq(Character)
        /\ Len([p1 EXCEPT ![pos + 1] = l.p[pos]]) = Len(p1)
    BY <2>2, <2>a, <2>c, ExceptSeq
  <2>3. p \in AnyText /\ Len(p) = Len(l.p)
    BY <2>a, <2>b, <2>d DEF AnyText
  <2>4. point \in 0..Len(l.p)
    BY <1>1
  <2>e. TransposeChars(l) = [l EXCEPT !.p = p, !.point = point]
    BY <1>1, <1>2 DEF TransposeChars, p, pos
  <2>5. /\ TransposeChars(l).p = p /\ TransposeChars(l).point = point
        /\ TransposeChars(l).mark = l.mark
        /\ TransposeChars(l) \in [p : {p}, point : {point}, mark : {l.mark}]
    BY <2>e DEF SoundLine, Line
  <2>. HIDE DEF point
  <2>. QED BY <1>1, <1>2, <2>3, <2>4, <2>5 DEF SoundLine, Line, Sound
<1>3. CASE ~(l.point > 0 /\ Len(l.p) >= 2)
  BY <1>1, <1>3 DEF TransposeChars
<1>. QED BY <1>2, <1>3

LEMMA TransposeWordsSound ==
    ASSUME NEW l, SoundLine(l), ~Overlap(l)
    PROVE  SoundLine(TransposeWords(l))
<1>. DEFINE first == BSkipWord(l)
            gap == SkipWord(first)
            last == SkipWord(gap)
            second == BSkipWord(last)
            i == first.point
            j == gap.point
            k == second.point
            m == last.point
<1>1. /\ l.point \in 0..Len(l.p) /\ Len(l.p) \in Nat /\ l.p \in AnyText
      /\ l.mark \in Int /\ l.mark <= Len(l.p)
  BY DEF SoundLine, Line, Sound, AnyText
<1>2. /\ SoundLine(first) /\ first.p = l.p /\ i \in 0..l.point
      /\ i = 0 \/ WordBegin(l.p, i)
  BY WordBegins
<1>3. SoundLine(gap) /\ gap.p = l.p /\ j \in i..Len(l.p)
  <2>. HIDE DEF first
  <2>. QED BY <1>2, WordEnds
<1>4. SoundLine(last) /\ last.p = l.p /\ m \in j..Len(l.p)
  <2>. HIDE DEF gap
  <2>. QED BY <1>3, WordEnds
<1>5. /\ k \in 0..m
      /\ \A b \in 0..m - 1 : WordBegin(l.p, b) => b <= k
  <2>. HIDE DEF last
  <2>. QED BY <1>4, WordBegins
<1>6. Words(l) = [first |-> first, gap |-> gap, last |-> last,
                  second |-> second]
  BY DEF Words
<1>. HIDE DEF first, gap, last, second
<1>7. TransposeWords(l) =
        IF l.point = Len(l.p) \/ Len(l.p) < 3 \/ m = j \/ k = i THEN l
        ELSE [l EXCEPT !.p = SubSeq(@, 1, i) \o SubSeq(@, k + 1, m)
                             \o SubSeq(@, j + 1, k) \o SubSeq(@, i + 1, j)
                             \o SubSeq(@, m + 1, Len(@)),
                       !.point = m]
  BY <1>6 DEF TransposeWords
<1>8. CASE l.point = Len(l.p) \/ Len(l.p) < 3 \/ m = j \/ k = i
  BY <1>7, <1>8
<1>9. CASE ~(l.point = Len(l.p) \/ Len(l.p) < 3 \/ m = j \/ k = i)
  <2>1. ~(i < k /\ k < j)
    BY <1>1, <1>6, <1>9 DEF Overlap
  <2>. HIDE DEF i, j, k, m
  <2>2. i \in Int /\ j \in Int /\ k \in Int /\ m \in Int
    BY <1>1, <1>2, <1>3, <1>4, <1>5
  <2>3. i <= k
    BY <1>2, <1>3, <1>4, <1>5, <1>9, <2>2
  <2>4. 0 <= i /\ i <= j /\ j <= k /\ k <= m /\ m <= Len(l.p)
    BY <1>1, <1>2, <1>3, <1>4, <1>5, <1>9, <2>1, <2>2, <2>3
  <2>. DEFINE a == SubSeq(l.p, 1, i)
              b == SubSeq(l.p, k + 1, m)
              c == SubSeq(l.p, j + 1, k)
              d == SubSeq(l.p, i + 1, j)
              e == SubSeq(l.p, m + 1, Len(l.p))
              p == a \o b \o c \o d \o e
  <2>5. /\ a \in AnyText /\ Len(a) = i /\ b \in AnyText /\ Len(b) = m - k
        /\ c \in AnyText /\ Len(c) = k - j /\ d \in AnyText /\ Len(d) = j - i
        /\ e \in AnyText /\ Len(e) = Len(l.p) - m
    <3>. DEFINE N == Len(l.p)
    <3>1. \A x, y \in 0..N : x <= y =>
            SubSeq(l.p, x + 1, y) \in AnyText /\ Len(SubSeq(l.p, x + 1, y)) = y - x
      BY <1>1 DEF AnyText
    <3>. HIDE DEF N
    <3>2. i \in 0..N /\ j \in 0..N /\ k \in 0..N /\ m \in 0..N /\ N \in 0..N
          /\ 0 \in 0..N /\ 0 + 1 = 1
      BY <1>1, <2>2, <2>4 DEF N
    <3>3. SubSeq(l.p, 0 + 1, i) \in AnyText /\ Len(SubSeq(l.p, 0 + 1, i)) = i - 0
      BY <2>2, <2>4, <3>1, <3>2
    <3>4. a \in AnyText /\ Len(a) = i
      BY <2>2, <3>2, <3>3
    <3>. QED BY <2>4, <3>1, <3>2, <3>4 DEF N
  <2>. HIDE DEF a, b, c, d, e
  <2>6. p \in AnyText /\ Len(p) = Len(l.p)
    <3>1. \A x, y \in AnyText : x \o y \in AnyText
                                /\ Len(x \o y) = Len(x) + Len(y)
      BY DEF AnyText
    <3>2. a \o b \in AnyText /\ Len(a \o b) = i + (m - k)
      BY <2>5, <3>1
    <3>3. a \o b \o c \in AnyText /\ Len(a \o b \o c) = i + (m - k) + (k - j)
      BY <2>5, <3>1, <3>2
    <3>4. /\ a \o b \o c \o d \in AnyText
          /\ Len(a \o b \o c \o d) = i + (m - k) + (k - j) + (j - i)
      BY <2>5, <3>1, <3>3
    <3>5. /\ p \in AnyText
          /\ Len(p) = i + (m - k) + (k - j) + (j - i) + (Len(l.p) - m)
      <4>. DEFINE f == a \o b \o c \o d
      <4>1. f \in AnyText /\ Len(f) = i + (m - k) + (k - j) + (j - i)
        BY <3>4
      <4>2. p = f \o e
        OBVIOUS
      <4>. HIDE DEF f, p
      <4>3. p \in AnyText /\ Len(p) = Len(f) + Len(e)
        BY <2>5, <3>1, <4>1, <4>2
      <4>. QED BY <2>5, <4>1, <4>3
    <3>. HIDE DEF p
    <3>. QED BY <1>1, <2>2, <3>5
  <2>7. TransposeWords(l) = [l EXCEPT !.p = p, !.point = m]
    BY <1>7, <1>9 DEF a, b, c, d, e
  <2>. HIDE DEF p
  <2>8. /\ TransposeWords(l).p = p /\ TransposeWords(l).point = m
        /\ TransposeWords(l).mark = l.mark
        /\ TransposeWords(l) \in [p : {p}, point : {m}, mark : {l.mark}]
    BY <2>7 DEF SoundLine, Line
  <2>. QED BY <1>1, <2>2, <2>4, <2>6, <2>8 DEF SoundLine, Line, Sound
<1>. QED BY <1>8, <1>9

\* What is selected is cut out, wherever the cursor is.
LEMMA CutSound ==
    ASSUME NEW l, SoundLine(l)
    PROVE  /\ SoundLine(Cut(l))
           /\ ~HasSelection(l) => Cut(l) = l
<1>. DEFINE beg == Min2(l.mark, l.point)
            end == l.mark + l.point - beg
            at == [l EXCEPT !.point = beg]
            left == Removed(at, end - beg)
<1>1. /\ l.point \in 0..Len(l.p) /\ Len(l.p) \in Nat
      /\ l.mark \in Int /\ l.mark <= Len(l.p)
  BY DEF SoundLine, Line, Sound, AnyText
<1>2. CASE HasSelection(l)
  <2>1. beg \in 0..Len(l.p) /\ end - beg \in Nat
    BY <1>1, <1>2 DEF HasSelection, Min2
  <2>2. SoundLine(at)
    BY <2>1, MovedSound
  <2>3. SoundLine(left)
    <3>. HIDE DEF at, end, beg
    <3>. QED BY <2>1, <2>2, RemovedSound
  <2>4. Cut(l) = ClearMark(left)
    BY <1>2 DEF Cut
  <2>. HIDE DEF left
  <2>. QED BY <1>2, <2>3, <2>4, SimpleMoves
<1>3. CASE ~HasSelection(l)
  BY <1>3 DEF Cut
<1>. QED BY <1>2, <1>3

LEMMA TextSound ==
    ASSUME NEW s \in AnyText
    PROVE  /\ SoundLine(Text(s)) /\ Text(s).p = s /\ Text(s).point = Len(s)
           /\ \A i \in 0..Len(s) : SoundLine([Text(s) EXCEPT !.point = i])
BY DEF Text, Unmarked, SoundLine, Line, Sound, AnyText

\* What is put at the end of a text comes after it.
LEMMA InsertedAtEnd ==
    ASSUME NEW l, SoundLine(l), l.point = Len(l.p), NEW s \in AnyText,
           NEW move \in BOOLEAN
    PROVE  /\ Inserted(l, s, move).p = l.p \o s
           /\ move => Inserted(l, s, move).point = Len(l.p \o s)
<1>1. /\ l.p \in AnyText /\ Len(l.p) \in Nat /\ Len(s) \in Nat
      /\ l.point = Len(l.p)
  BY DEF SoundLine, Line, AnyText
<1>2. SubSeq(l.p, 1, Len(l.p)) = l.p
  BY <1>1 DEF AnyText
<1>3. SubSeq(l.p, Len(l.p) + 1, Len(l.p)) = <<>>
  BY <1>1 DEF AnyText
<1>4. l.p \o s \in AnyText /\ Len(l.p \o s) = Len(l.p) + Len(s)
  BY <1>1 DEF AnyText
<1>5. (l.p \o s) \o <<>> = l.p \o s
  BY <1>4 DEF AnyText
<1>6. Inserted(l, s, move).p = l.p \o s \o <<>>
  BY <1>1, <1>2, <1>3 DEF Inserted, SoundLine, Line
<1>7. Inserted(l, s, move).point = IF move THEN l.point + Len(s) ELSE l.point
  BY DEF Inserted, SoundLine, Line
<1>. QED BY <1>1, <1>4, <1>5, <1>6, <1>7

LEMMA CompletedSound ==
    ASSUME NEW beg \in AnyText, NEW comp \in AnyText, NEW end \in AnyText
    PROVE  /\ SoundLine(Completed(beg, comp, end))
           /\ Completed(beg, comp, end).p = beg \o comp \o end
<1>. DEFINE l0 == Text(<<>>)
            l1 == Inserted(l0, beg, TRUE)
            l2 == Inserted(l1, comp, TRUE)
            l3 == Inserted(l2, end, FALSE)
<1>0. <<>> \in AnyText /\ <<>> \o beg = beg
  BY DEF AnyText
<1>1. SoundLine(l0) /\ l0.p = <<>> /\ l0.point = Len(<<>>)
  BY <1>0, TextSound
<1>2. SoundLine(l1) /\ l1.p = beg /\ l1.point = Len(beg)
  <2>. HIDE DEF l0
  <2>1. /\ SoundLine(l1) /\ l1.p = <<>> \o beg
        /\ l1.point = Len(<<>> \o beg)
    BY <1>0, <1>1, InsertedSound, InsertedAtEnd
  <2>. QED BY <1>0, <2>1
<1>3. SoundLine(l2) /\ l2.p = beg \o comp /\ l2.point = Len(beg \o comp)
  <2>. HIDE DEF l1
  <2>. QED BY <1>2, InsertedSound, InsertedAtEnd
<1>4. SoundLine(l3) /\ l3.p = beg \o comp \o end
  <2>. HIDE DEF l2
  <2>. QED BY <1>3, InsertedSound, InsertedAtEnd
<1>. QED BY <1>4 DEF Completed

\* Every key leaves a line that can be drawn, and one that tells of no change
\* leaves the text alone.
LEMMA EditsSound ==
    ASSUME NEW l, SoundLine(l), NEW e \in Edits(l)
    PROVE  /\ SoundLine(e[1]) /\ e[2] \in {0, 1, 2}
           /\ e[2] = 0 => e[1].p = l.p
<1>1. /\ l.point \in 0..Len(l.p) /\ Len(l.p) \in Nat
  BY DEF SoundLine, Line, Sound, AnyText
<1>3. /\ SoundLine(Delete(l))
      /\ ~(l.point < Len(l.p)) => Delete(l) = l
  BY <1>1, RemovedSound DEF Delete
<1>4. /\ SoundLine(Backspace(l))
      /\ ~(l.point > 0) => Backspace(l) = l
  <2>1. SoundLine(Back(l))
    BY SimpleMoves
  <2>. HIDE DEF SoundLine
  <2>. QED BY <1>1, <2>1, RemovedSound DEF Backspace
<1>5. SoundLine(KillToEol(l))
  BY <1>1, RemovedSound DEF KillToEol
<1>6. SoundLine(Bol(l)) /\ Bol(l).point = 0 /\ Bol(l).p = l.p
  BY SimpleMoves DEF Bol, SoundLine, Line
<1>7. SoundLine(KillToBol(l))
  BY <1>1, <1>6, RemovedSound DEF KillToBol
<1>8. SoundLine(KillLine(l))
  BY <1>1, <1>6, RemovedSound DEF KillLine, KillToEol
<1>9. /\ SoundLine(KillWord(l))
      /\ ~(SkipWord(l).point # l.point) => KillWord(l) = l
  <2>1. SkipWord(l).point - l.point \in Nat
    BY <1>1, WordEnds
  <2>. QED BY <1>1, <2>1, RemovedSound DEF KillWord
<1>10. /\ SoundLine(BKillWord(l))
       /\ ~(BSkipWord(l).point # l.point) => BKillWord(l).p = l.p
  <2>1. /\ l.point - BSkipWord(l).point \in Nat
        /\ SoundLine(BSkipWord(l)) /\ BSkipWord(l).p = l.p
    BY <1>1, WordBegins
  <2>2. l.point = BSkipWord(l).point => l.point - BSkipWord(l).point = 0
    BY <1>1
  <2>. QED BY <1>1, <2>1, <2>2, RemovedSound DEF BKillWord
<1>11. ~Overlap(l) => SoundLine(TransposeWords(l))
  BY TransposeWordsSound
<1>12. \A r \in {Back(l), Forward(l), Bol(l), Eol(l), SkipWord(l),
                  BSkipWord(l), SetMark(l), ClearMark(l), Copy(l)} :
         SoundLine(r) /\ r.p = l.p
  BY SimpleMoves, WordBegins, WordEnds
<1>13. /\ SoundLine(TransposeChars(l))
       /\ ~(l.point > 0 /\ Len(l.p) >= 2) => TransposeChars(l) = l
  BY TransposeCharsSound
<1>. HIDE DEF SoundLine
<1>. DEFINE Others == {Back(l), Forward(l), Bol(l), Eol(l), SkipWord(l),
                       BSkipWord(l), SetMark(l), ClearMark(l), Copy(l)}
<1>a. \/ \E c \in Chars : e = <<Inserted(l, <<c>>, TRUE), 1>>
      \/ e = <<Delete(l), IF l.point < Len(l.p) THEN 1 ELSE 0>>
      \/ e = <<Backspace(l), IF l.point > 0 THEN 1 ELSE 0>>
      \/ e = <<TransposeChars(l),
              IF l.point > 0 /\ Len(l.p) >= 2 THEN 1 ELSE 0>>
      \/ e = <<KillToEol(l), 1>> \/ e = <<KillToBol(l), 1>>
      \/ e = <<KillLine(l), 2>>
      \/ e = <<KillWord(l), IF SkipWord(l).point # l.point THEN 1 ELSE 0>>
      \/ e = <<BKillWord(l), IF BSkipWord(l).point # l.point THEN 1 ELSE 0>>
      \/ /\ ~Overlap(l)
         /\ e = <<TransposeWords(l), IF TransposeWords(l) # l THEN 1 ELSE 0>>
      \/ \E r \in Others : e = <<r, 0>>
  BY DEF Edits
<1>. DEFINE Fine == /\ SoundLine(e[1]) /\ e[2] \in {0, 1, 2}
                    /\ e[2] = 0 => e[1].p = l.p
<1>b. ASSUME NEW r, SoundLine(r), NEW c \in BOOLEAN, ~c => r.p = l.p,
             e = <<r, IF c THEN 1 ELSE 0>>
      PROVE  Fine
  BY <1>b
<1>c. ASSUME NEW r, SoundLine(r), NEW n \in {1, 2}, e = <<r, n>> PROVE Fine
  BY <1>c
<1>d. ASSUME NEW r, SoundLine(r), r.p = l.p, e = <<r, 0>> PROVE Fine
  BY <1>d
<1>. HIDE DEF Fine, Others
<1>e. ASSUME NEW c \in Chars, e = <<Inserted(l, <<c>>, TRUE), 1>> PROVE Fine
  <2>1. <<c>> \in AnyText
    BY TextsAssumption DEF AnyText
  <2>2. SoundLine(Inserted(l, <<c>>, TRUE))
    BY <2>1, InsertedSound
  <2>. QED BY <1>e, <2>2, <1>c
<1>f. ASSUME e = <<Delete(l), IF l.point < Len(l.p) THEN 1 ELSE 0>> PROVE Fine
  BY <1>f, <1>3, <1>b
<1>g. ASSUME e = <<Backspace(l), IF l.point > 0 THEN 1 ELSE 0>> PROVE Fine
  BY <1>g, <1>4, <1>b
<1>h. ASSUME e = <<TransposeChars(l),
                   IF l.point > 0 /\ Len(l.p) >= 2 THEN 1 ELSE 0>>
      PROVE  Fine
  BY <1>h, <1>13, <1>b
<1>i. ASSUME \/ e = <<KillToEol(l), 1>> \/ e = <<KillToBol(l), 1>>
             \/ e = <<KillLine(l), 2>>
      PROVE  Fine
  BY <1>i, <1>5, <1>7, <1>8, <1>c
<1>j. ASSUME e = <<KillWord(l), IF SkipWord(l).point # l.point THEN 1 ELSE 0>>
      PROVE  Fine
  BY <1>j, <1>9, <1>b
<1>k. ASSUME e = <<BKillWord(l), IF BSkipWord(l).point # l.point THEN 1 ELSE 0>>
      PROVE  Fine
  BY <1>k, <1>10, <1>b
<1>l. ASSUME ~Overlap(l),
             e = <<TransposeWords(l), IF TransposeWords(l) # l THEN 1 ELSE 0>>
      PROVE  Fine
  BY <1>l, <1>11, <1>b
<1>m. ASSUME NEW r \in Others, e = <<r, 0>> PROVE Fine
  BY <1>m, <1>12, <1>d DEF Others
<1>n. Fine
  BY <1>a, <1>e, <1>f, <1>g, <1>h, <1>i, <1>j, <1>k, <1>l, <1>m
<1>. QED BY <1>n DEF Fine

-----------------------------------------------------------------------------
(* The history's ring holds the entries its indices name.                  *)

Ring == [head : 0..HISTORY_SIZE, count : 0..HISTORY_SIZE,
         hist : [Slots -> AnyEntry \cup {NoEntry}]]
SoundHistory(h) ==
    h \in Ring /\ \A i \in 0..h.count - 1 : Entry(h, i) \in AnyEntry

LEMMA Modulo ==
    ASSUME NEW a \in 0..2 * HISTORY_SIZE - 1
    PROVE  a % HISTORY_SIZE = IF a < HISTORY_SIZE THEN a ELSE a - HISTORY_SIZE
BY HistoryAssumption

LEMMA IndexIs ==
    ASSUME NEW h \in Ring, NEW i \in 0..HISTORY_SIZE - 1
    PROVE  /\ Index(h, i) = IF h.head + i < HISTORY_SIZE THEN h.head + i
                            ELSE h.head + i - HISTORY_SIZE
           /\ Index(h, i) \in Slots
<1>1. h.head \in 0..HISTORY_SIZE /\ HISTORY_SIZE \in Nat \ {0}
  BY HistoryAssumption DEF Ring
<1>2. h.head + i \in 0..2 * HISTORY_SIZE - 1
  BY <1>1
<1>3. Index(h, i) = IF h.head + i < HISTORY_SIZE THEN h.head + i
                    ELSE h.head + i - HISTORY_SIZE
  <2>. DEFINE a == h.head + i
  <2>1. Index(h, i) = a % HISTORY_SIZE
    BY DEF Index
  <2>2. a \in 0..2 * HISTORY_SIZE - 1
    BY <1>2
  <2>. HIDE DEF a
  <2>3. a % HISTORY_SIZE = IF a < HISTORY_SIZE THEN a ELSE a - HISTORY_SIZE
    BY <2>2, Modulo
  <2>4. Index(h, i) = IF a < HISTORY_SIZE THEN a ELSE a - HISTORY_SIZE
    BY <2>1, <2>3
  <2>. QED BY <1>1, <2>4 DEF a
<1>. QED BY <1>1, <1>3 DEF Slots

LEMMA SearchFinds ==
    ASSUME NEW h \in Ring, NEW from \in Int, NEW bwd \in BOOLEAN, NEW wanted
    PROVE  LET n == Search(h, from, bwd, wanted)
           IN /\ n \in -1..h.count - 1
              /\ n >= 0 => /\ Entry(h, n) \in wanted
                           /\ IF bwd THEN n <= from ELSE n >= from
              /\ n = -1 /\ from = 0 /\ ~bwd =>
                    \A i \in 0..h.count - 1 : Entry(h, i) \notin wanted
              /\ n >= 0 /\ ~bwd =>
                    \A i \in 0..h.count - 1 :
                        i >= from /\ Entry(h, i) \in wanted => n <= i
<1>. DEFINE found == {i \in 0..h.count - 1 :
                        /\ HasIndex(h, from)
                        /\ IF bwd THEN i <= from ELSE i >= from
                        /\ Entry(h, i) \in wanted}
            best == CHOOSE i \in found :
                      \A j \in found : IF bwd THEN j <= i ELSE i <= j
            n == Search(h, from, bwd, wanted)
<1>1. h.count \in Nat
  BY DEF Ring
<1>2. found \in SUBSET Int /\ IsFiniteSet(found)
  <2>1. IsFiniteSet(0..h.count - 1)
    BY <1>1, FS_Interval
  <2>2. found \subseteq 0..h.count - 1 /\ found \in SUBSET Int
    OBVIOUS
  <2>. HIDE DEF found
  <2>. QED BY <2>1, <2>2, FS_Subset
<1>3. n = IF found = {} THEN -1 ELSE best
  BY DEF Search
<1>4. \A i \in found : /\ i \in 0..h.count - 1 /\ Entry(h, i) \in wanted
                       /\ IF bwd THEN i <= from ELSE i >= from
  OBVIOUS
<1>5. from = 0 /\ ~bwd =>
        \A i \in 0..h.count - 1 : Entry(h, i) \in wanted => i \in found
  BY <1>1 DEF HasIndex
<1>6. ~bwd /\ found # {} =>
        \A i \in 0..h.count - 1 :
            i >= from /\ Entry(h, i) \in wanted => i \in found
  OBVIOUS
<1>. HIDE DEF found
<1>7. found # {} => \E i \in found :
                       \A j \in found : IF bwd THEN j <= i ELSE i <= j
  <2>1. CASE bwd
    BY <1>2, <2>1, GreatestInt
  <2>2. CASE ~bwd
    BY <1>2, <2>2, LeastInt
  <2>. QED BY <2>1, <2>2
<1>8. found # {} =>
        best \in found /\ \A j \in found : IF bwd THEN j <= best ELSE best <= j
  BY <1>7
<1>. HIDE DEF best, n
<1>9. CASE found = {}
  BY <1>1, <1>3, <1>5, <1>9 DEF n
<1>10. CASE found # {}
  <2>1. n \in found /\ n \in 0..h.count - 1
    BY <1>3, <1>4, <1>8, <1>10
  <2>2. ~bwd => \A j \in found : n <= j
    BY <1>3, <1>8, <1>10
  <2>. QED BY <1>1, <1>4, <1>6, <1>10, <2>1, <2>2 DEF n
<1>. QED BY <1>9, <1>10

\* An entry before all others; of a full ring the last one is lost.
LEMMA InFrontSound ==
    ASSUME NEW h, SoundHistory(h), NEW e \in AnyEntry
    PROVE  /\ SoundHistory(InFront(h, e))
           /\ InFront(h, e).count = Min2(h.count + 1, HISTORY_SIZE)
           /\ Entry(InFront(h, e), 0) = e
           /\ \A i \in 1..InFront(h, e).count - 1 :
                 Entry(InFront(h, e), i) = Entry(h, i - 1)
<1>. DEFINE r == InFront(h, e)
            head == IF h.head = 0 THEN HISTORY_SIZE - 1 ELSE h.head - 1
            count == IF h.count = HISTORY_SIZE THEN h.count ELSE h.count + 1
            ring == [h.hist EXCEPT ![head] = e]
<1>1. /\ h.head \in 0..HISTORY_SIZE /\ h.count \in 0..HISTORY_SIZE
      /\ h.hist \in [Slots -> AnyEntry \cup {NoEntry}]
      /\ HISTORY_SIZE \in Nat \ {0}
  BY HistoryAssumption DEF SoundHistory, Ring
<1>2. /\ head \in Slots /\ count \in 1..HISTORY_SIZE
      /\ count = Min2(h.count + 1, HISTORY_SIZE)
  BY <1>1 DEF Slots, Min2
<1>3. ring \in [Slots -> AnyEntry \cup {NoEntry}]
  BY <1>1
<1>4. r.head = head /\ r.count = count /\ r.hist = ring /\ r \in Ring
  <2>1. r = [h EXCEPT !.head = head, !.count = count, !.hist = ring]
    BY DEF InFront
  <2>2. head \in 0..HISTORY_SIZE /\ count \in 0..HISTORY_SIZE
    BY <1>1, <1>2 DEF Slots
  <2>. HIDE DEF head, count, ring, r
  <2>. QED BY <1>3, <2>1, <2>2 DEF SoundHistory, Ring
<1>. HIDE DEF r, count
<1>5. Entry(r, 0) = e
  <2>1. Index(r, 0) = head
    <3>1. /\ head \in 0..HISTORY_SIZE - 1 /\ head = r.head
          /\ count \in 1..HISTORY_SIZE
      BY <1>1, <1>2, <1>4 DEF Slots
    <3>. DEFINE z == 0
    <3>2. z \in 0..HISTORY_SIZE - 1 /\ head + z = head /\ head < HISTORY_SIZE
      BY <3>1, HistoryAssumption
    <3>. HIDE DEF head, z
    <3>3. Index(r, z) = IF r.head + z < HISTORY_SIZE THEN r.head + z
                        ELSE r.head + z - HISTORY_SIZE
      BY <1>4, <3>2, IndexIs
    <3>4. Index(r, z) = head
      BY <3>1, <3>2, <3>3
    <3>. QED BY <3>4 DEF z
  <2>. QED BY <1>1, <1>2, <1>4, <2>1 DEF Entry
<1>6. ASSUME NEW i \in 1..count - 1 PROVE Entry(r, i) = Entry(h, i - 1)
  <2>1. i \in 0..HISTORY_SIZE - 1 /\ i - 1 \in 0..HISTORY_SIZE - 1 /\ i # 0
    BY <1>1, <1>2
  <2>2. /\ Index(r, i) = IF head + i < HISTORY_SIZE THEN head + i
                         ELSE head + i - HISTORY_SIZE
        /\ Index(h, i - 1) = IF h.head + (i - 1) < HISTORY_SIZE
                             THEN h.head + (i - 1)
                             ELSE h.head + (i - 1) - HISTORY_SIZE
        /\ Index(h, i - 1) \in Slots
    BY <1>4, <2>1, IndexIs DEF SoundHistory
  <2>3. Index(r, i) = Index(h, i - 1) /\ Index(r, i) # head
    <3>1. /\ i \in Int /\ h.head \in Int /\ HISTORY_SIZE \in Int /\ i >= 1
          /\ i < HISTORY_SIZE /\ 0 <= h.head /\ h.head <= HISTORY_SIZE
      BY <1>1, <2>1
    <3>2. CASE h.head = 0
      <4>1. head = HISTORY_SIZE - 1
        BY <3>2
      <4>. HIDE DEF head
      <4>. QED BY <2>2, <3>1, <3>2, <4>1
    <3>3. CASE h.head # 0
      <4>1. head = h.head - 1
        BY <3>3
      <4>. HIDE DEF head
      <4>. QED BY <2>2, <3>1, <3>3, <4>1
    <3>. QED BY <3>2, <3>3
  <2>. QED BY <1>1, <1>4, <2>2, <2>3 DEF Entry
<1>7. ASSUME NEW i \in 0..count - 1 PROVE Entry(r, i) \in AnyEntry
  <2>1. i = 0 \/ (i \in 1..count - 1 /\ i - 1 \in 0..h.count - 1)
    BY <1>1 DEF count
  <2>. QED BY <1>5, <1>6, <2>1 DEF SoundHistory
<1>. QED BY <1>2, <1>4, <1>5, <1>6, <1>7 DEF SoundHistory, r

\* An entry taken out, and those after it in their new places.
LEMMA WithoutSound ==
    ASSUME NEW h, SoundHistory(h), NEW n \in 0..h.count - 1
    PROVE  /\ SoundHistory(Without(h, n))
           /\ Without(h, n).count = h.count - 1
           /\ \A i \in 0..h.count - 2 : Entry(Without(h, n), i) =
                    IF i < n THEN Entry(h, i) ELSE Entry(h, i + 1)
<1>. DEFINE r == Without(h, n)
            Moves(s) == \E i \in n..h.count - 2 : Index(h, i) = s
            ring == [s \in Slots |->
                       IF Moves(s) THEN h.hist[(s + 1) % HISTORY_SIZE]
                       ELSE IF s = Index(h, h.count - 1) THEN NoEntry
                       ELSE h.hist[s]]
<1>1. /\ h.head \in 0..HISTORY_SIZE /\ h.count \in 0..HISTORY_SIZE
      /\ h.hist \in [Slots -> AnyEntry \cup {NoEntry}]
      /\ HISTORY_SIZE \in Nat \ {0} /\ h \in Ring
  BY HistoryAssumption DEF SoundHistory, Ring
<1>2. ASSUME NEW s \in Slots
      PROVE  (s + 1) % HISTORY_SIZE = IF s = HISTORY_SIZE - 1 THEN 0 ELSE s + 1
  <2>. DEFINE a == s + 1
  <2>1. a \in 0..2 * HISTORY_SIZE - 1
    BY <1>1 DEF Slots
  <2>. HIDE DEF a
  <2>2. a % HISTORY_SIZE = IF a < HISTORY_SIZE THEN a ELSE a - HISTORY_SIZE
    BY <2>1, Modulo
  <2>. QED BY <1>1, <2>2 DEF a, Slots
<1>3. ring \in [Slots -> AnyEntry \cup {NoEntry}]
  <2>. HIDE DEF Moves
  <2>1. \A s \in Slots : (s + 1) % HISTORY_SIZE \in Slots
    BY <1>1, <1>2 DEF Slots
  <2>. QED BY <1>1, <2>1
<1>4. r.head = h.head /\ r.count = h.count - 1 /\ r.hist = ring /\ r \in Ring
  <2>1. r = [h EXCEPT !.count = h.count - 1, !.hist = ring]
    BY DEF Without
  <2>2. h.count - 1 \in 0..HISTORY_SIZE
    BY <1>1
  <2>. HIDE DEF ring, r
  <2>. QED BY <1>1, <1>3, <2>1, <2>2 DEF Ring
<1>5. ASSUME NEW i \in 0..h.count - 2
      PROVE  Entry(r, i) = IF i < n THEN Entry(h, i) ELSE Entry(h, i + 1)
  <2>1. /\ i \in 0..HISTORY_SIZE - 1 /\ i + 1 \in 0..HISTORY_SIZE - 1
        /\ h.count - 1 \in 0..HISTORY_SIZE - 1
    BY <1>1
  <2>2. \A k \in 0..HISTORY_SIZE - 1 :
          /\ Index(h, k) = IF h.head + k < HISTORY_SIZE THEN h.head + k
                           ELSE h.head + k - HISTORY_SIZE
          /\ Index(h, k) \in Slots
    BY <1>1, IndexIs
  <2>3. Index(r, i) = Index(h, i)
    BY <1>4 DEF Index
  <2>4. (Index(h, i) + 1) % HISTORY_SIZE = Index(h, i + 1)
    <3>. DEFINE s == Index(h, i)
    <3>1. s \in Slots
      BY <2>1, <2>2
    <3>2. (s + 1) % HISTORY_SIZE = IF s = HISTORY_SIZE - 1 THEN 0 ELSE s + 1
      BY <1>2, <3>1
    <3>3. /\ s = IF h.head + i < HISTORY_SIZE THEN h.head + i
                 ELSE h.head + i - HISTORY_SIZE
          /\ Index(h, i + 1) = IF h.head + (i + 1) < HISTORY_SIZE
                               THEN h.head + (i + 1)
                               ELSE h.head + (i + 1) - HISTORY_SIZE
      BY <2>1, <2>2
    <3>4. /\ i \in Int /\ h.head \in Int /\ HISTORY_SIZE \in Int /\ i >= 0
          /\ i < HISTORY_SIZE - 1 /\ 0 <= h.head /\ h.head <= HISTORY_SIZE
      BY <1>1, <2>1
    <3>. HIDE DEF s
    <3>5. (s + 1) % HISTORY_SIZE = Index(h, i + 1)
      BY <3>2, <3>3, <3>4
    <3>. QED BY <3>5 DEF s
  <2>5. Index(h, i) # Index(h, h.count - 1)
    BY <1>1, <2>1, <2>2
  <2>6. Moves(Index(h, i)) <=> i >= n
    <3>1. ASSUME NEW k \in n..h.count - 2, Index(h, k) = Index(h, i)
          PROVE  k = i
      <4>1. k \in 0..HISTORY_SIZE - 1
        BY <1>1
      <4>. QED BY <1>1, <2>1, <2>2, <3>1, <4>1
    <3>2. ASSUME i >= n PROVE Moves(Index(h, i))
      BY <3>2
    <3>. QED BY <3>1, <3>2
  <2>. HIDE DEF Moves
  <2>7. Entry(r, i) = IF Moves(Index(h, i))
                      THEN h.hist[(Index(h, i) + 1) % HISTORY_SIZE]
                      ELSE h.hist[Index(h, i)]
    BY <1>4, <2>1, <2>2, <2>3, <2>5 DEF Entry
  <2>. QED BY <2>4, <2>6, <2>7 DEF Entry
<1>6. ASSUME NEW i \in 0..r.count - 1 PROVE Entry(r, i) \in AnyEntry
  <2>. HIDE DEF r
  <2>1. i \in 0..h.count - 2 /\ i \in 0..h.count - 1 /\ i + 1 \in 0..h.count - 1
    BY <1>1, <1>4
  <2>2. Entry(h, i) \in AnyEntry /\ Entry(h, i + 1) \in AnyEntry
    BY <2>1 DEF SoundHistory
  <2>. QED BY <1>5, <2>1, <2>2
<1>. HIDE DEF r
<1>. QED BY <1>4, <1>5, <1>6 DEF SoundHistory, r

LEMMA TableIs ==
    ASSUME NEW h, SoundHistory(h)
    PROVE  /\ Table(h) \in Seq(AnyEntry) /\ Len(Table(h)) = h.count
           /\ Len(Table(h)) \in 0..HISTORY_SIZE
           /\ \A i \in 1..h.count : Table(h)[i] = Entry(h, i - 1)
<1>1. h.count \in 0..HISTORY_SIZE /\ HISTORY_SIZE \in Nat
  BY HistoryAssumption DEF SoundHistory, Ring
<1>2. \A i \in 1..h.count : Entry(h, i - 1) \in AnyEntry
  BY <1>1 DEF SoundHistory
<1>. QED BY <1>1, <1>2 DEF Table

LEMMA OthersIs ==
    ASSUME NEW s, NEW e
    PROVE  Recent!Others(s, e) = IF e \in ToSet(s) THEN Unlink(s, e) ELSE s
BY DEF Recent!Others, Recent!ToSet, Recent!Unlink, Recent!RemoveAt, ToSet,
       Unlink, RemoveAt

\* What entering something into a list without repetitions makes of it.
LEMMA EnteredIs ==
    ASSUME NEW S, NEW s \in Seq(S), IsInjective(s), NEW e \in S
    PROVE  LET rest == Recent!Others(s, e)
               r == Recent!Entered(s, e)
           IN /\ rest \in Seq(S) /\ r \in Seq(S) /\ IsInjective(r)
              /\ Len(r) = Min2(Len(rest) + 1, HISTORY_SIZE)
              /\ r[1] = e /\ \A i \in 2..Len(r) : r[i] = rest[i - 1]
<1>. DEFINE rest == Recent!Others(s, e)
            all == <<e>> \o rest
            r == Recent!Entered(s, e)
            n == IF Len(all) < HISTORY_SIZE THEN Len(all) ELSE HISTORY_SIZE
<1>1. rest \in Seq(S) /\ IsInjective(rest) /\ e \notin ToSet(rest)
  <2>1. CASE e \in ToSet(s)
    <3>1. rest = Unlink(s, e)
      BY <2>1, OthersIs
    <3>2. ToSet(rest) = ToSet(s) \ {e} /\ rest \in Seq(S) /\ IsInjective(rest)
      BY <2>1, <3>1, UnlinkElements
    <3>. QED BY <3>2
  <2>2. CASE e \notin ToSet(s)
    BY <2>2, OthersIs
  <2>. QED BY <2>1, <2>2
<1>2. r = SubSeq(all, 1, n)
  BY DEF Recent!Entered, Recent!First
<1>. HIDE DEF rest, r
<1>3. /\ all \in Seq(S) /\ Len(all) = Len(rest) + 1 /\ all[1] = e
      /\ \A i \in 2..Len(all) : all[i] = rest[i - 1]
  <2>1. <<e>> \in Seq(S) /\ Len(<<e>>) = 1 /\ <<e>>[1] = e
    OBVIOUS
  <2>2. /\ all \in Seq(S) /\ Len(all) = 1 + Len(rest)
        /\ \A i \in 1..1 + Len(rest) : all[i] = IF i <= 1 THEN <<e>>[i]
                                               ELSE rest[i - 1]
    BY <1>1, <2>1, ConcatProperties
  <2>3. Len(rest) \in Nat
    BY <1>1
  <2>. HIDE DEF all
  <2>. QED BY <2>1, <2>2, <2>3
<1>4. Len(rest) \in Nat /\ n \in 1..Len(all) /\ n = Min2(Len(rest) + 1, HISTORY_SIZE)
  BY <1>1, <1>3, HistoryAssumption DEF Min2
<1>. HIDE DEF all, n
<1>5. r \in Seq(S) /\ Len(r) = n /\ \A i \in 1..n : r[i] = all[i]
  BY <1>2, <1>3, <1>4
<1>6. /\ r[1] = e /\ \A i \in 2..n : r[i] = rest[i - 1] /\ i - 1 \in 1..Len(rest)
  BY <1>3, <1>4, <1>5
<1>7. IsInjective(r)
  <2>. SUFFICES ASSUME NEW i \in 1..n, NEW j \in 1..n, r[i] = r[j]
                PROVE  i = j
    BY <1>5 DEF IsInjective
  <2>1. \A k \in 1..Len(rest) : rest[k] # e
    BY <1>1 DEF ToSet
  <2>2. CASE i = 1 \/ j = 1
    BY <1>4, <1>6, <2>1, <2>2
  <2>3. CASE i # 1 /\ j # 1
    <3>1. i \in 2..n /\ j \in 2..n
      BY <1>4, <2>3
    <3>2. rest[i - 1] = rest[j - 1] /\ i - 1 \in DOMAIN rest /\ j - 1 \in DOMAIN rest
      BY <1>1, <1>6, <3>1
    <3>3. i - 1 = j - 1
      BY <1>1, <3>2 DEF IsInjective
    <3>. QED BY <3>1, <3>3
  <2>. QED BY <2>2, <2>3
<1>8. \A i \in 2..Len(r) : r[i] = rest[i - 1]
  BY <1>5, <1>6
<1>. QED BY <1>1, <1>4, <1>5, <1>6, <1>7, <1>8 DEF rest, r

\* The position of what is taken out decides where the others come.
LEMMA OthersAre ==
    ASSUME NEW S, NEW s \in Seq(S), IsInjective(s), NEW k \in 1..Len(s)
    PROVE  LET rest == Recent!Others(s, s[k])
           IN /\ Len(rest) = Len(s) - 1
              /\ \A i \in 1..Len(s) - 1 :
                    rest[i] = IF i < k THEN s[i] ELSE s[i + 1]
<1>. DEFINE at == CHOOSE i \in DOMAIN s : s[i] = s[k]
<1>1. DOMAIN s = 1..Len(s)
  OBVIOUS
<1>2. at = k
  BY <1>1 DEF IsInjective
<1>3. Recent!Others(s, s[k]) = RemoveAt(s, at)
  <2>1. s[k] \in ToSet(s)
    BY <1>1 DEF ToSet
  <2>. QED BY <2>1, OthersIs DEF Unlink
<1>. HIDE DEF at
<1>. QED BY <1>2, <1>3, RemoveAtElements

LEMMA PushSound ==
    ASSUME NEW h, SoundHistory(h), NEW e \in AnyEntry
    PROVE  /\ SoundHistory(Push(h, e))
           /\ IsInjective(Table(h)) =>
                 Table(Push(h, e)) = Recent!Entered(Table(h), e)
<1>. DEFINE n == Search(h, 0, FALSE, {e})
            g == IF n > 0 THEN Without(h, n) ELSE h
            s == Table(h)
            rest == Recent!Others(s, e)
            new == Recent!Entered(s, e)
<1>1. /\ n \in -1..h.count - 1
      /\ n >= 0 => Entry(h, n) = e
      /\ n = -1 => \A i \in 0..h.count - 1 : Entry(h, i) # e
  <2>. DEFINE W == {e}
              from == 0
              bwd == FALSE
              k == Search(h, from, bwd, W)
  <2>1. h \in Ring /\ from \in Int /\ bwd \in BOOLEAN
    BY DEF SoundHistory
  <2>. HIDE DEF W, from, bwd
  <2>2. k >= 0 => Entry(h, k) \in W
    BY <2>1, SearchFinds
  <2>3. k = -1 /\ from = 0 /\ ~bwd => \A i \in 0..h.count - 1 : Entry(h, i) \notin W
    BY <2>1, SearchFinds
  <2>4. k \in -1..h.count - 1
    BY <2>1, SearchFinds
  <2>5. k = n /\ from = 0 /\ ~bwd
    BY DEF W, from, bwd
  <2>. HIDE DEF k, n
  <2>. QED BY <2>2, <2>3, <2>4, <2>5 DEF W
<1>2. Push(h, e) = IF n = 0 THEN h ELSE InFront(g, e)
  BY <1>1 DEF Push
<1>. HIDE DEF n
<1>3. h.count \in 0..HISTORY_SIZE /\ HISTORY_SIZE \in Nat \ {0}
  BY HistoryAssumption DEF SoundHistory, Ring
<1>4. /\ SoundHistory(g)
      /\ g.count = IF n > 0 THEN h.count - 1 ELSE h.count
      /\ n # 0 => \A i \in 0..g.count - 1 : Entry(g, i) =
            IF n = -1 \/ i < n THEN Entry(h, i) ELSE Entry(h, i + 1)
  <2>1. CASE n > 0
    <3>1. n \in 0..h.count - 1 /\ g = Without(h, n) /\ n # -1
      BY <1>1, <1>3, <2>1
    <3>2. /\ SoundHistory(g) /\ g.count = h.count - 1
          /\ \A i \in 0..h.count - 2 : Entry(g, i) =
               IF i < n THEN Entry(h, i) ELSE Entry(h, i + 1)
      BY <3>1, WithoutSound
    <3>3. g.count - 1 = h.count - 2
      BY <1>3, <3>2
    <3>. HIDE DEF g
    <3>. QED BY <2>1, <3>1, <3>2, <3>3
  <2>2. CASE ~(n > 0)
    BY <1>1, <2>2
  <2>. QED BY <2>1, <2>2
<1>. HIDE DEF g
<1>5. /\ SoundHistory(InFront(g, e))
      /\ InFront(g, e).count = Min2(g.count + 1, HISTORY_SIZE)
      /\ Entry(InFront(g, e), 0) = e
      /\ \A i \in 1..InFront(g, e).count - 1 :
             Entry(InFront(g, e), i) = Entry(g, i - 1)
  BY <1>4, InFrontSound
<1>6. ASSUME IsInjective(s) PROVE Table(Push(h, e)) = new
  <2>1. /\ s \in Seq(AnyEntry) /\ Len(s) = h.count
        /\ \A i \in 1..h.count : s[i] = Entry(h, i - 1)
    BY TableIs
  <2>. HIDE DEF s
  <2>2. /\ rest \in Seq(AnyEntry) /\ new \in Seq(AnyEntry)
        /\ Len(new) = Min2(Len(rest) + 1, HISTORY_SIZE)
        /\ new[1] = e /\ \A i \in 2..Len(new) : new[i] = rest[i - 1]
    BY <1>6, <2>1, EnteredIs
  <2>3. /\ Len(rest) = IF n >= 0 THEN h.count - 1 ELSE h.count
        /\ \A i \in 1..Len(rest) : rest[i] =
              IF n = -1 \/ i < n + 1 THEN Entry(h, i - 1) ELSE Entry(h, i)
    <3>1. CASE n = -1
      <4>1. e \notin ToSet(s)
        BY <1>1, <1>3, <2>1, <3>1 DEF ToSet
      <4>2. rest = s
        BY <4>1, OthersIs
      <4>. HIDE DEF rest
      <4>. QED BY <1>3, <2>1, <3>1, <4>2
    <3>2. CASE n # -1
      <4>1. n + 1 \in 1..Len(s) /\ s[n + 1] = e /\ n \in 0..h.count - 1
        BY <1>1, <1>3, <2>1, <3>2
      <4>. DEFINE k == n + 1
      <4>2. k \in 1..Len(s) /\ s[k] = e
        BY <4>1
      <4>. HIDE DEF k
      <4>3. /\ Len(rest) = Len(s) - 1
            /\ \A i \in 1..Len(s) - 1 :
                 rest[i] = IF i < k THEN s[i] ELSE s[i + 1]
        BY <1>6, <2>1, <4>2, OthersAre
      <4>. HIDE DEF rest
      <4>4. ASSUME NEW i \in 1..Len(rest)
            PROVE  rest[i] = IF i < n + 1 THEN Entry(h, i - 1) ELSE Entry(h, i)
        <5>1. /\ i \in 1..h.count /\ i + 1 \in 1..h.count /\ (i + 1) - 1 = i
              /\ i \in 1..Len(s) - 1
          BY <1>3, <2>1, <4>3
        <5>2. s[i] = Entry(h, i - 1) /\ s[i + 1] = Entry(h, i)
          BY <2>1, <5>1
        <5>. QED BY <4>3, <5>1, <5>2 DEF k
      <4>. QED BY <1>3, <2>1, <3>2, <4>1, <4>3, <4>4
    <3>. QED BY <3>1, <3>2
  <2>. HIDE DEF rest, new
  <2>4. CASE n = 0
    <3>1. Push(h, e) = h /\ s[1] = e /\ h.count >= 1
      BY <1>1, <1>2, <1>3, <2>1, <2>4
    <3>2. Len(new) = Len(s) /\ Len(s) = h.count /\ h.count \in Nat
      BY <1>3, <2>1, <2>2, <2>3, <2>4, <3>1 DEF Min2
    <3>3. ASSUME NEW i \in 1..Len(s) PROVE new[i] = s[i]
      <4>1. CASE i = 1
        BY <2>2, <3>1, <4>1
      <4>2. CASE i # 1
        <5>1. i \in 2..Len(new) /\ i - 1 \in 1..Len(rest) /\ i \in 1..h.count
              /\ ~(i - 1 < n + 1) /\ n # -1
          BY <2>1, <2>3, <2>4, <3>2, <4>2
        <5>2. new[i] = rest[i - 1] /\ rest[i - 1] = Entry(h, i - 1)
          BY <2>2, <2>3, <5>1
        <5>. QED BY <2>1, <5>1, <5>2
      <4>. QED BY <4>1, <4>2
    <3>4. new = s
      BY <2>1, <2>2, <3>2, <3>3, SeqEqual
    <3>. QED BY <3>1, <3>4 DEF s
  <2>5. CASE n # 0
    <3>. DEFINE r == InFront(g, e)
                t == Table(r)
    <3>1. Push(h, e) = r
      BY <1>2, <2>5
    <3>2. /\ t \in Seq(AnyEntry) /\ Len(t) = r.count
          /\ \A i \in 1..r.count : t[i] = Entry(r, i - 1)
      BY <1>5, TableIs
    <3>3. /\ Entry(r, 0) = e /\ r.count = Min2(g.count + 1, HISTORY_SIZE)
          /\ \A i \in 1..r.count - 1 : Entry(r, i) = Entry(g, i - 1)
      BY <1>5
    <3>. HIDE DEF r, t
    <3>4. n = -1 \/ (n > 0 /\ n <= h.count - 1 /\ n \in Int)
      BY <1>1, <1>3, <2>5
    <3>5. Len(rest) = g.count /\ g.count \in 0..HISTORY_SIZE
      BY <1>3, <1>4, <2>3, <3>4
    <3>6. Len(new) = Len(t) /\ Len(t) = r.count /\ r.count \in 1..g.count + 1
      BY <1>3, <2>2, <3>2, <3>3, <3>5 DEF Min2
    <3>7. ASSUME NEW i \in 1..Len(t) PROVE t[i] = new[i]
      <4>1. CASE i = 1
        BY <2>2, <3>2, <3>3, <3>6, <4>1
      <4>2. CASE i # 1
        <5>1. /\ i \in 2..Len(new) /\ i - 1 \in 1..Len(rest)
              /\ i - 1 \in 1..r.count - 1 /\ i - 2 \in 0..g.count - 1
              /\ (i - 1) - 1 = i - 2 /\ (i - 2) + 1 = i - 1 /\ i \in 1..r.count
          BY <3>5, <3>6, <4>2
        <5>2. t[i] = Entry(g, i - 2)
          BY <3>2, <3>3, <5>1
        <5>3. Entry(g, i - 2) = IF n = -1 \/ i - 2 < n THEN Entry(h, i - 2)
                                ELSE Entry(h, i - 1)
          BY <1>4, <2>5, <5>1
        <5>4. new[i] = IF n = -1 \/ i - 1 < n + 1 THEN Entry(h, i - 2)
                       ELSE Entry(h, i - 1)
          BY <2>2, <2>3, <5>1
        <5>5. i - 2 < n <=> i - 1 < n + 1
          BY <3>4, <5>1
        <5>. QED BY <5>2, <5>3, <5>4, <5>5
      <4>. QED BY <4>1, <4>2
    <3>8. t = new
      BY <2>2, <3>2, <3>6, <3>7, SeqEqual
    <3>. QED BY <3>1, <3>8 DEF t
  <2>. QED BY <2>4, <2>5
<1>7. SoundHistory(Push(h, e))
  BY <1>2, <1>5
<1>. QED BY <1>6, <1>7

LEMMA EmptySound ==
    SoundHistory(EmptyHistory) /\ Table(EmptyHistory) = <<>>
BY HistoryAssumption DEF SoundHistory, EmptyHistory, Ring, Table

\* Loading a saved history gives a sound one without repetitions, and the
\* one that was saved when that had none.
LEMMA LoadedSound ==
    ASSUME NEW t \in Seq(AnyEntry)
    PROVE  /\ SoundHistory(Loaded(t)) /\ IsInjective(Table(Loaded(t)))
           /\ IsInjective(t) /\ Len(t) <= HISTORY_SIZE => Table(Loaded(t)) = t
<1>. DEFINE N == Len(t)
            Histories == {h \in Ring : SoundHistory(h)}
            entry(n) == t[N - n + 1]
            step == [n \in 1..N |-> [h \in Histories |-> Push(h, entry(n))]]
            Body(f) == [n \in 0..N |-> IF n = 0 THEN EmptyHistory
                                       ELSE Push(f[n - 1], t[N - n + 1])]
            pushed == CHOOSE f : f = Body(f)
<1>1. N \in Nat /\ EmptyHistory \in Histories
  BY EmptySound DEF SoundHistory
<1>2. \A n \in 1..N : entry(n) \in AnyEntry
  BY <1>1
<1>. HIDE DEF N
<1>3. ASSUME NEW h \in Histories, NEW n \in 1..N
      PROVE  Push(h, entry(n)) \in Histories
  BY <1>2, PushSound DEF SoundHistory
<1>4. step \in [1..N -> [Histories -> Histories]]
  BY <1>3
<1>5. \E f : f = Body(f)
  <2>. HIDE DEF Histories, step
  <2>. DEFINE base == EmptyHistory
  <2>a. base \in Histories
    BY <1>1
  <2>. HIDE DEF base
  <2>b. PICK f \in [0..N -> Histories] : Recurs(f, N, base, step)
    BY <1>1, <1>4, <2>a, RecursionExists
  <2>1. /\ f \in [0..N -> Histories]
        /\ f[0] = base /\ \A n \in 1..N : f[n] = step[n][f[n - 1]]
    BY <2>b DEF Recurs
  <2>2. ASSUME NEW n \in 1..N
        PROVE  step[n][f[n - 1]] = Push(f[n - 1], t[N - n + 1])
    <3>1. n - 1 \in 0..N /\ f[n - 1] \in Histories
      BY <1>1, <2>1
    <3>. QED BY <3>1 DEF step
  <2>d. \A n \in 0..N : f[n] = IF n = 0 THEN EmptyHistory
                              ELSE Push(f[n - 1], t[N - n + 1])
    <3>1. \A n \in 0..N : n = 0 \/ n \in 1..N
      BY <1>1
    <3>. QED BY <2>1, <2>2, <3>1 DEF base
  <2>c. DOMAIN f = 0..N
    BY <2>1
  <2>3. f = Body(f)
    BY <2>1, <2>d
  <2>. QED BY <2>3
<1>6. pushed = Body(pushed)
  BY <1>5
<1>7. Loaded(t) = pushed[N]
  BY DEF Loaded, N
<1>. HIDE DEF pushed
<1>8. /\ pushed[0] = EmptyHistory
      /\ \A n \in 1..N : pushed[n] = Push(pushed[n - 1], entry(n))
  BY <1>1, <1>6
<1>. HIDE DEF entry
<1>. DEFINE Fine == {n \in 0..N : SoundHistory(pushed[n])
                                  /\ IsInjective(Table(pushed[n]))}
<1>9. \A n \in 0..N : n \in Fine
  <2>1. 0 \in Fine
    BY <1>1, <1>8, EmptySound DEF IsInjective
  <2>2. ASSUME NEW n \in 1..N, n - 1 \in Fine PROVE n \in Fine
    <3>. DEFINE h == pushed[n - 1]
                e == entry(n)
    <3>1. SoundHistory(h) /\ IsInjective(Table(h)) /\ e \in AnyEntry
      BY <1>2, <2>2
    <3>. HIDE DEF h, e
    <3>2. SoundHistory(Push(h, e)) /\ Table(Push(h, e)) = Recent!Entered(Table(h), e)
      BY <3>1, PushSound
    <3>3. Table(h) \in Seq(AnyEntry)
      BY <3>1, TableIs
    <3>4. IsInjective(Recent!Entered(Table(h), e))
      BY <3>1, <3>3, EnteredIs
    <3>5. pushed[n] = Push(h, e)
      BY <1>8 DEF h, e
    <3>. QED BY <3>2, <3>4, <3>5
  <2>. HIDE DEF Fine
  <2>. QED BY <1>1, <2>1, <2>2, Induction
<1>10. ASSUME IsInjective(t), N <= HISTORY_SIZE PROVE Table(pushed[N]) = t
  <2>. DEFINE Same == {n \in 0..N : Table(pushed[n]) = SubSeq(t, N - n + 1, N)}
  <2>1. 0 \in Same
    <3>1. SubSeq(t, N + 1, N) = <<>>
      BY <1>1 DEF N
    <3>2. N - 0 + 1 = N + 1
      BY <1>1
    <3>3. Table(pushed[0]) = <<>>
      BY <1>8, EmptySound
    <3>4. Table(pushed[0]) = SubSeq(t, N - 0 + 1, N)
      BY <3>1, <3>2, <3>3
    <3>. HIDE DEF pushed
    <3>. QED BY <1>1, <3>4
  <2>2. ASSUME NEW n \in 1..N, n - 1 \in Same PROVE n \in Same
    <3>. DEFINE h == pushed[n - 1]
                e == entry(n)
                s == Table(h)
                rest == Recent!Others(s, e)
                new == Recent!Entered(s, e)
                r == SubSeq(t, N - n + 1, N)
    <3>1. /\ SoundHistory(h) /\ IsInjective(s) /\ e \in AnyEntry
          /\ s \in Seq(AnyEntry)
      <4>1. SoundHistory(h) /\ IsInjective(s) /\ e \in AnyEntry
        BY <1>2, <1>9, <2>2
      <4>. HIDE DEF h
      <4>. QED BY <4>1, TableIs
    <3>2. /\ Len(s) = n - 1 /\ \A i \in 1..n - 1 : s[i] = t[N - n + 1 + i]
      <4>1. s = SubSeq(t, N - n + 2, N)
        <5>1. N - (n - 1) + 1 = N - n + 2
          BY <1>1
        <5>. QED BY <2>2, <5>1
      <4>. HIDE DEF s
      <4>2. t \in Seq(AnyEntry) /\ Len(t) = N /\ N \in Nat
        BY <1>1 DEF N
      <4>. HIDE DEF N
      <4>3. Len(s) = n - 1
        BY <4>1, <4>2
      <4>4. \A i \in 1..n - 1 : s[i] = t[N - n + 2 + i - 1]
        BY <4>1, <4>2
      <4>5. \A i \in 1..n - 1 : N - n + 2 + i - 1 = N - n + 1 + i
        BY <4>2
      <4>. QED BY <4>3, <4>4, <4>5
    <3>3. e = t[N - n + 1] /\ N - n + 1 \in 1..N
      BY <1>1 DEF entry
    <3>4. Table(pushed[n]) = new
      <4>. HIDE DEF h, e
      <4>1. Table(Push(h, e)) = new
        BY <3>1, PushSound
      <4>2. pushed[n] = Push(h, e)
        BY <1>8 DEF h, e
      <4>. QED BY <4>1, <4>2
    <3>. HIDE DEF h, s, e
    <3>5. rest = s
      <4>1. ASSUME NEW i \in 1..n - 1 PROVE s[i] # e
        <5>1. /\ N - n + 1 + i \in DOMAIN t /\ N - n + 1 \in DOMAIN t
              /\ N - n + 1 + i # N - n + 1
          BY <1>1, <3>3 DEF N
        <5>. QED BY <1>10, <3>2, <3>3, <5>1 DEF IsInjective
      <4>2. e \notin ToSet(s)
        BY <3>1, <3>2, <4>1 DEF ToSet
      <4>. QED BY <4>2, OthersIs
    <3>6. /\ new \in Seq(AnyEntry) /\ new[1] = e
          /\ Len(new) = Min2(Len(rest) + 1, HISTORY_SIZE)
          /\ \A i \in 2..Len(new) : new[i] = rest[i - 1]
      BY <3>1, EnteredIs
    <3>. HIDE DEF rest, new
    <3>7. /\ r \in Seq(AnyEntry) /\ Len(r) = n
          /\ \A i \in 1..n : r[i] = t[N - n + i]
      <4>1. N - n + 1 \in 1..N /\ N \in 0..Len(t) /\ N - (N - n + 1) + 1 = n
        BY <1>1 DEF N
      <4>. QED BY <1>1, <4>1 DEF N
    <3>8. Len(new) = n
      BY <1>1, <1>10, <3>2, <3>5, <3>6, HistoryAssumption DEF Min2
    <3>9. ASSUME NEW i \in 1..n PROVE new[i] = r[i]
      <4>1. CASE i = 1
        BY <1>1, <3>3, <3>6, <3>7, <4>1
      <4>2. CASE i # 1
        <5>1. /\ i \in 2..Len(new) /\ i - 1 \in 1..n - 1
              /\ N - n + 1 + (i - 1) = N - n + i
          BY <1>1, <3>8, <4>2
        <5>. QED BY <3>2, <3>5, <3>6, <3>7, <5>1
      <4>. QED BY <4>1, <4>2
    <3>10. new = r
      <4>. HIDE DEF r
      <4>. QED BY <3>6, <3>7, <3>8, <3>9, SeqEqual
    <3>. QED BY <3>4, <3>10
  <2>3. N \in Same
    <3>. HIDE DEF Same
    <3>1. \A n \in 0..N : n \in Same
      BY <1>1, <2>1, <2>2, Induction
    <3>. QED BY <1>1, <3>1
  <2>4. SubSeq(t, N - N + 1, N) = t
    BY <1>1 DEF N
  <2>. QED BY <2>3, <2>4
<1>. QED BY <1>1, <1>7, <1>9, <1>10 DEF N

-----------------------------------------------------------------------------
(* What completions are made of.                                           *)

LEMMA TextsSound ==
    ASSUME NEW h, SoundHistory(h), NEW look
    PROVE  Texts(h, look) \in Seq(AnyText)
<1>. DEFINE N == h.count
            S == Seq(AnyText)
            base == <<>>
            next(n, s) == IF Matches(Entry(h, n - 1), look)
                          THEN Append(s, Entry(h, n - 1).text) ELSE s
            step == [n \in 1..N |-> [s \in S |-> next(n, s)]]
            Body(f) == [n \in 0..N |-> IF n = 0 THEN <<>>
                          ELSE IF Matches(Entry(h, n - 1), look)
                          THEN Append(f[n - 1], Entry(h, n - 1).text)
                          ELSE f[n - 1]]
            found == CHOOSE f : f = Body(f)
<1>1. N \in Nat /\ base \in S
  BY DEF SoundHistory, Ring
<1>2. \A n \in 1..N : Entry(h, n - 1).text \in AnyText
  BY <1>1 DEF SoundHistory, AnyEntry
<1>3. Texts(h, look) = found[N]
  BY DEF Texts
<1>. HIDE DEF N
<1>a. ASSUME NEW n \in 1..N, NEW s \in S PROVE next(n, s) \in S
  <2>. DEFINE c == Entry(h, n - 1).text
  <2>1. c \in AnyText
    BY <1>2
  <2>. HIDE DEF c
  <2>. QED BY <2>1 DEF c
<1>4. step \in [1..N -> [S -> S]]
  BY <1>a
<1>5. \E f : f = Body(f)
  <2>. HIDE DEF step, S, base
  <2>1. PICK f \in [0..N -> S] : Recurs(f, N, base, step)
    BY <1>1, <1>4, RecursionExists
  <2>2. /\ f[0] = base
        /\ \A n \in 1..N : f[n] = step[n][f[n - 1]] /\ f[n - 1] \in S
    BY <1>1, <2>1 DEF Recurs
  <2>3. ASSUME NEW n \in 1..N PROVE f[n] = next(n, f[n - 1])
    <3>. HIDE DEF next
    <3>. QED BY <2>2 DEF step
  <2>4. \A n \in 0..N : n = 0 \/ n \in 1..N
    BY <1>1
  <2>5. f = Body(f)
    BY <2>1, <2>2, <2>3, <2>4 DEF base
  <2>. QED BY <2>5
<1>6. found = Body(found)
  BY <1>5
<1>. HIDE DEF found
<1>7. /\ found[0] = <<>>
      /\ \A n \in 1..N : found[n] = next(n, found[n - 1])
  <2>1. found = [n \in 0..N |-> IF n = 0 THEN <<>> ELSE next(n, found[n - 1])]
    BY <1>6
  <2>. HIDE DEF next
  <2>. QED BY <1>1, <2>1
<1>. HIDE DEF next
<1>. DEFINE Fine == {n \in 0..N : found[n] \in S}
<1>8. 0 \in Fine /\ \A n \in 1..N : n - 1 \in Fine => n \in Fine
  <2>1. 0 \in 0..N /\ found[0] \in S
    BY <1>1, <1>7
  <2>2. ASSUME NEW n \in 1..N, n - 1 \in Fine PROVE n \in Fine
    <3>1. found[n - 1] \in S
      BY <2>2
    <3>2. found[n] \in S
      <4>. HIDE DEF S
      <4>. QED BY <1>a, <1>7, <3>1
    <3>. QED BY <1>1, <3>2
  <2>. QED BY <2>1, <2>2
<1>9. N \in Fine
  <2>. HIDE DEF Fine
  <2>1. \A n \in 0..N : n \in Fine
    BY <1>1, <1>8, Induction
  <2>. QED BY <1>1, <2>1
<1>. QED BY <1>3, <1>9

LEMMA WithoutRepeatsSound ==
    ASSUME NEW strs \in Seq(AnyText)
    PROVE  /\ WithoutRepeats(strs) \in Seq(AnyText)
           /\ strs # <<>> => WithoutRepeats(strs) # <<>>
<1>. DEFINE N == Len(strs)
            S == Seq(AnyText)
            base == <<>>
            again(n) == n > 1 /\ strs[n] = strs[n - 1]
            next(n, s) == IF again(n) THEN s ELSE Append(s, strs[n])
            step == [n \in 1..N |-> [s \in S |-> next(n, s)]]
            Body(f) == [n \in 0..N |-> IF n = 0 THEN <<>>
                          ELSE IF n > 1 /\ strs[n] = strs[n - 1] THEN f[n - 1]
                          ELSE Append(f[n - 1], strs[n])]
            kept == CHOOSE f : f = Body(f)
<1>1. N \in Nat /\ base \in S
  OBVIOUS
<1>2. \A n \in 1..N : strs[n] \in AnyText
  OBVIOUS
<1>3. WithoutRepeats(strs) = kept[N] /\ (strs # <<>> => N >= 1)
  BY DEF WithoutRepeats
<1>. HIDE DEF N
<1>a. ASSUME NEW n \in 1..N, NEW s \in S
      PROVE  /\ next(n, s) \in S
             /\ s # <<>> \/ ~again(n) => next(n, s) # <<>>
  <2>1. strs[n] \in AnyText
    BY <1>2
  <2>. DEFINE longer == Append(s, strs[n])
  <2>2. longer \in S /\ Len(longer) = Len(s) + 1 /\ Len(s) \in Nat
    BY <2>1
  <2>3. longer # <<>>
    BY <2>2
  <2>. HIDE DEF again, longer
  <2>. QED BY <2>2, <2>3 DEF longer
<1>4. step \in [1..N -> [S -> S]]
  <2>. HIDE DEF next
  <2>. QED BY <1>a
<1>5. \E f : f = Body(f)
  <2>. HIDE DEF step, S, base
  <2>1. PICK f \in [0..N -> S] : Recurs(f, N, base, step)
    BY <1>1, <1>4, RecursionExists
  <2>2. /\ f[0] = base
        /\ \A n \in 1..N : f[n] = step[n][f[n - 1]] /\ f[n - 1] \in S
    BY <1>1, <2>1 DEF Recurs
  <2>3. ASSUME NEW n \in 1..N PROVE f[n] = next(n, f[n - 1])
    <3>. HIDE DEF next
    <3>. QED BY <2>2 DEF step
  <2>4. \A n \in 0..N : n = 0 \/ n \in 1..N
    BY <1>1
  <2>5. f = Body(f)
    BY <2>1, <2>2, <2>3, <2>4 DEF base
  <2>. QED BY <2>5
<1>6. kept = Body(kept)
  BY <1>5
<1>. HIDE DEF kept
<1>7. /\ kept[0] = <<>>
      /\ \A n \in 1..N : kept[n] = next(n, kept[n - 1])
  <2>1. kept = [n \in 0..N |-> IF n = 0 THEN <<>> ELSE next(n, kept[n - 1])]
    BY <1>6
  <2>. HIDE DEF next
  <2>. QED BY <1>1, <2>1
<1>. HIDE DEF next
<1>. DEFINE Fine == {n \in 0..N : kept[n] \in S /\ (n >= 1 => kept[n] # <<>>)}
<1>8. 0 \in Fine
  <2>1. 0 \in 0..N /\ kept[0] \in S /\ ~(0 >= 1)
    BY <1>1, <1>7
  <2>. QED BY <2>1
<1>9. ASSUME NEW n \in 1..N, n - 1 \in Fine PROVE n \in Fine
  <2>1. n - 1 >= 1 \/ ~again(n)
    OBVIOUS
  <2>. HIDE DEF again
  <2>2. kept[n - 1] \in S /\ (kept[n - 1] # <<>> \/ ~again(n))
    BY <1>9, <2>1
  <2>3. kept[n] \in S /\ kept[n] # <<>>
    BY <1>7, <1>a, <2>2
  <2>. QED BY <1>1, <2>3
<1>10. N \in Fine
  <2>. HIDE DEF Fine
  <2>1. \A n \in 0..N : n \in Fine
    BY <1>1, <1>8, <1>9, Induction
  <2>. QED BY <1>1, <2>1
<1>. QED BY <1>3, <1>10

LEMMA CommonPartSound ==
    ASSUME NEW S \in SUBSET AnyText, S # {}
    PROVE  LongestCommonPrefix(S) \in AnyText
<1>. DEFINE C == CommonPrefixes(S)
            Lengths == {Len(x) : x \in C}
<1>1. PICK t \in S : TRUE
  OBVIOUS
<1>2. C \subseteq AnyText
  <2>1. ASSUME NEW s \in S PROVE Prefixes(s) \subseteq AnyText
    BY DEF Prefixes, AnyText
  <2>. QED BY <2>1 DEF CommonPrefixes
<1>3. <<>> \in C
  <2>1. <<>> \in Prefixes(t)
    BY DEF Prefixes
  <2>2. ASSUME NEW s \in S PROVE IsPrefix(<<>>, s)
    BY DEF IsPrefix, AnyText
  <2>. QED BY <2>1, <2>2 DEF CommonPrefixes
<1>4. \A x \in C : IsPrefix(x, t)
  BY DEF CommonPrefixes
<1>. HIDE DEF C
<1>5. \A x \in C : Len(x) \in 0..Len(t)
  BY <1>2, <1>4 DEF IsPrefix, AnyText
<1>6. Lengths \in SUBSET Int /\ Lengths # {} /\ IsFiniteSet(Lengths)
  <2>1. Len(t) \in Nat
    BY DEF AnyText
  <2>2. IsFiniteSet(0..Len(t))
    BY <2>1, FS_Interval
  <2>3. Lengths \subseteq 0..Len(t) /\ Lengths # {}
    BY <1>3, <1>5
  <2>4. Lengths \in SUBSET Int
    BY <2>3
  <2>. HIDE DEF Lengths
  <2>. QED BY <2>2, <2>3, <2>4, FS_Subset
<1>7. \E m \in Lengths : \A n \in Lengths : n <= m
  <2>. HIDE DEF Lengths
  <2>. QED BY <1>6, GreatestInt
<1>8. \E x \in C : \A y \in C : Len(y) <= Len(x)
  BY <1>7
<1>9. LongestCommonPrefix(S) \in C
  BY <1>8 DEF LongestCommonPrefix, C
<1>. QED BY <1>2, <1>9

-----------------------------------------------------------------------------
(* What every query keeps to.                                              *)

List == [strs : Seq(AnyText), beg : AnyText, end : AnyText, sel : Int,
         for : AnyText]
QueryType ==
    [open : BOOLEAN, line : Line, histent : -1..HISTORY_SIZE - 1,
     tmp : AnyText, context : Contexts \cup {AnyContext}, waiting : Int,
     current : Int, timed : Int, list : List, histmode : BOOLEAN,
     cut : BOOLEAN]
SoundQuery(r) ==
    r \in QueryType /\ Sound(r.line) /\ r.list.sel <= Len(r.list.strs)

\* No request has a number that was not given yet, and the one awaited is
\* not both begun and answered.
Ordered(r) ==
    /\ r.waiting >= -1 /\ r.current <= r.waiting /\ r.timed <= r.waiting
    /\ ~(r.waiting >= 0 /\ r.timed = r.waiting /\ r.current = r.waiting)

SelectedText(r) ==
    r.list.sel > 0 =>
        r.line.p = r.list.beg \o r.list.strs[r.list.sel] \o r.list.end
SelectedShown(r) ==
    (autoshow /\ ~r.cut /\ r.current = r.waiting) => SelectedText(r)

FineQuery(r) == SoundQuery(r) /\ Ordered(r) /\ SelectedShown(r)

\* What s may be after r while what was asked about r is still awaited.
Follows(r, s) ==
    /\ s.open = r.open /\ s.waiting >= r.waiting
    /\ s.waiting = r.waiting =>
          /\ autoshow /\ r.current # r.waiting => s.line.p = r.line.p
          /\ s.current \in {r.current, -1} /\ s.timed \in {r.timed, -1}

\* s is r with another text in its line.
Rewritten(r, s) ==
    /\ SoundQuery(s) /\ s.open = r.open /\ s.waiting = r.waiting
    /\ s.current = r.current /\ s.timed = r.timed

LEMMA NothingSound ==
    /\ <<>> \in AnyText /\ NoList \in List
    /\ NoList.sel = -1 /\ NoList.strs = <<>>
BY DEF NoList, List, AnyText

LEMMA ChangedFine ==
    ASSUME NEW r, SoundQuery(r), Ordered(r), NEW s, Rewritten(r, s)
    PROVE  /\ FineQuery(Changed(s)) /\ Follows(r, Changed(s))
           /\ Changed(s).line = s.line /\ Changed(s).tmp = s.tmp
           /\ Changed(s).histent = s.histent
           /\ Rewritten(Changed(s), Changed(s))
<1>1. /\ s \in QueryType /\ SoundQuery(s) /\ s.waiting \in Int
      /\ s.open = r.open /\ s.waiting = r.waiting
      /\ s.current = r.current /\ s.timed = r.timed
  BY DEF Rewritten, SoundQuery, QueryType
<1>2. CASE ~autoshow
  <2>1. Changed(s) = s
    BY <1>2 DEF Changed
  <2>2. Ordered(s)
    BY <1>1 DEF Ordered
  <2>. QED BY <1>1, <1>2, <2>1, <2>2 DEF FineQuery, SelectedShown, Follows, Rewritten
<1>3. CASE autoshow
  <2>. DEFINE c == Changed(s)
  <2>1. c = [s EXCEPT !.current = -1, !.waiting = s.waiting + 1,
                      !.timed = s.waiting + 1]
    BY <1>3 DEF Changed
  <2>. HIDE DEF c
  <2>a. s.waiting + 1 \in Int /\ -1 \in Int
    BY <1>1
  <2>b. c \in QueryType
    BY <1>1, <2>1, <2>a DEF QueryType
  <2>2. /\ c \in QueryType /\ c.line = s.line /\ c.list = s.list
        /\ c.tmp = s.tmp /\ c.histent = s.histent /\ c.open = s.open
        /\ c.current = -1 /\ c.waiting = s.waiting + 1
        /\ c.timed = s.waiting + 1
    BY <1>1, <2>1, <2>b DEF QueryType
  <2>3. SoundQuery(c)
    BY <1>1, <2>2 DEF SoundQuery
  <2>4. Ordered(c) /\ c.current # c.waiting /\ c.waiting > r.waiting
    BY <1>1, <2>2 DEF Ordered
  <2>5. Follows(r, c)
    BY <1>1, <2>2, <2>4 DEF Follows
  <2>. QED BY <2>2, <2>3, <2>4, <2>5 DEF FineQuery, SelectedShown, Rewritten, c
<1>. QED BY <1>2, <1>3

\* A key that changes the line.
LEMMA EditedFine ==
    ASSUME NEW r, FineQuery(r), NEW e \in Edits(r.line)
    PROVE  FineQuery(Edited(r, e)) /\ Follows(r, Edited(r, e))
<1>. DEFINE c == [r EXCEPT !.line = e[1]]
<1>1. SoundLine(r.line) /\ r \in QueryType /\ SoundQuery(r) /\ Ordered(r)
  BY DEF FineQuery, SoundQuery, QueryType, SoundLine
<1>2. /\ SoundLine(e[1]) /\ e[2] \in {0, 1, 2}
      /\ e[2] = 0 => e[1].p = r.line.p
  BY <1>1, EditsSound
<1>3. /\ c \in QueryType /\ c.line = e[1] /\ c.list = r.list /\ c.cut = r.cut
      /\ c.open = r.open /\ c.waiting = r.waiting /\ c.current = r.current
      /\ c.timed = r.timed
  BY <1>1, <1>2 DEF QueryType, SoundLine
<1>4. Rewritten(r, c)
  BY <1>1, <1>2, <1>3 DEF Rewritten, SoundQuery, SoundLine
<1>5. CASE e[2] = 0
  <2>1. Edited(r, e) = c
    BY <1>5 DEF Edited
  <2>2. Ordered(c) /\ SelectedShown(c) /\ Follows(r, c)
    <3>. HIDE DEF c
    <3>1. r.waiting \in Int
      BY <1>1 DEF QueryType
    <3>2. c.line.p = r.line.p
      BY <1>2, <1>3, <1>5
    <3>3. Ordered(c)
      BY <1>1, <1>3 DEF Ordered
    <3>4. SelectedShown(c)
      BY <1>3, <3>2 DEF FineQuery, SelectedShown, SelectedText
    <3>5. Follows(r, c)
      BY <1>3, <3>1, <3>2 DEF Follows
    <3>. QED BY <3>3, <3>4, <3>5
  <2>. QED BY <1>4, <2>1, <2>2 DEF FineQuery, Rewritten
<1>. HIDE DEF c
<1>6. FineQuery(Changed(c)) /\ Follows(r, Changed(c)) /\ Rewritten(Changed(c), Changed(c))
  BY <1>1, <1>4, ChangedFine
<1>7. CASE e[2] = 1
  BY <1>6, <1>7 DEF Edited, c
<1>8. CASE e[2] = 2
  <2>. DEFINE d == Changed(c)
  <2>1. Edited(r, e) = Changed(d)
    BY <1>8 DEF Edited, c
  <2>. HIDE DEF d
  <2>2. FineQuery(d) /\ Rewritten(d, d) /\ Follows(r, d) /\ SoundQuery(d)
        /\ Ordered(d)
    BY <1>6 DEF d, FineQuery
  <2>3. FineQuery(Changed(d)) /\ Follows(d, Changed(d))
        /\ Changed(d).line = d.line /\ SoundQuery(Changed(d))
    BY <2>2, ChangedFine DEF FineQuery
  <2>4. Follows(r, Changed(d))
    <3>. DEFINE f == Changed(d)
    <3>1. /\ r.waiting \in Int /\ d.waiting \in Int /\ f.waiting \in Int
      BY <1>1, <2>2, <2>3 DEF SoundQuery, QueryType
    <3>. HIDE DEF f
    <3>2. Follows(d, f) /\ f.line = d.line
      BY <2>3 DEF f
    <3>3. Follows(r, f)
      BY <2>2, <3>1, <3>2 DEF Follows
    <3>. QED BY <3>3 DEF f
  <2>. QED BY <2>1, <2>3, <2>4
<1>. QED BY <1>2, <1>5, <1>7, <1>8

-----------------------------------------------------------------------------
(* Browsing the history: the user's own text is where it was put aside.    *)

OwnText(r) == IF r.histent < 0 THEN r.line.p ELSE r.tmp

LEMMA FoundIs ==
    ASSUME SoundHistory(hist), NEW r, NEW from \in Int, NEW bwd \in BOOLEAN,
           NEW match \in BOOLEAN
    PROVE  /\ Found(r, from, bwd, match) \in -1..hist.count - 1
           /\ bwd /\ Found(r, from, bwd, match) >= 0 =>
                 Found(r, from, bwd, match) <= from
<1>. DEFINE W == {e \in Range(Table(hist)) : Matches(e, Looked(r, match))}
            n == Search(hist, from, bwd, W)
<1>1. Found(r, from, bwd, match) = n
  BY DEF Found
<1>2. hist \in Ring
  BY DEF SoundHistory
<1>. HIDE DEF W
<1>3. n \in -1..hist.count - 1 /\ (n >= 0 => IF bwd THEN n <= from ELSE n >= from)
  BY <1>2, SearchFinds
<1>. HIDE DEF n
<1>. QED BY <1>1, <1>3

LEMMA SetHistFine ==
    ASSUME SoundHistory(hist), NEW r, SoundQuery(r), Ordered(r),
           NEW e \in 0..hist.count - 1, NEW match \in BOOLEAN
    PROVE  LET s == SetHist(r, e, match)
           IN /\ FineQuery(s) /\ Follows(r, s)
              /\ s.histent = e /\ OwnText(s) = OwnText(r)
<1>. DEFINE text == Entry(hist, e).text
            point == IF match THEN Min2(r.line.point, Len(text)) ELSE Len(text)
            tmp == IF r.histent < 0 THEN r.line.p ELSE r.tmp
            line == [Text(text) EXCEPT !.point = point]
            c == [r EXCEPT !.tmp = tmp, !.histent = e, !.line = line]
<1>1. text \in AnyText /\ Len(text) \in Nat
  BY DEF SoundHistory, AnyEntry, AnyText
<1>2. /\ r \in QueryType /\ r.line \in Line /\ r.line.p \in AnyText
      /\ r.line.point \in Nat /\ r.tmp \in AnyText
  BY DEF SoundQuery, QueryType, Line, Sound
<1>3. e \in -1..HISTORY_SIZE - 1 /\ e >= 0
  BY HistoryAssumption DEF SoundHistory, Ring
<1>4. SetHist(r, e, match) = Changed(c)
  BY DEF SetHist
<1>5. point \in 0..Len(text)
  <2>. HIDE DEF text
  <2>. QED BY <1>1, <1>2 DEF Min2
<1>. HIDE DEF text, point
<1>6. line \in Line /\ Sound(line)
  BY <1>1, <1>5, TextSound DEF SoundLine
<1>. HIDE DEF line
<1>7. tmp \in AnyText /\ tmp = OwnText(r)
  BY <1>2 DEF OwnText
<1>. HIDE DEF tmp
<1>8. c \in QueryType
  BY <1>2, <1>3, <1>6, <1>7 DEF QueryType
<1>9. /\ c.line = line /\ c.tmp = tmp /\ c.histent = e /\ c.list = r.list
      /\ c.open = r.open /\ c.waiting = r.waiting /\ c.current = r.current
      /\ c.timed = r.timed
  BY <1>2 DEF QueryType
<1>. HIDE DEF c
<1>10. Rewritten(r, c)
  BY <1>6, <1>8, <1>9 DEF Rewritten, SoundQuery
<1>11. /\ FineQuery(Changed(c)) /\ Follows(r, Changed(c))
       /\ Changed(c).tmp = c.tmp /\ Changed(c).histent = c.histent
  BY <1>10, ChangedFine
<1>. QED BY <1>3, <1>4, <1>7, <1>9, <1>11 DEF OwnText

LEMMA PrevFine ==
    ASSUME SoundHistory(hist), NEW r, FineQuery(r), NEW match \in BOOLEAN
    PROVE  LET s == HistoryPrev(r, match)
           IN FineQuery(s) /\ Follows(r, s) /\ OwnText(s) = OwnText(r)
<1>. DEFINE from == r.histent + 1
            bwd == FALSE
            e == Found(r, from, bwd, match)
<1>1. SoundQuery(r) /\ Ordered(r) /\ r \in QueryType /\ from \in Int
      /\ r.waiting \in Int
  BY HistoryAssumption DEF FineQuery, SoundQuery, QueryType
<1>2. HistoryPrev(r, match) = IF e >= 0 THEN SetHist(r, e, match) ELSE r
  BY DEF HistoryPrev
<1>a. bwd \in BOOLEAN
  OBVIOUS
<1>. HIDE DEF from, bwd
<1>b. hist.count \in Nat
  BY DEF SoundHistory, Ring
<1>3. e \in -1..hist.count - 1 /\ hist.count \in Nat
  BY <1>1, <1>a, <1>b, FoundIs
<1>. HIDE DEF e
<1>4. CASE e >= 0
  <2>1. e \in 0..hist.count - 1
    BY <1>3, <1>4
  <2>. QED BY <1>1, <1>2, <1>4, <2>1, SetHistFine
<1>5. CASE ~(e >= 0)
  <2>1. Follows(r, r)
    BY <1>1 DEF Follows
  <2>. QED BY <1>2, <1>5, <2>1
<1>. QED BY <1>4, <1>5

LEMMA NextFine ==
    ASSUME SoundHistory(hist), NEW r, SoundQuery(r), Ordered(r),
           NEW match \in BOOLEAN
    PROVE  LET s == HistoryNext(r, match)
           IN /\ SoundQuery(s) /\ Ordered(s) /\ Follows(r, s)
              /\ SelectedShown(r) => SelectedShown(s)
              /\ OwnText(s) = OwnText(r)
              /\ r.histent < 0 => s = r
              /\ r.histent >= 0 => s.histent < r.histent
<1>. DEFINE from == r.histent - 1
            bwd == TRUE
            e == Found(r, from, bwd, match)
            c == [r EXCEPT !.histent = -1, !.tmp = <<>>, !.line = Text(r.tmp)]
<1>1. /\ r \in QueryType /\ from \in Int /\ r.waiting \in Int
      /\ r.tmp \in AnyText /\ r.histent \in Int
  BY HistoryAssumption DEF SoundQuery, QueryType
<1>2. HistoryNext(r, match) = IF r.histent < 0 THEN r
                              ELSE IF e >= 0 THEN SetHist(r, e, match)
                              ELSE Changed(c)
  BY DEF HistoryNext
<1>a. bwd \in BOOLEAN /\ bwd
  OBVIOUS
<1>. HIDE DEF from, bwd
<1>b. hist.count \in Nat
  BY DEF SoundHistory, Ring
<1>3. /\ e \in -1..hist.count - 1 /\ hist.count \in Nat
      /\ e >= 0 => e <= from
  BY <1>1, <1>a, <1>b, FoundIs
<1>. HIDE DEF e
<1>4. CASE r.histent < 0
  <2>1. Follows(r, r)
    BY <1>1 DEF Follows
  <2>. QED BY <1>1, <1>2, <1>4, <2>1
<1>5. CASE r.histent >= 0 /\ e >= 0
  <2>. DEFINE s == SetHist(r, e, match)
  <2>1. e \in 0..hist.count - 1 /\ e < r.histent
    BY <1>1, <1>3, <1>5 DEF from
  <2>2. /\ FineQuery(s) /\ Follows(r, s) /\ s.histent = e
        /\ OwnText(s) = OwnText(r)
    BY <2>1, SetHistFine
  <2>3. HistoryNext(r, match) = s
    BY <1>1, <1>2, <1>5
  <2>. HIDE DEF s
  <2>. QED BY <1>1, <1>5, <2>1, <2>2, <2>3 DEF FineQuery
<1>6. CASE r.histent >= 0 /\ ~(e >= 0)
  <2>. DEFINE s == Changed(c)
  <2>1. Text(r.tmp) \in Line /\ Sound(Text(r.tmp)) /\ Text(r.tmp).p = r.tmp
    BY <1>1, TextSound DEF SoundLine
  <2>2. c \in QueryType
    <3>1. -1 \in -1..HISTORY_SIZE - 1
      BY HistoryAssumption
    <3>2. <<>> \in AnyText
      BY NothingSound
    <3>. QED BY <1>1, <2>1, <3>1, <3>2 DEF QueryType
  <2>3. /\ c.line = Text(r.tmp) /\ c.histent = -1 /\ c.list = r.list
        /\ c.open = r.open /\ c.waiting = r.waiting /\ c.current = r.current
        /\ c.timed = r.timed
    BY <1>1 DEF QueryType
  <2>. HIDE DEF c
  <2>4. Rewritten(r, c)
    BY <2>1, <2>2, <2>3 DEF Rewritten, SoundQuery
  <2>5. /\ FineQuery(s) /\ Follows(r, s) /\ s.line = c.line
        /\ s.histent = c.histent
    BY <2>4, ChangedFine
  <2>6. HistoryNext(r, match) = s
    BY <1>1, <1>2, <1>6
  <2>. HIDE DEF s
  <2>7. OwnText(s) = OwnText(r) /\ s.histent < r.histent
    BY <1>1, <1>6, <2>1, <2>3, <2>5 DEF OwnText
  <2>. QED BY <1>1, <1>6, <2>5, <2>6, <2>7 DEF FineQuery
<1>. QED BY <1>1, <1>4, <1>5, <1>6

\* Going back from anywhere gives the text that was put aside, or that of
\* the line when none was.
LEMMA ReturnedIs ==
    ASSUME SoundHistory(hist), NEW r, SoundQuery(r), Ordered(r)
    PROVE  Returned(r).line.p = OwnText(r) /\ Returned(r).histent = -1
<1>. DEFINE N == HISTORY_SIZE + 1
            S == {s \in QueryType : SoundQuery(s) /\ Ordered(s)}
            step == [n \in 1..N |-> [s \in S |-> HistoryNext(s, FALSE)]]
            Body(f) == [n \in 0..N |-> IF n = 0 THEN r
                                       ELSE HistoryNext(f[n - 1], FALSE)]
            down == CHOOSE f : f = Body(f)
<1>1. N \in Nat /\ r \in S
  BY HistoryAssumption DEF SoundQuery
<1>2. Returned(r) = down[N]
  BY DEF Returned
<1>. HIDE DEF N
<1>3. ASSUME NEW s \in S PROVE HistoryNext(s, FALSE) \in S
  BY NextFine DEF SoundQuery
<1>4. step \in [1..N -> [S -> S]]
  <2>. HIDE DEF S
  <2>. QED BY <1>3
<1>5. \E f : f = Body(f)
  <2>. HIDE DEF step, S
  <2>1. PICK f \in [0..N -> S] : Recurs(f, N, r, step)
    BY <1>1, <1>4, RecursionExists
  <2>2. /\ f[0] = r
        /\ \A n \in 1..N : f[n] = step[n][f[n - 1]] /\ f[n - 1] \in S
    BY <1>1, <2>1 DEF Recurs
  <2>3. ASSUME NEW n \in 1..N PROVE f[n] = HistoryNext(f[n - 1], FALSE)
    BY <2>2 DEF step
  <2>4. \A n \in 0..N : n = 0 \/ n \in 1..N
    BY <1>1
  <2>5. f = Body(f)
    BY <2>1, <2>2, <2>3, <2>4
  <2>. QED BY <2>5
<1>6. down = Body(down)
  BY <1>5
<1>. HIDE DEF down
<1>7. /\ down[0] = r
      /\ \A n \in 1..N : down[n] = HistoryNext(down[n - 1], FALSE)
  <2>. HIDE DEF S
  <2>1. \A n \in 0..N : down[n] = IF n = 0 THEN r
                                  ELSE HistoryNext(down[n - 1], FALSE)
    BY <1>6
  <2>2. 0 \in 0..N /\ \A n \in 1..N : n \in 0..N /\ n # 0
    BY <1>1
  <2>3. ASSUME NEW n \in 1..N
        PROVE  down[n] = HistoryNext(down[n - 1], FALSE)
    <3>1. down[n] = IF n = 0 THEN r ELSE HistoryNext(down[n - 1], FALSE)
      BY <2>1, <2>2
    <3>. QED BY <2>2, <3>1
  <2>4. down[0] = r
    BY <2>1, <2>2
  <2>. QED BY <2>3, <2>4
<1>. DEFINE Fine == {n \in 0..N : /\ SoundQuery(down[n]) /\ Ordered(down[n])
                                  /\ OwnText(down[n]) = OwnText(r)
                                  /\ down[n].histent < HISTORY_SIZE - n
                                     \/ down[n].histent = -1}
<1>8. 0 \in Fine
  <2>1. r.histent < HISTORY_SIZE - 0
    BY HistoryAssumption DEF SoundQuery, QueryType
  <2>. QED BY <1>1, <1>7, <2>1
<1>9. ASSUME NEW n \in 1..N, n - 1 \in Fine PROVE n \in Fine
  <2>. DEFINE s == down[n - 1]
              t == down[n]
  <2>1. /\ SoundQuery(s) /\ Ordered(s) /\ OwnText(s) = OwnText(r)
        /\ s.histent < HISTORY_SIZE - (n - 1) \/ s.histent = -1
    BY <1>9
  <2>2. t = HistoryNext(s, FALSE)
    BY <1>7
  <2>. HIDE DEF s, t
  <2>3. /\ SoundQuery(t) /\ Ordered(t) /\ OwnText(t) = OwnText(s)
        /\ s.histent < 0 => t = s
        /\ s.histent >= 0 => t.histent < s.histent
    BY <2>1, <2>2, NextFine
  <2>4. s.histent \in -1..HISTORY_SIZE - 1 /\ t.histent \in -1..HISTORY_SIZE - 1
    BY <2>1, <2>3 DEF SoundQuery, QueryType
  <2>5. t.histent < HISTORY_SIZE - n \/ t.histent = -1
    BY <1>1, <2>1, <2>3, <2>4, HistoryAssumption
  <2>. QED BY <1>1, <2>1, <2>3, <2>5 DEF t
<1>10. N \in Fine
  <2>. HIDE DEF Fine
  <2>1. \A n \in 0..N : n \in Fine
    BY <1>1, <1>8, <1>9, Induction
  <2>. QED BY <1>1, <2>1
<1>11. down[N].histent = -1
  <2>1. down[N].histent \in -1..HISTORY_SIZE - 1
    BY <1>10 DEF SoundQuery, QueryType
  <2>. QED BY <1>10, <2>1, HistoryAssumption DEF N
<1>. QED BY <1>2, <1>10, <1>11 DEF OwnText

-----------------------------------------------------------------------------
(* Completions.                                                            *)

LEMMA SetCompletionsFine ==
    ASSUME NEW r, SoundQuery(r), NEW l \in List, l.strs # <<>>,
           NEW cycle \in {-1, 0, 1}
    PROVE  LET s == SetCompletions(r, l, cycle)
           IN /\ SoundQuery(s) /\ s.open = r.open /\ s.current = -1
              /\ s.waiting = r.waiting /\ s.timed = r.timed
              /\ autoshow => SelectedText(s)
              /\ autoshow /\ cycle = 0 => s.line.p = r.line.p
<1>. DEFINE strs == WithoutRepeats(l.strs)
            common == LongestCommonPrefix(Range(strs))
            sel == CASE ~autoshow \/ cycle = 0 -> -1
                     [] autoshow /\ cycle > 0 -> 1
                     [] OTHER -> Len(strs)
            line == IF ~autoshow THEN Completed(l.beg, common, l.end)
                    ELSE IF sel > 0 THEN Completed(l.beg, strs[sel], l.end)
                    ELSE r.line
            ent == IF autoshow /\ sel < 0 THEN r.histent ELSE -1
            told == [r EXCEPT !.current = -1, !.line = line, !.cut = FALSE,
                              !.histent = ent]
            list == [l EXCEPT !.strs = strs, !.sel = sel, !.for = r.line.p]
            s == SetCompletions(r, l, cycle)
<1>1. /\ r \in QueryType /\ r.line \in Line /\ r.line.p \in AnyText
      /\ Sound(r.line) /\ r.histent \in -1..HISTORY_SIZE - 1
      /\ l.beg \in AnyText /\ l.end \in AnyText /\ l.strs \in Seq(AnyText)
  BY DEF SoundQuery, QueryType, Line, List
<1>2. strs \in Seq(AnyText) /\ strs # <<>>
  BY <1>1, WithoutRepeatsSound
<1>3. s = IF Displays(l) THEN [told EXCEPT !.list = list] ELSE told
  BY DEF SetCompletions
<1>. HIDE DEF strs
<1>4. Len(strs) \in Nat \ {0}
  BY <1>2
<1>5. sel \in {-1} \cup 1..Len(strs) /\ (~autoshow \/ cycle = 0 => sel = -1)
  <2>1. CASE ~autoshow \/ cycle = 0
    BY <2>1
  <2>2. CASE autoshow /\ cycle = 1
    BY <1>4, <2>2
  <2>3. CASE autoshow /\ cycle = -1
    BY <1>4, <2>3
  <2>. QED BY <2>1, <2>2, <2>3
<1>6. common \in AnyText
  <2>. DEFINE C == Range(strs)
  <2>1. C \in SUBSET AnyText /\ C # {}
    BY <1>2, <1>4 DEF Range
  <2>. HIDE DEF C
  <2>2. LongestCommonPrefix(C) \in AnyText
    BY <2>1, CommonPartSound
  <2>. QED BY <2>2 DEF C
<1>. HIDE DEF common, sel
<1>7. sel > 0 => sel \in 1..Len(strs) /\ strs[sel] \in AnyText
  BY <1>2, <1>4, <1>5
<1>8. /\ line \in Line /\ Sound(line)
      /\ autoshow /\ sel > 0 => line.p = l.beg \o strs[sel] \o l.end
      /\ autoshow /\ cycle = 0 => line.p = r.line.p
  <2>1. ASSUME NEW c \in AnyText
        PROVE  LET d == Completed(l.beg, c, l.end)
               IN d \in Line /\ Sound(d) /\ d.p = l.beg \o c \o l.end
    <3>. DEFINE d == Completed(l.beg, c, l.end)
    <3>1. SoundLine(d) /\ d.p = l.beg \o c \o l.end
      BY <1>1, CompletedSound
    <3>. HIDE DEF d
    <3>. QED BY <3>1 DEF SoundLine, d
  <2>2. CASE ~autoshow
    BY <1>6, <2>1, <2>2
  <2>3. CASE autoshow /\ sel > 0
    <3>1. line = Completed(l.beg, strs[sel], l.end) /\ cycle # 0
      BY <1>5, <2>3
    <3>. QED BY <1>7, <2>1, <2>3, <3>1
  <2>4. CASE autoshow /\ ~(sel > 0)
    <3>1. line = r.line
      BY <2>4
    <3>. QED BY <1>1, <2>4, <3>1
  <2>. QED BY <2>2, <2>3, <2>4
<1>. HIDE DEF line
<1>9. ent \in -1..HISTORY_SIZE - 1
  BY <1>1, HistoryAssumption
<1>. HIDE DEF ent
<1>10. told \in QueryType
  <2>1. -1 \in Int /\ FALSE \in BOOLEAN
    OBVIOUS
  <2>. QED BY <1>1, <1>8, <1>9, <2>1 DEF QueryType
<1>11. /\ told.line = line /\ told.list = r.list /\ told.open = r.open
       /\ told.waiting = r.waiting /\ told.timed = r.timed
       /\ told.current = -1
  BY <1>1 DEF QueryType
<1>a. sel \in Int
  BY <1>4, <1>5
<1>12. /\ list \in List /\ list.strs = strs /\ list.sel = sel
       /\ list.beg = l.beg /\ list.end = l.end
  BY <1>1, <1>2, <1>a DEF List
<1>. HIDE DEF told, list, s
<1>13. CASE Displays(l)
  <2>1. s = [told EXCEPT !.list = list]
    BY <1>3, <1>13
  <2>2. s \in QueryType
    BY <1>10, <1>12, <2>1 DEF QueryType
  <2>3. /\ s.line = line /\ s.list = list /\ s.open = r.open
        /\ s.waiting = r.waiting /\ s.timed = r.timed /\ s.current = -1
    BY <1>10, <1>11, <2>1 DEF QueryType
  <2>4. sel <= Len(strs)
    BY <1>4, <1>5
  <2>. QED BY <1>8, <1>12, <2>2, <2>3, <2>4 DEF SoundQuery, SelectedText, s
<1>14. CASE ~Displays(l)
  <2>1. s = told /\ ~autoshow
    BY <1>3, <1>14 DEF Displays
  <2>. QED BY <1>8, <1>10, <1>11, <2>1 DEF SoundQuery, s
<1>. QED BY <1>13, <1>14

LEMMA HiddenFine ==
    ASSUME NEW r, SoundQuery(r)
    PROVE  LET s == Hidden(r)
           IN /\ SoundQuery(s) /\ s.open = r.open /\ s.current = r.current
              /\ s.waiting = r.waiting /\ s.timed = r.timed
              /\ s.line = r.line /\ SelectedText(s)
<1>. DEFINE s == Hidden(r)
<1>1. r \in QueryType /\ s = [r EXCEPT !.list = NoList]
  BY DEF SoundQuery, Hidden
<1>. HIDE DEF s
<1>2. s \in QueryType
  BY <1>1, NothingSound DEF QueryType
<1>3. /\ s.open = r.open /\ s.current = r.current /\ s.waiting = r.waiting
      /\ s.timed = r.timed /\ s.line = r.line /\ s.list = NoList
  BY <1>1 DEF QueryType
<1>4. ~(NoList.sel > 0) /\ NoList.sel <= Len(NoList.strs)
  BY NothingSound
<1>5. SoundQuery(s) /\ SelectedText(s)
  BY <1>2, <1>3, <1>4 DEF SoundQuery, SelectedText
<1>. QED BY <1>3, <1>5 DEF s

LEMMA SelectFine ==
    ASSUME NEW r, FineQuery(r), NEW n \in 1..Len(r.list.strs)
    PROVE  FineQuery(Select(r, n)) /\ Follows(r, Select(r, n))
<1>. DEFINE l == r.list
            line == Completed(l.beg, l.strs[n], l.end)
            s == [r EXCEPT !.list.sel = n, !.histent = -1, !.line = line]
<1>1. /\ r \in QueryType /\ l \in List /\ l.beg \in AnyText /\ l.end \in AnyText
      /\ l.strs \in Seq(AnyText) /\ SoundQuery(r) /\ Ordered(r)
      /\ r.waiting \in Int
  BY DEF FineQuery, SoundQuery, QueryType, List
<1>2. CASE r.current # r.waiting \/ n = l.sel
  <2>1. Select(r, n) = r
    BY <1>2 DEF Select
  <2>2. Follows(r, r)
    BY <1>1 DEF Follows
  <2>. QED BY <2>1, <2>2
<1>3. CASE ~(r.current # r.waiting \/ n = l.sel)
  <2>1. Select(r, n) = s
    BY <1>3 DEF Select
  <2>2. l.strs[n] \in AnyText /\ n \in Int /\ Len(l.strs) \in Nat
    BY <1>1
  <2>3. /\ line \in Line /\ Sound(line)
        /\ line.p = l.beg \o l.strs[n] \o l.end
    BY <1>1, <2>2, CompletedSound DEF SoundLine
  <2>. DEFINE m == [l EXCEPT !.sel = n]
  <2>4. /\ m \in List /\ m.strs = l.strs /\ m.beg = l.beg /\ m.end = l.end
        /\ m.sel = n
    BY <1>1, <2>2 DEF List
  <2>5. s = [r EXCEPT !.list = m, !.histent = -1, !.line = line]
    OBVIOUS
  <2>. HIDE DEF m, line, s
  <2>6. -1 \in -1..HISTORY_SIZE - 1
    BY HistoryAssumption
  <2>7. s \in QueryType
    BY <1>1, <2>3, <2>4, <2>5, <2>6 DEF QueryType
  <2>8. /\ s.line = line /\ s.list = m /\ s.open = r.open
        /\ s.waiting = r.waiting /\ s.current = r.current /\ s.timed = r.timed
    BY <1>1, <2>5 DEF QueryType
  <2>9. SoundQuery(s) /\ SelectedText(s)
    <3>1. n <= Len(l.strs)
      BY <2>2
    <3>. HIDE DEF l
    <3>. QED BY <2>3, <2>4, <2>7, <2>8, <3>1 DEF SoundQuery, SelectedText
  <2>10. Ordered(s)
    BY <1>1, <2>8 DEF Ordered
  <2>11. Follows(r, s)
    BY <1>1, <1>3, <2>8 DEF Follows
  <2>. QED BY <2>1, <2>9, <2>10, <2>11 DEF FineQuery, SelectedShown
<1>. QED BY <1>2, <1>3

LEMMA HistoryCompletion ==
    ASSUME SoundHistory(hist), NEW r, SoundQuery(r), r.histmode, NEW id \in Int,
           NEW cycle \in {-1, 0, 1}
    PROVE  LET call == CallCompletor(r, id, cycle)
           IN /\ SoundQuery(call.r) /\ call.r.open = r.open /\ call.asked = {}
              /\ call.r.waiting = id /\ call.r.timed = r.timed
              /\ call.ok => /\ call.r.current = id
                            /\ autoshow => SelectedText(call.r)
                            /\ autoshow /\ cycle = 0 =>
                                  call.r.line.p = r.line.p
              /\ ~call.ok => /\ call.r.current \in {r.current, -1}
                             /\ autoshow => /\ SelectedText(call.r)
                                            /\ call.r.line = r.line
<1>. DEFINE look == [Looked(r, TRUE) EXCEPT !.text =
                        SubSeq(r.line.p, 1, r.line.point)]
            texts == Texts(hist, look)
            l == [NoList EXCEPT !.strs = texts]
            waits == [r EXCEPT !.waiting = id]
            ok == texts # <<>> /\ Displays(l)
            set == SetCompletions(waits, l, cycle)
            now == [set EXCEPT !.current = id]
            call == CallCompletor(r, id, cycle)
<1>1. call = [r |-> IF texts = <<>> THEN Hidden(waits)
                    ELSE IF ok THEN now ELSE set,
              ok |-> ok, asked |-> {}]
  BY DEF CallCompletor
<1>2. texts \in Seq(AnyText)
  BY TextsSound
<1>. HIDE DEF look, texts
<1>3. l \in List /\ l.strs = texts
  BY <1>2, NothingSound DEF List
<1>4. r \in QueryType /\ Sound(r.line) /\ r.list.sel <= Len(r.list.strs)
  BY DEF SoundQuery
<1>5. waits \in QueryType
  BY <1>4 DEF QueryType
<1>6. /\ waits.line = r.line /\ waits.list = r.list /\ waits.open = r.open
      /\ waits.waiting = id /\ waits.current = r.current
      /\ waits.timed = r.timed
  BY <1>4 DEF QueryType
<1>7. SoundQuery(waits)
  BY <1>4, <1>5, <1>6 DEF SoundQuery
<1>8. autoshow => Displays(l)
  BY DEF Displays
<1>. HIDE DEF waits, l, set, now, call, ok
<1>9. CASE texts = <<>>
  <2>. DEFINE h == Hidden(waits)
  <2>1. call.r = h /\ call.asked = {} /\ call.ok = FALSE
    BY <1>1, <1>9 DEF ok
  <2>2. /\ SoundQuery(h) /\ h.open = waits.open /\ h.current = waits.current
        /\ h.waiting = waits.waiting /\ h.timed = waits.timed
        /\ h.line = waits.line /\ SelectedText(h)
    BY <1>7, HiddenFine
  <2>. HIDE DEF h
  <2>. QED BY <1>6, <2>1, <2>2 DEF call
<1>10. CASE texts # <<>>
  <2>1. /\ SoundQuery(set) /\ set.open = r.open /\ set.current = -1
        /\ set.waiting = id /\ set.timed = r.timed
        /\ autoshow => SelectedText(set)
        /\ autoshow /\ cycle = 0 => set.line.p = r.line.p
    <3>1. /\ SoundQuery(set) /\ set.open = waits.open /\ set.current = -1
          /\ set.waiting = waits.waiting /\ set.timed = waits.timed
          /\ autoshow => SelectedText(set)
          /\ autoshow /\ cycle = 0 => set.line.p = waits.line.p
      BY <1>3, <1>7, <1>10, SetCompletionsFine DEF set
    <3>. QED BY <1>6, <3>1
  <2>2. CASE Displays(l)
    <3>1. call.r = now /\ call.asked = {} /\ call.ok = TRUE
      BY <1>1, <1>10, <2>2 DEF ok
    <3>2. set \in QueryType
      BY <2>1 DEF SoundQuery
    <3>3. now \in QueryType
      BY <3>2 DEF now, QueryType
    <3>4. /\ now.line = set.line /\ now.list = set.list /\ now.open = set.open
          /\ now.waiting = set.waiting /\ now.timed = set.timed
          /\ now.current = id
      BY <3>2 DEF now, QueryType
    <3>5. SoundQuery(now) /\ (SelectedText(set) => SelectedText(now))
      BY <2>1, <3>3, <3>4 DEF SoundQuery, SelectedText
    <3>. QED BY <2>1, <3>1, <3>4, <3>5 DEF call
  <2>3. CASE ~Displays(l)
    <3>1. call.r = set /\ call.asked = {} /\ call.ok = FALSE /\ ~autoshow
      BY <1>1, <1>8, <1>10, <2>3 DEF ok
    <3>. QED BY <2>1, <3>1 DEF call
  <2>. QED BY <2>2, <2>3
<1>. QED BY <1>9, <1>10

-----------------------------------------------------------------------------
(* Requests: at most one is awaited, and it is about the text there is.    *)

ProxyType == [id : Int, cycle : {-1, 0, 1}, text : AnyText, cut : BOOLEAN,
              watched : BOOLEAN]
Awaited(r, p) == p.watched /\ p.id = r.waiting
Requests(r, ps) ==
    /\ ps \subseteq ProxyType
    /\ \A p \in ps : p.watched => r.open /\ 0 <= p.id /\ p.id <= r.waiting
    /\ \A p \in ps : Awaited(r, p) =>
          /\ autoshow => p.text = r.line.p \/ p.cut
          /\ r.current # r.waiting /\ r.timed # r.waiting
          /\ \A o \in ps : Awaited(r, o) => o = p

LEMMA FollowsRequests ==
    ASSUME NEW r, SoundQuery(r), NEW s, SoundQuery(s), Follows(r, s),
           NEW ps, Requests(r, ps)
    PROVE  Requests(s, ps)
<1>1. r.waiting \in Int /\ s.waiting \in Int
  BY DEF SoundQuery, QueryType
<1>2. /\ s.open = r.open /\ s.waiting >= r.waiting
      /\ s.waiting = r.waiting =>
            /\ autoshow /\ r.current # r.waiting => s.line.p = r.line.p
            /\ s.current \in {r.current, -1} /\ s.timed \in {r.timed, -1}
  BY DEF Follows
<1>3. /\ ps \subseteq ProxyType
      /\ \A p \in ps : p.watched => r.open /\ 0 <= p.id /\ p.id <= r.waiting
      /\ \A p \in ps : Awaited(r, p) =>
            /\ autoshow => p.text = r.line.p \/ p.cut
            /\ r.current # r.waiting /\ r.timed # r.waiting
            /\ \A o \in ps : Awaited(r, o) => o = p
  BY DEF Requests
<1>4. ASSUME NEW p \in ps, p.watched
      PROVE  s.open /\ 0 <= p.id /\ p.id <= s.waiting
  <2>1. p.id \in Int
    BY <1>3 DEF ProxyType
  <2>. QED BY <1>1, <1>2, <1>3, <1>4, <2>1
<1>5. ASSUME NEW p \in ps, Awaited(s, p)
      PROVE  Awaited(r, p) /\ s.waiting = r.waiting /\ 0 <= r.waiting
  <2>1. p.id \in Int
    BY <1>3 DEF ProxyType
  <2>. QED BY <1>1, <1>2, <1>3, <1>5, <2>1 DEF Awaited
<1>6. ASSUME NEW p \in ps, Awaited(s, p)
      PROVE  /\ autoshow => p.text = s.line.p \/ p.cut
             /\ s.current # s.waiting /\ s.timed # s.waiting
             /\ \A o \in ps : Awaited(s, o) => o = p
  <2>1. Awaited(r, p) /\ s.waiting = r.waiting /\ 0 <= r.waiting
    BY <1>5, <1>6
  <2>2. r.current # r.waiting /\ r.timed # r.waiting /\ r.waiting # -1
    BY <1>1, <1>3, <2>1
  <2>3. autoshow => p.text = s.line.p \/ p.cut
    BY <1>2, <1>3, <2>1, <2>2
  <2>. QED BY <1>2, <1>3, <1>5, <2>1, <2>2, <2>3
<1>. QED BY <1>3, <1>4, <1>6 DEF Requests

\* A request with the number that is awaited now, of which there is no other.
LEMMA AskedRequests ==
    ASSUME NEW r, SoundQuery(r), r.open, r.waiting >= 0,
           r.current # r.waiting, r.timed # r.waiting,
           NEW ps, Requests(r, ps), \A p \in ps : ~Awaited(r, p),
           NEW cycle \in {-1, 0, 1}
    PROVE  Requests(r, ps \cup {Proxy(r, r.waiting, cycle)})
<1>. DEFINE new == Proxy(r, r.waiting, cycle)
<1>1. /\ r.waiting \in Int /\ r.line.p \in AnyText
  BY DEF SoundQuery, QueryType, Line
<1>2. /\ new \in ProxyType /\ new.id = r.waiting /\ new.text = r.line.p
  BY <1>1 DEF Proxy, ProxyType
<1>. HIDE DEF new
<1>3. ASSUME NEW p \in ps \cup {new}, p.watched
      PROVE  r.open /\ 0 <= p.id /\ p.id <= r.waiting
  BY <1>1, <1>2, <1>3 DEF Requests
<1>4. ASSUME NEW p \in ps \cup {new}, Awaited(r, p) PROVE p = new
  BY <1>4
<1>5. ps \cup {new} \subseteq ProxyType
  BY <1>2 DEF Requests
<1>6. Requests(r, ps \cup {new})
  BY <1>2, <1>3, <1>4, <1>5 DEF Requests
<1>. QED BY <1>6 DEF new

-----------------------------------------------------------------------------
(* The inductive invariant.                                                *)

KeptHistory == SoundHistory(hist) /\ IsInjective(Table(hist))
IInv ==
    FineQuery(q) /\ Requests(q, proxies) /\ KeptHistory /\ acts \in Nat

LEMMA OpenedFine ==
    ASSUME NEW text \in AnyText, NEW context \in Contexts \cup {AnyContext}
    PROVE  FineQuery(Opened(text, context)) /\ Opened(text, context).open
<1>. DEFINE r == Opened(text, context)
<1>1. Text(text) \in Line /\ Sound(Text(text))
  BY TextSound DEF SoundLine
<1>2. -1 \in -1..HISTORY_SIZE - 1
  BY HistoryAssumption
<1>3. /\ r.open = TRUE /\ r.line = Text(text) /\ r.list = NoList
      /\ r.waiting = -1 /\ r.current = -1 /\ r.timed = -1
  BY DEF Opened
<1>4. r \in QueryType
  BY <1>1, <1>2, NothingSound DEF Opened, QueryType
<1>. HIDE DEF r
<1>5. SoundQuery(r) /\ SelectedText(r)
  BY <1>1, <1>3, <1>4, NothingSound DEF SoundQuery, SelectedText
<1>6. Ordered(r)
  BY <1>3 DEF Ordered
<1>. QED BY <1>3, <1>5, <1>6 DEF FineQuery, SelectedShown, r

LEMMA ClosedFine ==
    FineQuery(Closed) /\ Closed.open = FALSE
<1>. DEFINE r == Opened(<<>>, AnyContext)
<1>1. FineQuery(r) /\ r \in QueryType
  BY OpenedFine, NothingSound DEF FineQuery, SoundQuery
<1>2. Closed = [r EXCEPT !.open = FALSE]
  BY DEF Closed
<1>. HIDE DEF r
<1>3. Closed \in QueryType
  BY <1>1, <1>2 DEF QueryType
<1>4. /\ Closed.open = FALSE /\ Closed.line = r.line /\ Closed.list = r.list
      /\ Closed.waiting = r.waiting /\ Closed.current = r.current
      /\ Closed.timed = r.timed /\ Closed.cut = r.cut
  BY <1>1, <1>2 DEF QueryType
<1>. HIDE DEF Closed
<1>. QED BY <1>1, <1>3, <1>4
         DEF FineQuery, SoundQuery, Ordered, SelectedShown, SelectedText

LEMMA InitInvariant == Init => IInv
<1>. SUFFICES ASSUME Init PROVE IInv
  OBVIOUS
<1>1. PICK t \in Initial, c \in Contexts : q = Opened(t, c)
  BY DEF Init
<1>2. FineQuery(q)
  BY <1>1, OpenedFine, TextsAssumption
<1>3. Requests(q, proxies)
  BY DEF Init, Requests
<1>4. PICK s \in Saved : hist = Loaded(s)
  BY DEF Init
<1>5. KeptHistory
  <2>1. s \in Seq(AnyEntry)
    BY TextsAssumption
  <2>. QED BY <1>4, <2>1, LoadedSound DEF KeptHistory
<1>. QED BY <1>2, <1>3, <1>5 DEF IInv, Init

LEMMA SameMode ==
    ASSUME autoshow' = autoshow, FineQuery(q'), Requests(q', proxies')
    PROVE  FineQuery(q)' /\ Requests(q, proxies)'
BY DEF FineQuery, SoundQuery, Ordered, SelectedShown, SelectedText, Requests,
       Awaited

\* The proxies of a query that goes away tell nobody any more.
LEMMA DestroyFine ==
    ASSUME IInv, Destroy
    PROVE  FineQuery(q') /\ Requests(q', proxies')
<1>1. /\ q' = Closed /\ proxies' = {[p EXCEPT !.watched = FALSE] : p \in proxies}
  BY DEF Destroy
<1>2. proxies \subseteq ProxyType
  BY DEF IInv, Requests
<1>3. proxies' \subseteq ProxyType /\ \A p \in proxies' : p.watched = FALSE
  BY <1>1, <1>2 DEF ProxyType
<1>4. Requests(q', proxies')
  BY <1>3 DEF Requests, Awaited
<1>. QED BY <1>1, <1>4, ClosedFine

LEMMA EditsFine ==
    ASSUME IInv, Edit \/ \E s \in Pastes : Paste(s)
    PROVE  FineQuery(q') /\ Requests(q', proxies')
<1>1. FineQuery(q) /\ SoundQuery(q) /\ Ordered(q) /\ proxies' = proxies
      /\ Requests(q, proxies)
  BY DEF IInv, FineQuery, Edit, Paste
<1>2. ASSUME Edit PROVE FineQuery(q') /\ Follows(q, q')
  <2>1. PICK e \in Edits(q.line) : q' = Edited(q, e)
    BY <1>2 DEF Edit
  <2>. QED BY <1>1, <2>1, EditedFine
<1>3. ASSUME NEW s \in Pastes, Paste(s) PROVE FineQuery(q') /\ Follows(q, q')
  <2>. DEFINE line == Inserted(q.line, s, TRUE)
              c == [q EXCEPT !.line = line]
  <2>1. q' = Changed(c)
    BY <1>3 DEF Paste
  <2>2. s \in AnyText /\ SoundLine(q.line) /\ q \in QueryType
    BY <1>1, TextsAssumption DEF SoundQuery, QueryType, SoundLine
  <2>3. line \in Line /\ Sound(line)
    BY <2>2, InsertedSound DEF SoundLine
  <2>. HIDE DEF line
  <2>4. /\ c \in QueryType /\ c.line = line /\ c.list = q.list
        /\ c.open = q.open /\ c.waiting = q.waiting
        /\ c.current = q.current /\ c.timed = q.timed
    BY <2>2, <2>3 DEF QueryType
  <2>. HIDE DEF c
  <2>5. Rewritten(q, c)
    BY <1>1, <2>3, <2>4 DEF Rewritten, SoundQuery
  <2>. QED BY <1>1, <2>1, <2>5, ChangedFine
<1>4. FineQuery(q') /\ Follows(q, q') /\ SoundQuery(q')
  BY <1>2, <1>3 DEF FineQuery
<1>. QED BY <1>1, <1>4, FollowsRequests

LEMMA CutTextFine ==
    ASSUME IInv, CutText
    PROVE  FineQuery(q') /\ Requests(q', proxies')
<1>. DEFINE has == HasSelection(q.line)
            line == Cut(q.line)
            Cutting(p) == [p EXCEPT !.cut = p.cut \/ has]
<1>1. /\ q' = [q EXCEPT !.line = line, !.cut = q.cut \/ has]
      /\ proxies' = {Cutting(p) : p \in proxies}
  BY DEF CutText
<1>2. /\ SoundLine(q.line) /\ q \in QueryType /\ SoundQuery(q) /\ Ordered(q)
      /\ SelectedShown(q) /\ Requests(q, proxies) /\ proxies \subseteq ProxyType
  BY DEF IInv, FineQuery, SoundQuery, QueryType, SoundLine, Requests
<1>3. line \in Line /\ Sound(line) /\ (~has => line = q.line)
  BY <1>2, CutSound DEF SoundLine
<1>4. has \in BOOLEAN
  BY DEF HasSelection
<1>. HIDE DEF has, line
<1>5. /\ q' \in QueryType /\ q'.line = line /\ q'.list = q.list
      /\ q'.open = q.open /\ q'.waiting = q.waiting
      /\ q'.current = q.current /\ q'.timed = q.timed
      /\ q'.cut = (q.cut \/ has)
  BY <1>1, <1>2, <1>3, <1>4 DEF QueryType
<1>6. FineQuery(q')
  <2>1. SoundQuery(q') /\ Ordered(q')
    BY <1>2, <1>3, <1>5 DEF SoundQuery, Ordered
  <2>2. SelectedShown(q')
    BY <1>2, <1>3, <1>5 DEF SelectedShown, SelectedText
  <2>. QED BY <2>1, <2>2 DEF FineQuery
<1>7. ASSUME NEW p \in proxies
      PROVE  /\ Cutting(p) \in ProxyType /\ Cutting(p).id = p.id
             /\ Cutting(p).watched = p.watched /\ Cutting(p).text = p.text
             /\ Cutting(p).cut = (p.cut \/ has)
             /\ Awaited(q', Cutting(p)) <=> Awaited(q, p)
  <2>1. p \in ProxyType
    BY <1>2
  <2>2. /\ Cutting(p) \in ProxyType /\ Cutting(p).id = p.id
        /\ Cutting(p).watched = p.watched /\ Cutting(p).text = p.text
        /\ Cutting(p).cut = (p.cut \/ has)
    BY <1>4, <2>1 DEF ProxyType
  <2>. HIDE DEF Cutting
  <2>. QED BY <1>5, <2>2 DEF Awaited
<1>. HIDE DEF Cutting
<1>8. Requests(q', proxies')
  <2>1. proxies' \subseteq ProxyType
    BY <1>1, <1>7
  <2>2. ASSUME NEW o \in proxies', o.watched
        PROVE  q'.open /\ 0 <= o.id /\ o.id <= q'.waiting
    <3>1. PICK p \in proxies : o = Cutting(p)
      BY <1>1
    <3>. QED BY <1>2, <1>5, <1>7, <2>2, <3>1 DEF Requests
  <2>3. ASSUME NEW o \in proxies', Awaited(q', o)
        PROVE  /\ autoshow => o.text = q'.line.p \/ o.cut
               /\ q'.current # q'.waiting /\ q'.timed # q'.waiting
               /\ \A u \in proxies' : Awaited(q', u) => u = o
    <3>1. PICK p \in proxies : o = Cutting(p)
      BY <1>1
    <3>2. Awaited(q, p)
      BY <1>7, <2>3, <3>1
    <3>3. /\ autoshow => p.text = q.line.p \/ p.cut
          /\ q.current # q.waiting /\ q.timed # q.waiting
          /\ \A u \in proxies : Awaited(q, u) => u = p
      BY <1>2, <3>2 DEF Requests
    <3>4. ASSUME NEW u \in proxies', Awaited(q', u) PROVE u = o
      <4>1. PICK v \in proxies : u = Cutting(v)
        BY <1>1
      <4>2. Awaited(q, v)
        BY <1>7, <3>4, <4>1
      <4>. QED BY <3>1, <3>3, <4>1, <4>2
    <3>5. autoshow => o.text = q'.line.p \/ o.cut
      BY <1>3, <1>5, <1>7, <3>1, <3>3
    <3>. QED BY <1>5, <3>3, <3>4, <3>5
  <2>. QED BY <2>1, <2>2, <2>3 DEF Requests
<1>. QED BY <1>6, <1>8

LEMMA BrowseFine ==
    ASSUME IInv, NEW m \in BOOLEAN, Browse(m)
    PROVE  FineQuery(q') /\ Requests(q', proxies')
<1>1. /\ q' \in {HistoryPrev(q, m), HistoryNext(q, m)}
      /\ proxies' = proxies /\ SoundHistory(hist) /\ FineQuery(q)
      /\ SoundQuery(q) /\ Ordered(q) /\ SelectedShown(q) /\ Requests(q, proxies)
  BY DEF Browse, IInv, KeptHistory, FineQuery
<1>2. FineQuery(q') /\ Follows(q, q') /\ SoundQuery(q')
  BY <1>1, PrevFine, NextFine DEF FineQuery
<1>. QED BY <1>1, <1>2, FollowsRequests

\* A request gets a number of its own; when none can be made, the one that
\* was awaited before still is.
LEMMA CompleteFine ==
    ASSUME IInv, NEW history \in BOOLEAN, NEW cycle \in {-1, 0, 1},
           Complete(history, cycle)
    PROVE  FineQuery(q') /\ Requests(q', proxies')
<1>. DEFINE valid == q.histmode = history
            m == [q EXCEPT !.histmode = history]
            c == IF valid THEN cycle ELSE 0
            id == q.waiting + 1
            r == [m EXCEPT !.waiting = id]
            call == CallCompletor(r, id, c)
            selects == c # 0 /\ autoshow /\ Shown(q)
            n == IF c > 0 THEN After(q.list) ELSE Before(q.list)
<1>1. /\ q.open
      /\ selects => q' = Select(m, n) /\ proxies' = proxies
      /\ ~selects => /\ q' = IF call.ok THEN call.r
                             ELSE [call.r EXCEPT !.waiting = q.waiting]
                     /\ proxies' = proxies \cup call.asked
  BY DEF Complete, UserActs
<1>2. /\ q \in QueryType /\ SoundQuery(q) /\ Ordered(q) /\ SelectedShown(q)
      /\ Requests(q, proxies) /\ SoundHistory(hist)
      /\ q.waiting \in Int /\ q.current \in Int /\ q.timed \in Int
      /\ q.list \in List
  BY DEF IInv, FineQuery, SoundQuery, QueryType, KeptHistory
<1>3. c \in {-1, 0, 1} /\ id \in Int
  BY <1>2
<1>4. /\ m \in QueryType /\ m.line = q.line /\ m.list = q.list
      /\ m.open = q.open /\ m.waiting = q.waiting /\ m.current = q.current
      /\ m.timed = q.timed /\ m.cut = q.cut /\ m.histmode = history
  BY <1>2 DEF QueryType
<1>5. FineQuery(m) /\ Follows(q, m) /\ SoundQuery(m)
  <2>1. SoundQuery(m) /\ Ordered(m)
    BY <1>2, <1>4 DEF SoundQuery, Ordered
  <2>2. SelectedShown(m)
    BY <1>2, <1>4 DEF SelectedShown, SelectedText
  <2>3. Follows(q, m)
    BY <1>2, <1>4 DEF Follows
  <2>. QED BY <2>1, <2>2, <2>3 DEF FineQuery
<1>6. /\ r \in QueryType /\ r.line = q.line /\ r.list = q.list
      /\ r.open = q.open /\ r.waiting = id /\ r.current = q.current
      /\ r.timed = q.timed /\ r.cut = q.cut /\ r.histmode = history
  BY <1>2, <1>3 DEF QueryType
<1>7. SoundQuery(r) /\ Ordered(r) /\ r.current # r.waiting /\ r.timed # r.waiting
      /\ r.waiting >= 0
  BY <1>2, <1>6 DEF SoundQuery, Ordered
<1>8. Requests(m, proxies)
  BY <1>2, <1>5, FollowsRequests
<1>9. Requests(r, proxies) /\ \A p \in proxies : ~Awaited(r, p)
  <2>1. Follows(q, r)
    BY <1>2, <1>6 DEF Follows
  <2>2. Requests(r, proxies)
    BY <1>2, <1>7, <2>1, FollowsRequests
  <2>3. ASSUME NEW p \in proxies, Awaited(r, p) PROVE FALSE
    <3>1. p.watched /\ p.id = q.waiting + 1 /\ p.id <= q.waiting
      BY <1>2, <1>6, <2>3 DEF Awaited, Requests
    <3>. QED BY <1>2, <3>1
  <2>. QED BY <2>2, <2>3
<1>. HIDE DEF m, r, c, id, call
<1>10. CASE selects
  <2>1. q.list.strs # <<>> /\ q.list.strs \in Seq(AnyText) /\ q.list.sel \in Int
    BY <1>2, <1>10 DEF Shown, List
  <2>2. n \in 1..Len(m.list.strs)
    <3>. DEFINE k == Len(q.list.strs)
    <3>1. k \in Nat \ {0}
      BY <2>1
    <3>2. After(q.list) \in 1..k
      <4>. HIDE DEF k
      <4>1. After(q.list) = IF q.list.sel \in 1..k - 1 THEN q.list.sel + 1 ELSE 1
        BY DEF After, k
      <4>. QED BY <2>1, <3>1, <4>1
    <3>3. Before(q.list) \in 1..k
      <4>1. q.list.sel <= k
        BY <1>2 DEF SoundQuery
      <4>2. Before(q.list) = IF q.list.sel <= 1 THEN k ELSE q.list.sel - 1
        BY DEF Before
      <4>. HIDE DEF k
      <4>. QED BY <2>1, <3>1, <4>1, <4>2
    <3>. QED BY <1>4, <3>2, <3>3
  <2>. HIDE DEF n
  <2>3. FineQuery(q') /\ Follows(m, q') /\ SoundQuery(q')
    BY <1>1, <1>5, <1>10, <2>2, SelectFine DEF FineQuery
  <2>. QED BY <1>1, <1>5, <1>8, <1>10, <2>3, FollowsRequests
<1>11. CASE ~selects /\ ~history
  <2>1. /\ call.r = r /\ call.ok = TRUE /\ call.asked = {Proxy(r, r.waiting, c)}
    BY <1>6, <1>11 DEF call, CallCompletor
  <2>2. q' = r /\ proxies' = proxies \cup {Proxy(r, r.waiting, c)}
    BY <1>1, <1>11, <2>1
  <2>3. Requests(r, proxies \cup {Proxy(r, r.waiting, c)})
    BY <1>1, <1>3, <1>6, <1>7, <1>9, AskedRequests
  <2>4. FineQuery(r)
    BY <1>7 DEF FineQuery, SelectedShown
  <2>. QED BY <2>2, <2>3, <2>4
<1>12. CASE ~selects /\ history
  <2>. DEFINE s == call.r
  <2>a. r.histmode
    BY <1>6, <1>12
  <2>1. /\ SoundQuery(s) /\ s.open = r.open /\ call.asked = {}
        /\ s.waiting = id /\ s.timed = r.timed
        /\ call.ok => s.current = id /\ (autoshow => SelectedText(s))
        /\ ~call.ok => /\ s.current \in {r.current, -1}
                       /\ autoshow => SelectedText(s) /\ s.line = r.line
    BY <1>2, <1>3, <1>7, <2>a, HistoryCompletion DEF call
  <2>2. proxies' = proxies
    BY <1>1, <1>12, <2>1
  <2>3. CASE call.ok
    <3>1. q' = s
      BY <1>1, <1>12, <2>3
    <3>. HIDE DEF s
    <3>2. FineQuery(s)
      <4>1. Ordered(s)
        BY <1>2, <1>6, <1>7, <2>1, <2>3 DEF Ordered, id
      <4>. QED BY <2>1, <2>3, <4>1 DEF FineQuery, SelectedShown
    <3>3. Follows(q, s)
      BY <1>2, <1>6, <2>1 DEF Follows, id
    <3>. QED BY <1>2, <2>1, <2>2, <3>1, <3>2, <3>3, FollowsRequests
  <2>4. CASE ~call.ok
    <3>. DEFINE t == [s EXCEPT !.waiting = q.waiting]
    <3>1. q' = t
      BY <1>1, <1>12, <2>4
    <3>. HIDE DEF s
    <3>2. s \in QueryType
      BY <2>1 DEF SoundQuery
    <3>3. /\ t \in QueryType /\ t.line = s.line /\ t.list = s.list
          /\ t.open = s.open /\ t.waiting = q.waiting
          /\ t.current = s.current /\ t.timed = s.timed /\ t.cut = s.cut
      BY <1>2, <3>2 DEF QueryType
    <3>. HIDE DEF t
    <3>4. SoundQuery(t) /\ (SelectedText(s) => SelectedText(t))
      BY <2>1, <3>3 DEF SoundQuery, SelectedText
    <3>5. Ordered(t)
      BY <1>2, <1>6, <2>1, <2>4, <3>3 DEF Ordered
    <3>6. FineQuery(t)
      BY <2>1, <2>4, <3>4, <3>5 DEF FineQuery, SelectedShown
    <3>7. Follows(q, t)
      BY <1>2, <1>6, <2>1, <2>4, <3>3 DEF Follows
    <3>. QED BY <1>2, <2>2, <3>1, <3>4, <3>6, <3>7, FollowsRequests
  <2>. QED BY <2>3, <2>4
<1>. QED BY <1>10, <1>11, <1>12

LEMMA TimedFine ==
    ASSUME IInv, TimedComplete
    PROVE  FineQuery(q') /\ Requests(q', proxies')
<1>. DEFINE r == [q EXCEPT !.timed = -1]
            cycle == 0
            call == CallCompletor(r, q.timed, cycle)
<1>1. /\ q.open /\ q.timed >= 0
      /\ q.timed = q.waiting => q' = call.r /\ proxies' = proxies \cup call.asked
      /\ q.timed # q.waiting => q' = r /\ proxies' = proxies
  BY DEF TimedComplete
<1>2. /\ q \in QueryType /\ SoundQuery(q) /\ Ordered(q) /\ SelectedShown(q)
      /\ Requests(q, proxies) /\ SoundHistory(hist)
      /\ q.waiting \in Int /\ q.current \in Int /\ q.timed \in Int
  BY DEF IInv, FineQuery, SoundQuery, QueryType, KeptHistory
<1>3. /\ r \in QueryType /\ r.line = q.line /\ r.list = q.list
      /\ r.open = q.open /\ r.waiting = q.waiting /\ r.current = q.current
      /\ r.timed = -1 /\ r.cut = q.cut /\ r.histmode = q.histmode
  BY <1>2 DEF QueryType
<1>4. FineQuery(r) /\ Follows(q, r) /\ SoundQuery(r) /\ Ordered(r)
  <2>1. SoundQuery(r) /\ Ordered(r)
    BY <1>2, <1>3 DEF SoundQuery, Ordered
  <2>2. SelectedShown(r)
    BY <1>2, <1>3 DEF SelectedShown, SelectedText
  <2>3. Follows(q, r)
    BY <1>2, <1>3 DEF Follows
  <2>. QED BY <2>1, <2>2, <2>3 DEF FineQuery
<1>5. Requests(r, proxies)
  BY <1>2, <1>4, FollowsRequests
<1>8. cycle \in {-1, 0, 1}
  OBVIOUS
<1>. HIDE DEF r, call, cycle
<1>6. CASE q.timed # q.waiting
  BY <1>1, <1>4, <1>5, <1>6
<1>7. CASE q.timed = q.waiting
  <2>1. q.current # q.waiting /\ q.waiting >= 0
    BY <1>1, <1>2, <1>7 DEF Ordered
  <2>2. \A p \in proxies : ~Awaited(r, p)
    BY <1>2, <1>3, <1>7 DEF Awaited, Requests
  <2>3. CASE ~q.histmode
    <3>1. call.r = r /\ call.asked = {Proxy(r, r.waiting, cycle)}
      BY <1>3, <1>7, <2>3 DEF call, CallCompletor
    <3>2. Requests(r, proxies \cup {Proxy(r, r.waiting, cycle)})
      <4>1. r.open /\ r.waiting >= 0 /\ r.current # r.waiting /\ r.timed = -1
        BY <1>1, <1>3, <2>1
      <4>2. r.timed # r.waiting
        BY <1>2, <1>3, <2>1, <4>1
      <4>. QED BY <1>4, <1>5, <1>8, <2>2, <4>1, <4>2, AskedRequests
    <3>. QED BY <1>1, <1>4, <1>7, <3>1, <3>2
  <2>4. CASE q.histmode
    <3>. DEFINE s == call.r
    <3>a. r.histmode
      BY <1>3, <2>4
    <3>1. /\ SoundQuery(s) /\ s.open = r.open /\ call.asked = {}
          /\ s.waiting = q.waiting /\ s.timed = -1
          /\ call.ok => /\ s.current = q.waiting
                        /\ autoshow => SelectedText(s)
          /\ ~call.ok => /\ s.current \in {r.current, -1}
                         /\ autoshow => SelectedText(s)
      <4>1. /\ SoundQuery(s) /\ s.open = r.open /\ call.asked = {}
            /\ s.waiting = q.timed /\ s.timed = r.timed
            /\ call.ok => /\ s.current = q.timed
                          /\ autoshow => SelectedText(s)
            /\ ~call.ok => /\ s.current \in {r.current, -1}
                           /\ autoshow => SelectedText(s)
        BY <1>2, <1>4, <1>8, <3>a, HistoryCompletion DEF call
      <4>. QED BY <1>3, <1>7, <4>1
    <3>2. q' = s /\ proxies' = proxies
      BY <1>1, <1>7, <3>1
    <3>. HIDE DEF s
    <3>3. Ordered(s)
      BY <1>2, <1>3, <2>1, <3>1 DEF Ordered
    <3>4. FineQuery(s)
      BY <3>1, <3>3 DEF FineQuery, SelectedShown
    <3>5. Requests(s, proxies)
      BY <1>3, <1>5, <2>2, <3>1 DEF Requests, Awaited
    <3>. QED BY <3>2, <3>4, <3>5
  <2>. QED BY <2>3, <2>4
<1>. QED BY <1>6, <1>7

\* An answer that is wanted is given to the request that is awaited, and
\* nothing else is awaited after that.
LEMMA AnswerFine ==
    ASSUME IInv, NEW p \in proxies, Answer(p)
    PROVE  /\ FineQuery(q') /\ Requests(q', proxies')
           /\ autoshow => q'.line = q.line \/ q.line.p = p.text \/ p.cut
<1>1. /\ FineQuery(q) /\ SoundQuery(q) /\ Ordered(q) /\ Requests(q, proxies)
      /\ q.waiting \in Int /\ p \in ProxyType
      /\ proxies' = proxies \ {p} /\ Requests(q, proxies \ {p})
  <2>1. FineQuery(q) /\ Requests(q, proxies) /\ proxies' = proxies \ {p}
    BY DEF IInv, Answer
  <2>. QED BY <2>1 DEF FineQuery, SoundQuery, QueryType, Requests
<1>2. CASE ~Wanted(p)
  <2>1. q' = q
    BY <1>2 DEF Answer
  <2>. QED BY <1>1, <2>1
<1>3. CASE Wanted(p)
  <2>1. PICK l \in Answers :
          LET list == [NoList EXCEPT !.strs = l.strs, !.beg = l.beg,
                                     !.end = l.end]
              set == SetCompletions(q, list, p.cycle)
              after == IF l.strs = <<>> THEN Hidden(q)
                       ELSE IF Displays(list) THEN set ELSE Hidden(set)
          IN q' = [after EXCEPT !.current = p.id]
    BY <1>3 DEF Answer
  <2>. DEFINE list == [NoList EXCEPT !.strs = l.strs, !.beg = l.beg,
                                     !.end = l.end]
              set == SetCompletions(q, list, p.cycle)
              after == IF l.strs = <<>> THEN Hidden(q)
                       ELSE IF Displays(list) THEN set ELSE Hidden(set)
  <2>2. l.strs \in Seq(AnyText) /\ l.beg \in AnyText /\ l.end \in AnyText
    BY TextsAssumption
  <2>3. list \in List /\ list.strs = l.strs
    BY <2>2, NothingSound DEF List
  <2>4. q' = [after EXCEPT !.current = p.id]
    BY <2>1
  <2>5. p.cycle \in {-1, 0, 1} /\ p.id \in Int
    BY <1>1 DEF ProxyType
  <2>6. autoshow => Displays(list)
    BY DEF Displays
  <2>7. /\ Awaited(q, p) /\ p.id = q.waiting /\ 0 <= q.waiting /\ q.open
        /\ q.timed # q.waiting
        /\ \A o \in proxies : Awaited(q, o) => o = p
        /\ autoshow => p.text = q.line.p \/ p.cut
    <3>1. Awaited(q, p) /\ p.watched /\ p.id = q.waiting
      BY <1>3 DEF Wanted, Awaited
    <3>. QED BY <1>1, <3>1 DEF Requests
  <2>. HIDE DEF list, set
  <2>8. /\ SoundQuery(after) /\ after.open = q.open
        /\ after.waiting = q.waiting /\ after.timed = q.timed
        /\ autoshow => SelectedText(after)
    <3>1. CASE l.strs = <<>>
      <4>1. after = Hidden(q)
        BY <3>1
      <4>. HIDE DEF after
      <4>. QED BY <1>1, <4>1, HiddenFine
    <3>2. CASE l.strs # <<>>
      <4>1. /\ SoundQuery(set) /\ set.open = q.open
            /\ set.waiting = q.waiting /\ set.timed = q.timed
            /\ autoshow => SelectedText(set)
        BY <1>1, <2>3, <2>5, <3>2, SetCompletionsFine DEF set
      <4>2. CASE Displays(list)
        BY <3>2, <4>1, <4>2
      <4>3. CASE ~Displays(list)
        <5>1. after = Hidden(set)
          BY <3>2, <4>3
        <5>. HIDE DEF after
        <5>2. /\ SoundQuery(Hidden(set)) /\ Hidden(set).open = set.open
              /\ Hidden(set).waiting = set.waiting
              /\ Hidden(set).timed = set.timed /\ SelectedText(Hidden(set))
          BY <4>1, HiddenFine
        <5>. QED BY <4>1, <5>1, <5>2
      <4>. QED BY <4>2, <4>3
    <3>. QED BY <3>1, <3>2
  <2>. HIDE DEF after
  <2>9. after \in QueryType
    BY <2>8 DEF SoundQuery
  <2>10. /\ q' \in QueryType /\ q'.line = after.line /\ q'.list = after.list
         /\ q'.open = q.open /\ q'.waiting = q.waiting /\ q'.timed = q.timed
         /\ q'.current = q.waiting
    BY <2>4, <2>5, <2>7, <2>8, <2>9 DEF QueryType
  <2>11. SoundQuery(q') /\ (autoshow => SelectedText(q'))
    BY <2>8, <2>10 DEF SoundQuery, SelectedText
  <2>12. Ordered(q')
    BY <1>1, <2>7, <2>10 DEF Ordered
  <2>13. FineQuery(q')
    BY <2>11, <2>12 DEF FineQuery, SelectedShown
  <2>14. \A o \in proxies \ {p} : ~Awaited(q', o)
    BY <2>7, <2>10 DEF Awaited
  <2>15. Requests(q', proxies \ {p})
    BY <1>1, <2>10, <2>14 DEF Requests
  <2>. QED BY <1>1, <2>7, <2>13, <2>15
<1>. QED BY <1>2, <1>3

-----------------------------------------------------------------------------
(* The history, over every step.                                           *)

\* What a step does to the history.
Pushed(e) == e \in AnyEntry /\ hist' = Push(hist, e)
HistorySteps ==
    \/ hist' = hist
    \/ hist' = EmptyHistory
    \/ hist' = Loaded(Table(hist))
    \/ \E e \in AnyEntry : hist' = Push(hist, e)

LEMMA PushedEntry ==
    ASSUME IInv, Finish
    PROVE  HistorySteps
<1>1. q \in QueryType
  BY DEF IInv, FineQuery, SoundQuery
<1>. DEFINE e == [context |-> IF q.context = AnyContext THEN "default"
                              ELSE q.context,
                  text |-> q.line.p]
<1>2. e \in AnyEntry
  BY <1>1 DEF QueryType, AnyEntry, Line
<1>3. hist' = Push(hist, e)
  BY DEF Finish
<1>. HIDE DEF e
<1>. QED BY <1>2, <1>3 DEF HistorySteps

LEMMA HistoryFollows ==
    ASSUME IInv, [Next]_vars
    PROVE  HistorySteps
<1>1. CASE UNCHANGED vars
  BY <1>1 DEF vars, HistorySteps
<1>2. CASE Finish
  BY <1>2, PushedEntry
<1>3. CASE Elsewhere
  <2>1. CASE hist' = EmptyHistory
    BY <2>1 DEF HistorySteps
  <2>2. ASSUME NEW c \in Contexts \ {AnyContext}, NEW t \in Initial,
               hist' = Push(hist, [context |-> c, text |-> t])
        PROVE  HistorySteps
    <3>1. [context |-> c, text |-> t] \in AnyEntry
      BY TextsAssumption DEF AnyEntry
    <3>. QED BY <2>2, <3>1 DEF HistorySteps
  <2>. QED BY <1>3, <2>1, <2>2 DEF Elsewhere
<1>4. CASE Restart
  BY <1>4 DEF Restart, HistorySteps
<1>5. CASE \/ \E t \in Initial, c \in Contexts : Open(t, c)
           \/ Edit \/ \E s \in Pastes : Paste(s)
           \/ CutText \/ \E m \in BOOLEAN : Browse(m)
           \/ \E h \in BOOLEAN, c \in {-1, 0, 1} : Complete(h, c)
           \/ Cancel \/ TimedComplete \/ \E p \in proxies : Answer(p)
  <2>1. hist' = hist
    BY <1>5 DEF Open, Edit, Paste, CutText, Browse, Complete, Cancel,
                TimedComplete, Answer
  <2>. QED BY <2>1 DEF HistorySteps
<1>. QED BY <1>1, <1>2, <1>3, <1>4, <1>5 DEF Next

\* The history stays sound and without repetitions, and what is seen of it
\* changes as the list of the last entries does.
LEMMA HistoryKept ==
    ASSUME KeptHistory, HistorySteps
    PROVE  KeptHistory' /\ [Recent!Next]_(Table(hist))
<1>. DEFINE t == Table(hist)
            u == Table(hist')
<1>1. /\ SoundHistory(hist) /\ IsInjective(t) /\ t \in Seq(AnyEntry)
      /\ Len(t) <= HISTORY_SIZE
  BY TableIs DEF KeptHistory
<1>. HIDE DEF t, u
<1>2. CASE hist' = hist
  <2>1. u = t
    BY <1>2 DEF t, u
  <2>. QED BY <1>1, <1>2, <2>1 DEF KeptHistory, t, u
<1>3. CASE hist' = EmptyHistory
  <2>1. SoundHistory(hist') /\ u = <<>> /\ IsInjective(u)
    BY <1>3, EmptySound DEF u, IsInjective
  <2>2. Recent!Next
    BY <2>1 DEF Recent!Next, Recent!Clear, u
  <2>. QED BY <2>1, <2>2 DEF KeptHistory, u
<1>4. CASE hist' = Loaded(Table(hist))
  <2>1. SoundHistory(hist') /\ u = t /\ IsInjective(u)
    BY <1>1, <1>4, LoadedSound DEF t, u
  <2>. QED BY <2>1 DEF KeptHistory, t, u
<1>5. ASSUME NEW e \in AnyEntry, hist' = Push(hist, e)
      PROVE  KeptHistory' /\ [Recent!Next]_(Table(hist))
  <2>1. SoundHistory(hist') /\ u = Recent!Entered(t, e)
    BY <1>1, <1>5, PushSound DEF t, u
  <2>2. IsInjective(u) /\ u[1] = e /\ u \in Seq(AnyEntry)
        /\ Len(u) = Min2(Len(Recent!Others(t, e)) + 1, HISTORY_SIZE)
        /\ Recent!Others(t, e) \in Seq(AnyEntry)
    BY <1>1, <2>1, EnteredIs
  <2>3. Head(u) = e /\ u # <<>>
    <3>1. Len(Recent!Others(t, e)) \in Nat
      BY <2>2
    <3>2. Len(u) \in Nat \ {0}
      BY <2>2, <3>1, HistoryAssumption DEF Min2
    <3>. QED BY <2>2, <3>2
  <2>4. u = Recent!Entered(t, Head(u))
    BY <2>1, <2>3
  <2>5. Recent!Next
    BY <2>3, <2>4 DEF Recent!Next, Recent!Enter, t, u
  <2>. QED BY <2>1, <2>2, <2>5 DEF KeptHistory, u
<1>. QED BY <1>2, <1>3, <1>4, <1>5 DEF HistorySteps

-----------------------------------------------------------------------------
(* Every step keeps the invariant.                                         *)

LEMMA NextInvariant ==
    ASSUME IInv, [Next]_vars
    PROVE  IInv'
<1>0. acts' \in Nat
  <2>1. acts' = acts \/ acts' = acts + 1
    BY DEF Next, vars, Open, Edit, Paste, CutText, Browse, Complete, Finish,
           Cancel, Elsewhere, Restart, TimedComplete, Answer, UserActs
  <2>. QED BY <2>1 DEF IInv
<1>1. KeptHistory'
  <2>1. HistorySteps
    BY HistoryFollows
  <2>. QED BY <2>1, HistoryKept DEF IInv
<1>2. autoshow' = autoshow
  BY DEF Next, vars, Open, Edit, Paste, CutText, Browse, Complete, Finish,
         Cancel, Elsewhere, Restart, TimedComplete, Answer
<1>3. FineQuery(q) /\ Requests(q, proxies)
  BY DEF IInv
<1>4. FineQuery(q') /\ Requests(q', proxies')
  <2>1. CASE UNCHANGED vars \/ Elsewhere
    BY <1>3, <2>1 DEF vars, Elsewhere
  <2>2. ASSUME NEW t \in Initial, NEW c \in Contexts, Open(t, c)
        PROVE  FineQuery(q') /\ Requests(q', proxies')
    <3>1. q' = Opened(t, c) /\ proxies' = proxies /\ ~q.open
      BY <2>2 DEF Open
    <3>2. FineQuery(q')
      BY <3>1, OpenedFine, TextsAssumption
    <3>3. proxies \subseteq ProxyType /\ \A p \in proxies : ~p.watched
      BY <1>3, <3>1 DEF Requests
    <3>. QED BY <3>1, <3>2, <3>3 DEF Requests, Awaited
  <2>3. CASE Edit
    BY <2>3, EditsFine
  <2>4. ASSUME NEW s \in Pastes, Paste(s)
        PROVE  FineQuery(q') /\ Requests(q', proxies')
    BY <2>4, EditsFine
  <2>5. CASE CutText
    BY <2>5, CutTextFine
  <2>6. ASSUME NEW m \in BOOLEAN, Browse(m)
        PROVE  FineQuery(q') /\ Requests(q', proxies')
    BY <2>6, BrowseFine
  <2>7. ASSUME NEW h \in BOOLEAN, NEW c \in {-1, 0, 1}, Complete(h, c)
        PROVE  FineQuery(q') /\ Requests(q', proxies')
    BY <2>7, CompleteFine
  <2>8. CASE Finish \/ Cancel
    <3>1. Destroy
      BY <2>8 DEF Finish, Cancel
    <3>. QED BY <3>1, DestroyFine
  <2>9. CASE Restart
    <3>1. q' = q /\ proxies' = {}
      BY <2>9 DEF Restart
    <3>. QED BY <1>3, <3>1 DEF Requests
  <2>10. CASE TimedComplete
    BY <2>10, TimedFine
  <2>11. ASSUME NEW p \in proxies, Answer(p)
         PROVE  FineQuery(q') /\ Requests(q', proxies')
    BY <2>11, AnswerFine
  <2>. QED BY <2>1, <2>2, <2>3, <2>4, <2>5, <2>6, <2>7, <2>8, <2>9, <2>10,
              <2>11 DEF Next
<1>5. FineQuery(q)' /\ Requests(q, proxies)'
  BY <1>2, <1>4, SameMode
<1>. QED BY <1>0, <1>1, <1>5 DEF IInv

\* Whatever the texts, the size of the history and the order of keys,
\* answers and timers: the query is sound, of its requests at most one is
\* awaited and that one is about the text in the line, and the ring is a
\* list without repetitions.
THEOREM Invariance == Spec => []IInv
<1>1. Init => IInv
  BY InitInvariant
<1>2. IInv /\ [Next]_vars => IInv'
  BY NextInvariant
<1>. QED BY <1>1, <1>2, PTL DEF Spec

\* wedln.c, edln.c: the cursor and the selection are in the text, and the
\* completion selected in a list that is current is in the line.
THEOREM ShownIsThere == Spec => []LineAsShown
<1>1. IInv => LineAsShown
  <2>. SUFFICES ASSUME IInv PROVE LineAsShown
    OBVIOUS
  <2>1. SoundQuery(q) /\ SelectedShown(q)
    BY DEF IInv, FineQuery
  <2>2. CursorInText
    BY <2>1 DEF CursorInText, SoundQuery
  <2>3. SelectedIsInLine
    BY <2>1 DEF SelectedIsInLine, SelectedShown, SelectedText
  <2>. QED BY <2>2, <2>3 DEF LineAsShown
<1>. QED BY <1>1, Invariance, PTL

\* edln.c edln_history_next: going back often enough gives the text that was
\* there before the history was browsed, wherever it was browsed to and
\* whatever other queries did to the history meanwhile.
THEOREM TextComesBack == Spec => []OwnTextReturns
<1>1. IInv => OwnTextReturns
  <2>. SUFFICES ASSUME IInv, NEW m \in BOOLEAN
                PROVE  /\ Returned(HistoryPrev(q, m)).line.p = Returned(q).line.p
                       /\ Returned(HistoryPrev(q, m)).histent = -1
    BY DEF OwnTextReturns
  <2>. DEFINE s == HistoryPrev(q, m)
  <2>1. SoundHistory(hist) /\ FineQuery(q)
    BY DEF IInv, KeptHistory
  <2>2. FineQuery(s) /\ OwnText(s) = OwnText(q)
    BY <2>1, PrevFine
  <2>. HIDE DEF s
  <2>3. Returned(s).line.p = OwnText(s) /\ Returned(s).histent = -1
    BY <2>1, <2>2, ReturnedIs DEF FineQuery
  <2>4. Returned(q).line.p = OwnText(q)
    BY <2>1, ReturnedIs DEF FineQuery
  <2>. QED BY <2>2, <2>3, <2>4 DEF s
<1>. QED BY <1>1, Invariance, PTL

\* Only an answer takes a proxy away without an act of the user.
LEMMA OnlyAnswers ==
    ASSUME IInv, Next, NEW p \in proxies, proxies' = proxies \ {p},
           acts' = acts
    PROVE  Answer(p)
<1>1. acts' # acts + 1
  BY DEF IInv
<1>2. ASSUME NEW o \in proxies, Answer(o) PROVE o = p
  BY <1>2 DEF Answer
<1>3. ~TimedComplete
  BY DEF TimedComplete
<1>. QED
  BY <1>1, <1>2, <1>3
     DEF Next, Open, Edit, Paste, CutText, Browse, Complete, Finish, Cancel,
         Elsewhere, Restart, UserActs

\* complete.c complproxy_set_completions: with autoshowcompl an answer leaves
\* the line alone unless the line is still what was asked about, or was cut.
THEOREM LateAnswersChangeNothing == Spec => AnsweredAsAsked
<1>. DEFINE Kept(p) == (autoshow /\ proxies' = proxies \ {p} /\ acts' = acts)
                       => \/ q'.line = q.line \/ ~q.open
                          \/ q.line.p = p.text \/ p.cut
<1>1. IInv /\ [Next]_vars => [\A p \in proxies : Kept(p)]_vars
  <2>. SUFFICES ASSUME IInv, Next, NEW p \in proxies PROVE Kept(p)
    OBVIOUS
  <2>. SUFFICES ASSUME autoshow, proxies' = proxies \ {p}, acts' = acts
                PROVE  q'.line = q.line \/ q.line.p = p.text \/ p.cut
    OBVIOUS
  <2>. QED BY OnlyAnswers, AnswerFine
<1>. QED BY <1>1, Invariance, PTL DEF Spec, AnsweredAsAsked

\* history.c: what is seen of the ring is the list of the last different
\* entries, the latest first, over every push, clear, save and load.
THEOREM RingKeepsRecent == Spec => KeepsRecent
<1>1. Init => Recent!Init
  <2>. SUFFICES ASSUME Init PROVE Recent!Init
    OBVIOUS
  <2>1. SoundHistory(hist) /\ IsInjective(Table(hist))
    BY InitInvariant DEF IInv, KeptHistory
  <2>2. Len(Table(hist)) <= HISTORY_SIZE
    BY <2>1, TableIs
  <2>. QED BY <2>1, <2>2 DEF Recent!Init, Recent!IsInjective, IsInjective
<1>2. IInv /\ [Next]_vars => [Recent!Next]_(Table(hist))
  BY HistoryFollows, HistoryKept DEF IInv
<1>. QED BY <1>1, <1>2, Invariance, PTL DEF Spec, KeepsRecent, Recent!Spec

-----------------------------------------------------------------------------
(* Activity: the counts and the list.                                      *)

LEMMA ShowingFinite ==
    ASSUME TypeOK, NEW m
    PROVE  IsFiniteSet(Showing(m)) /\ Cardinality(Showing(m)) \in Nat
<1>1. Showing(m) \in SUBSET Regions
  BY DEF Showing, Managed
<1>. QED BY <1>1, FS_Subset, FS_CardinalityType, RegionsAssumption

\* With no propagation under way the counts are the numbers themselves.
LEMMA IdleCounts ==
    ASSUME TypeOK, CountsMatch, prop = Idle
    PROVE  \A m \in Regions : mgd[m] = Cardinality(Showing(m))
<1>. SUFFICES ASSUME NEW m \in Regions PROVE mgd[m] = Cardinality(Showing(m))
  OBVIOUS
<1>1. Due(m) = 0
  BY RegionsAssumption DEF Due, Idle
<1>2. mgd[m] \in Nat
  BY DEF TypeOK
<1>. QED BY <1>1, <1>2 DEF CountsMatch

\* One more region shows activity below p, or none if p is None: the counts
\* are right when p is due one.
LEMMA CountAdded ==
    ASSUME TypeOK, TypeOK', NEW c \in [Regions -> Nat], mgd' = c,
           \A m \in Regions : c[m] = Cardinality(Showing(m)),
           NEW r \in Regions, NEW p \in Regions \cup {None},
           p \in Regions => r \notin Showing(p),
           \A m \in Regions : Showing(m)' = IF m = p THEN Showing(m) \cup {r}
                                            ELSE Showing(m),
           prop' = Propagate("mark", p)
    PROVE  CountsMatch'
<1>. SUFFICES ASSUME NEW m \in Regions
              PROVE  mgd'[m] + Due(m)' = Cardinality(Showing(m)')
  BY DEF CountsMatch
<1>1. c[m] \in Nat /\ mgd'[m] = c[m]
  OBVIOUS
<1>2. IsFiniteSet(Showing(m)) /\ Cardinality(Showing(m)) = c[m]
  BY ShowingFinite
<1>3. CASE m = p
  <2>1. Due(m)' = 1
    BY <1>3, RegionsAssumption DEF Due, Propagate
  <2>2. Cardinality(Showing(m)') = c[m] + 1
    BY <1>2, <1>3, FS_AddElement
  <2>. QED BY <1>1, <2>1, <2>2
<1>4. CASE m # p
  <2>1. Due(m)' = 0
    BY <1>4, RegionsAssumption DEF Due, Propagate, Idle
  <2>2. Showing(m)' = Showing(m)
    BY <1>4
  <2>. QED BY <1>1, <1>2, <2>1, <2>2
<1>. QED BY <1>3, <1>4

\* One region less shows activity below p.
LEMMA CountRemoved ==
    ASSUME TypeOK, TypeOK', NEW c \in [Regions -> Nat], mgd' = c,
           \A m \in Regions : c[m] = Cardinality(Showing(m)),
           NEW r \in Regions, NEW p \in Regions \cup {None},
           p \in Regions => r \in Showing(p),
           \A m \in Regions : Showing(m)' = IF m = p THEN Showing(m) \ {r}
                                            ELSE Showing(m),
           prop' = Propagate("clear", p)
    PROVE  CountsMatch'
<1>. SUFFICES ASSUME NEW m \in Regions
              PROVE  mgd'[m] + Due(m)' = Cardinality(Showing(m)')
  BY DEF CountsMatch
<1>1. c[m] \in Nat /\ mgd'[m] = c[m]
  OBVIOUS
<1>2. IsFiniteSet(Showing(m)) /\ Cardinality(Showing(m)) = c[m]
  BY ShowingFinite
<1>3. CASE m = p
  <2>1. Due(m)' = -1
    BY <1>3, RegionsAssumption DEF Due, Propagate
  <2>2. Cardinality(Showing(m)') = c[m] - 1
    BY <1>2, <1>3, FS_RemoveElement
  <2>. QED BY <1>1, <2>1, <2>2
<1>4. CASE m # p
  <2>1. Due(m)' = 0
    BY <1>4, RegionsAssumption DEF Due, Propagate, Idle
  <2>2. Showing(m)' = Showing(m)
    BY <1>4
  <2>. QED BY <1>1, <1>2, <2>1, <2>2
<1>. QED BY <1>3, <1>4

\* Nothing changes below any manager.
LEMMA CountKept ==
    ASSUME TypeOK, TypeOK', NEW c \in [Regions -> Nat], mgd' = c,
           \A m \in Regions : c[m] = Cardinality(Showing(m)),
           \A m \in Regions : Showing(m)' = Showing(m),
           prop' = Idle
    PROVE  CountsMatch'
<1>. SUFFICES ASSUME NEW m \in Regions
              PROVE  mgd'[m] + Due(m)' = Cardinality(Showing(m)')
  BY DEF CountsMatch
<1>1. c[m] \in Nat /\ mgd'[m] = c[m] /\ Cardinality(Showing(m)') = c[m]
  OBVIOUS
<1>2. Due(m)' = 0
  BY RegionsAssumption DEF Due, Idle
<1>. QED BY <1>1, <1>2

-----------------------------------------------------------------------------
(* The parts of the invariant, action by action.  First, types.            *)

LEMMA InitHolds == ActivityInit => ActivityInv
<1>. SUFFICES ASSUME ActivityInit PROVE ActivityInv
  OBVIOUS
<1>1. TypeOK
  BY DEF ActivityInit, TypeOK
<1>2. CountsMatch
  <2>. SUFFICES ASSUME NEW m \in Regions
                PROVE  mgd[m] + Due(m) = Cardinality(Showing(m))
    BY DEF CountsMatch
  <2>1. Showing(m) = {} /\ mgd[m] = 0
    BY RegionsAssumption DEF ActivityInit, Showing, Managed
  <2>2. Due(m) = 0
    BY RegionsAssumption DEF ActivityInit, Due, Idle
  <2>. QED BY <2>1, <2>2, FS_EmptySet
<1>3. ActiveIsSilent
  BY DEF ActivityInit, ActiveIsSilent
<1>4. ListedHaveActivity
  BY DEF ActivityInit, ListedHaveActivity, Listed, ListedOnce, ToSet
<1>5. Hierarchy
  BY DEF ActivityInit, Hierarchy
<1>. QED BY <1>1, <1>2, <1>3, <1>4, <1>5 DEF ActivityInv

LEMMA PropagateType ==
    ASSUME NEW d \in {"mark", "clear"}, NEW m \in Regions \cup {None}
    PROVE  \/ Propagate(d, m) = Idle
           \/ Propagate(d, m) \in [dir : {"mark", "clear"}, at : Regions]
BY DEF Propagate

\* Where the list goes, the flag goes: what ClearFlag leaves.
LEMMA ClearFlagKeeps ==
    ASSUME ActivityInv, NEW r \in Regions, ClearFlag(r), prop = Idle,
           manager' = manager, mgd' = mgd
    PROVE  /\ act' = act \ {r}
           /\ actlist' \in Seq(Regions \cup {Dead})
           /\ \/ prop' = Idle
              \/ prop' \in [dir : {"mark", "clear"}, at : Regions]
           /\ Listed(actlist') \subseteq Listed(actlist) \ {r}
           /\ ListedOnce(actlist')
           /\ TypeOK' => CountsMatch'
<1>1. TypeOK /\ CountsMatch /\ ListedHaveActivity
  BY DEF ActivityInv
<1>2. actlist \in Seq(Regions \cup {Dead}) /\ ListedOnce(actlist)
  BY <1>1 DEF TypeOK, ListedHaveActivity
<1>3. \A m \in Regions : mgd[m] = Cardinality(Showing(m))
  BY <1>1, IdleCounts
<1>4. mgd \in [Regions -> Nat] /\ manager \in [Regions -> Regions \cup {None}]
  BY <1>1 DEF TypeOK
<1>5. CASE r \notin act
  <2>1. act' = act /\ actlist' = actlist /\ prop' = prop
    BY <1>5 DEF ClearFlag
  <2>2. Listed(actlist) \subseteq Listed(actlist) \ {r}
    BY <1>1, <1>5 DEF ListedHaveActivity
  <2>3. \A m \in Regions : Showing(m)' = Showing(m)
    BY <2>1 DEF Showing, Managed, ActivityR
  <2>4. TypeOK' => CountsMatch'
    BY <1>1, <1>3, <1>4, <2>1, <2>3, CountKept
  <2>. QED BY <1>2, <1>5, <2>1, <2>2, <2>4
<1>6. CASE r \in act
  <2>1. act' = act \ {r} /\ actlist' = ObjListRemove(actlist, r)
    BY <1>6 DEF ClearFlag
  <2>2. /\ actlist' \in Seq(Regions \cup {Dead})
        /\ Listed(actlist') \subseteq Listed(actlist) \ {r}
        /\ ListedOnce(actlist')
    BY <1>2, <2>1, RemoveElements
  <2>3. CASE mgd[r] = 0
    <3>1. prop' = Propagate("clear", manager[r])
      BY <1>6, <2>3 DEF ClearFlag
    <3>2. manager[r] \in Regions \cup {None}
      BY <1>4
    <3>3. manager[r] \in Regions => r \in Showing(manager[r])
      BY <1>6 DEF Showing, Managed, ActivityR
    <3>4. \A m \in Regions : Showing(m)' = IF m = manager[r] THEN Showing(m) \ {r}
                                           ELSE Showing(m)
      BY <2>1, <2>3 DEF Showing, Managed, ActivityR
    <3>5. TypeOK' => CountsMatch'
      BY <1>1, <1>3, <1>4, <3>1, <3>2, <3>3, <3>4, CountRemoved
    <3>. QED BY <2>1, <2>2, <3>1, <3>2, <3>5, PropagateType
  <2>4. CASE mgd[r] # 0
    <3>1. prop' = Idle
      BY <1>6, <2>4 DEF ClearFlag
    <3>2. \A m \in Regions : Showing(m)' = Showing(m)
      BY <2>1, <2>4 DEF Showing, Managed, ActivityR
    <3>3. TypeOK' => CountsMatch'
      BY <1>1, <1>3, <1>4, <3>1, <3>2, CountKept
    <3>. QED BY <2>1, <2>2, <3>1, <3>3
  <2>. QED BY <2>3, <2>4
<1>. QED BY <1>5, <1>6

LEMMA SetActivityKeeps ==
    ASSUME ActivityInv, NEW r \in Regions, SetActivity(r)
    PROVE  ActivityInv'
<1>1. TypeOK /\ CountsMatch /\ ActiveIsSilent /\ ListedHaveActivity /\ Hierarchy
  BY DEF ActivityInv
<1>2. /\ prop = Idle /\ state[r] = "live" /\ r \notin act /\ r \notin active
      /\ act' = act \cup {r} /\ actlist' = ObjListInsertLast(actlist, r)
      /\ prop' = IF mgd[r] = 0 THEN Propagate("mark", manager[r]) ELSE Idle
      /\ UNCHANGED <<state, manager, mgd, detaching, active, pseudo>>
  BY DEF SetActivity
<1>3. /\ mgd \in [Regions -> Nat] /\ manager \in [Regions -> Regions \cup {None}]
      /\ actlist \in Seq(Regions \cup {Dead}) /\ ListedOnce(actlist)
      /\ manager[r] \in Regions \cup {None}
  BY <1>1 DEF TypeOK, ListedHaveActivity
<1>4. r \notin Listed(actlist)
  BY <1>1, <1>2 DEF ListedHaveActivity
<1>5. /\ actlist' \in Seq(Regions \cup {Dead})
      /\ Listed(actlist') \subseteq Listed(actlist) \cup {r}
      /\ ListedOnce(actlist')
  BY <1>2, <1>3, <1>4, InsertLastElements
<1>6. TypeOK'
  <2>1. prop' = Idle \/ prop' \in [dir : {"mark", "clear"}, at : Regions]
    BY <1>2, <1>3, PropagateType
  <2>. QED BY <1>1, <1>2, <1>5, <2>1 DEF TypeOK
<1>7. \A m \in Regions : mgd[m] = Cardinality(Showing(m))
  BY <1>1, <1>2, IdleCounts
<1>8. CountsMatch'
  <2>1. CASE mgd[r] = 0
    <3>1. manager[r] \in Regions => r \notin Showing(manager[r])
      BY <1>2, <2>1 DEF Showing, ActivityR
    <3>2. \A m \in Regions : Showing(m)' = IF m = manager[r] THEN Showing(m) \cup {r}
                                           ELSE Showing(m)
      BY <1>2, <2>1 DEF Showing, Managed, ActivityR
    <3>3. prop' = Propagate("mark", manager[r]) /\ mgd' = mgd
      BY <1>2, <2>1
    <3>. QED BY <1>1, <1>3, <1>6, <1>7, <3>1, <3>2, <3>3, CountAdded
  <2>2. CASE mgd[r] # 0
    <3>1. \A m \in Regions : Showing(m)' = Showing(m)
      BY <1>2, <2>2 DEF Showing, Managed, ActivityR
    <3>2. prop' = Idle /\ mgd' = mgd
      BY <1>2, <2>2
    <3>. QED BY <1>1, <1>3, <1>6, <1>7, <3>1, <3>2, CountKept
  <2>. QED BY <2>1, <2>2
<1>9. ActiveIsSilent' /\ ListedHaveActivity' /\ Hierarchy'
  BY <1>1, <1>2, <1>5 DEF ActiveIsSilent, ListedHaveActivity, Hierarchy
<1>. QED BY <1>6, <1>8, <1>9 DEF ActivityInv

LEMMA UnsetActivityKeeps ==
    ASSUME ActivityInv, NEW r \in Regions, UnsetActivity(r)
    PROVE  ActivityInv'
<1>1. TypeOK /\ ActiveIsSilent /\ ListedHaveActivity /\ Hierarchy
  BY DEF ActivityInv
<1>2. /\ ClearFlag(r) /\ prop = Idle
      /\ UNCHANGED <<state, manager, mgd, detaching, active, pseudo>>
  BY DEF UnsetActivity
<1>3. /\ act' = act \ {r}
      /\ actlist' \in Seq(Regions \cup {Dead})
      /\ prop' = Idle \/ prop' \in [dir : {"mark", "clear"}, at : Regions]
      /\ Listed(actlist') \subseteq Listed(actlist) \ {r}
      /\ ListedOnce(actlist')
      /\ TypeOK' => CountsMatch'
  BY <1>2, ClearFlagKeeps
<1>4. TypeOK'
  BY <1>1, <1>2, <1>3 DEF TypeOK
<1>5. ActiveIsSilent' /\ ListedHaveActivity' /\ Hierarchy'
  BY <1>1, <1>2, <1>3 DEF ActiveIsSilent, ListedHaveActivity, Hierarchy
<1>. QED BY <1>3, <1>4, <1>5 DEF ActivityInv

LEMMA GotFocusKeeps ==
    ASSUME ActivityInv, NEW r \in Regions, GotFocus(r)
    PROVE  ActivityInv'
<1>1. TypeOK /\ ActiveIsSilent /\ ListedHaveActivity /\ Hierarchy
  BY DEF ActivityInv
<1>2. /\ ClearFlag(r) /\ prop = Idle
      /\ active' = active \cup {r}
      /\ pseudo' = {m \in Regions : m \in pseudo \cup ToMark[r]}
      /\ UNCHANGED <<state, manager, mgd, detaching>>
  BY DEF GotFocus
<1>3. /\ act' = act \ {r}
      /\ actlist' \in Seq(Regions \cup {Dead})
      /\ prop' = Idle \/ prop' \in [dir : {"mark", "clear"}, at : Regions]
      /\ Listed(actlist') \subseteq Listed(actlist) \ {r}
      /\ ListedOnce(actlist')
      /\ TypeOK' => CountsMatch'
  BY <1>2, ClearFlagKeeps
<1>4. TypeOK'
  BY <1>1, <1>2, <1>3 DEF TypeOK
<1>5. ActiveIsSilent' /\ ListedHaveActivity' /\ Hierarchy'
  BY <1>1, <1>2, <1>3 DEF ActiveIsSilent, ListedHaveActivity, Hierarchy
<1>. QED BY <1>3, <1>4, <1>5 DEF ActivityInv

LEMMA DetachBeginKeeps ==
    ASSUME ActivityInv, NEW r \in Regions, DetachBegin(r)
    PROVE  ActivityInv'
<1>1. TypeOK /\ ActiveIsSilent /\ ListedHaveActivity /\ Hierarchy
  BY DEF ActivityInv
<1>2. /\ ClearFlag(r) /\ prop = Idle /\ manager[r] # None
      /\ detaching' = detaching \cup {r}
      /\ UNCHANGED <<state, manager, mgd, active, pseudo>>
  BY DEF DetachBegin
<1>3. /\ act' = act \ {r}
      /\ actlist' \in Seq(Regions \cup {Dead})
      /\ prop' = Idle \/ prop' \in [dir : {"mark", "clear"}, at : Regions]
      /\ Listed(actlist') \subseteq Listed(actlist) \ {r}
      /\ ListedOnce(actlist')
      /\ TypeOK' => CountsMatch'
  BY <1>2, ClearFlagKeeps
<1>4. TypeOK'
  BY <1>1, <1>2, <1>3 DEF TypeOK
<1>5. ActiveIsSilent' /\ ListedHaveActivity' /\ Hierarchy'
  BY <1>1, <1>2, <1>3 DEF ActiveIsSilent, ListedHaveActivity, Hierarchy
<1>. QED BY <1>3, <1>4, <1>5 DEF ActivityInv

\* A step that leaves flags, counts, managers and the list alone.
LEMMA LostFocusKeeps ==
    ASSUME ActivityInv, NEW r \in Regions, LostFocus(r)
    PROVE  ActivityInv'
<1>1. TypeOK /\ CountsMatch /\ ActiveIsSilent /\ ListedHaveActivity /\ Hierarchy
  BY DEF ActivityInv
<1>2. /\ prop = Idle
      /\ active' = active \ {r} /\ pseudo' = pseudo \ ToUnmark[r]
      /\ UNCHANGED <<state, manager, act, mgd, actlist, prop, detaching>>
  BY DEF LostFocus
<1>3. TypeOK'
  BY <1>1, <1>2 DEF TypeOK
<1>4. CountsMatch'
  <2>1. \A m \in Regions : Showing(m)' = Showing(m) /\ Due(m)' = Due(m)
    BY <1>2 DEF Showing, Managed, ActivityR, Due
  <2>. QED BY <1>1, <1>2, <2>1 DEF CountsMatch
<1>5. ActiveIsSilent' /\ ListedHaveActivity' /\ Hierarchy'
  BY <1>1, <1>2 DEF ActiveIsSilent, ListedHaveActivity, Hierarchy
<1>. QED BY <1>3, <1>4, <1>5 DEF ActivityInv

\* m is counted one up; it is the next to be counted if it was clear.
LEMMA MarkStepKeeps ==
    ASSUME ActivityInv, MarkStep
    PROVE  ActivityInv'
<1>. DEFINE m == prop.at
<1>1. TypeOK /\ CountsMatch /\ ActiveIsSilent /\ ListedHaveActivity /\ Hierarchy
  BY DEF ActivityInv
<1>2. /\ prop.dir = "mark" /\ mgd' = [mgd EXCEPT ![m] = @ + 1]
      /\ prop' = IF ActivityR(m) THEN Idle ELSE Propagate("mark", manager[m])
      /\ UNCHANGED <<state, manager, act, actlist, detaching, active, pseudo>>
  BY DEF MarkStep
<1>3. m \in Regions /\ prop \in [dir : {"mark", "clear"}, at : Regions]
  BY <1>1, <1>2 DEF TypeOK, Idle
<1>. HIDE DEF m
<1>4. /\ mgd \in [Regions -> Nat] /\ manager[m] \in Regions \cup {None}
  BY <1>1, <1>3 DEF TypeOK
<1>5. TypeOK'
  <2>1. prop' = Idle \/ prop' \in [dir : {"mark", "clear"}, at : Regions]
    BY <1>2, <1>4, PropagateType
  <2>2. mgd' \in [Regions -> Nat]
    BY <1>2, <1>3, <1>4
  <2>. QED BY <1>1, <1>2, <2>1, <2>2 DEF TypeOK
<1>6. \A n \in Regions : mgd'[n] = Cardinality(Showing(n))
  <2>. SUFFICES ASSUME NEW n \in Regions PROVE mgd'[n] = Cardinality(Showing(n))
    OBVIOUS
  <2>1. Due(n) = IF n = m THEN 1 ELSE 0
    BY <1>2 DEF Due, m
  <2>2. mgd[n] \in Nat /\ mgd[n] + Due(n) = Cardinality(Showing(n))
    BY <1>1, <1>4 DEF CountsMatch
  <2>3. mgd'[n] = IF n = m THEN mgd[n] + 1 ELSE mgd[n]
    BY <1>2, <1>4
  <2>. QED BY <2>1, <2>2, <2>3
<1>7. mgd' \in [Regions -> Nat] /\ mgd'[m] # 0
  BY <1>2, <1>3, <1>4
<1>8. \A r \in Regions : r # m => (mgd'[r] = mgd[r])
  BY <1>2, <1>4
<1>9. CountsMatch'
  <2>1. CASE ActivityR(m)
    <3>1. \A n \in Regions : Showing(n)' = Showing(n)
      BY <1>2, <1>7, <1>8, <2>1 DEF Showing, Managed, ActivityR
    <3>2. prop' = Idle
      BY <1>2, <2>1
    <3>. QED BY <1>1, <1>5, <1>6, <1>7, <3>1, <3>2, CountKept
  <2>2. CASE ~ActivityR(m)
    <3>1. prop' = Propagate("mark", manager[m])
      BY <1>2, <2>2
    <3>2. manager[m] \in Regions => m \notin Showing(manager[m])
      BY <2>2 DEF Showing
    <3>3. \A n \in Regions : Showing(n)' = IF n = manager[m] THEN Showing(n) \cup {m}
                                           ELSE Showing(n)
      BY <1>2, <1>3, <1>7, <1>8, <2>2 DEF Showing, Managed, ActivityR
    <3>. QED BY <1>1, <1>3, <1>4, <1>5, <1>6, <1>7, <3>1, <3>2, <3>3, CountAdded
  <2>. QED BY <2>1, <2>2
<1>10. ActiveIsSilent' /\ ListedHaveActivity' /\ Hierarchy'
  BY <1>1, <1>2 DEF ActiveIsSilent, ListedHaveActivity, Hierarchy
<1>. QED BY <1>5, <1>9, <1>10 DEF ActivityInv

LEMMA ClearStepKeeps ==
    ASSUME ActivityInv, ClearStep
    PROVE  ActivityInv'
<1>. DEFINE m == prop.at
            left == IF mgd[m] = 0 THEN 0 ELSE mgd[m] - 1
<1>1. TypeOK /\ CountsMatch /\ ActiveIsSilent /\ ListedHaveActivity /\ Hierarchy
  BY DEF ActivityInv
<1>2. /\ prop.dir = "clear" /\ mgd' = [mgd EXCEPT ![m] = left]
      /\ prop' = IF m \in act \/ left # 0 THEN Idle
                 ELSE Propagate("clear", manager[m])
      /\ UNCHANGED <<state, manager, act, actlist, detaching, active, pseudo>>
  BY DEF ClearStep
<1>3. m \in Regions /\ prop \in [dir : {"mark", "clear"}, at : Regions]
  BY <1>1, <1>2 DEF TypeOK, Idle
<1>0. \A n \in Regions : Due(n) = IF n = m THEN -1 ELSE 0
  BY <1>2 DEF Due
<1>. HIDE DEF m
<1>4. /\ mgd \in [Regions -> Nat] /\ manager[m] \in Regions \cup {None}
  BY <1>1, <1>3 DEF TypeOK
\* There is something to take off, so that the code's maxof(0, ...) is idle.
<1>5. mgd[m] # 0 /\ left = mgd[m] - 1 /\ left \in Nat
  <2>1. mgd[m] + (-1) = Cardinality(Showing(m)) /\ mgd[m] \in Nat
    BY <1>0, <1>1, <1>3, <1>4 DEF CountsMatch
  <2>2. Cardinality(Showing(m)) \in Nat
    BY <1>1, ShowingFinite
  <2>. QED BY <2>1, <2>2
<1>. HIDE DEF left
<1>6. TypeOK'
  <2>1. prop' = Idle \/ prop' \in [dir : {"mark", "clear"}, at : Regions]
    BY <1>2, <1>4, PropagateType
  <2>2. mgd' \in [Regions -> Nat]
    BY <1>2, <1>4, <1>5
  <2>. QED BY <1>1, <1>2, <2>1, <2>2 DEF TypeOK
<1>7. \A n \in Regions : mgd'[n] = Cardinality(Showing(n))
  <2>. SUFFICES ASSUME NEW n \in Regions PROVE mgd'[n] = Cardinality(Showing(n))
    OBVIOUS
  <2>1. mgd[n] \in Nat /\ mgd[n] + Due(n) = Cardinality(Showing(n))
    BY <1>1, <1>4 DEF CountsMatch
  <2>2. mgd'[n] = IF n = m THEN mgd[n] - 1 ELSE mgd[n]
    BY <1>2, <1>4, <1>5
  <2>. QED BY <1>0, <2>1, <2>2
<1>8. mgd' \in [Regions -> Nat] /\ mgd'[m] = left
  BY <1>2, <1>3, <1>4, <1>5
<1>9. \A r \in Regions : r # m => (mgd'[r] = mgd[r])
  BY <1>2, <1>4
<1>10. CountsMatch'
  <2>1. CASE m \in act \/ left # 0
    <3>1. \A n \in Regions : Showing(n)' = Showing(n)
      BY <1>2, <1>5, <1>8, <1>9, <2>1 DEF Showing, Managed, ActivityR
    <3>2. prop' = Idle
      BY <1>2, <2>1
    <3>. QED BY <1>1, <1>6, <1>7, <1>8, <3>1, <3>2, CountKept
  <2>2. CASE ~(m \in act \/ left # 0)
    <3>1. prop' = Propagate("clear", manager[m])
      BY <1>2, <2>2
    <3>2. manager[m] \in Regions => m \in Showing(manager[m])
      BY <1>3, <1>5 DEF Showing, Managed, ActivityR
    <3>3. \A n \in Regions : Showing(n)' = IF n = manager[m] THEN Showing(n) \ {m}
                                           ELSE Showing(n)
      BY <1>2, <1>3, <1>8, <1>9, <2>2 DEF Showing, Managed, ActivityR
    <3>. QED BY <1>1, <1>3, <1>4, <1>6, <1>7, <1>8, <3>1, <3>2, <3>3, CountRemoved
  <2>. QED BY <2>1, <2>2
<1>11. ActiveIsSilent' /\ ListedHaveActivity' /\ Hierarchy'
  BY <1>1, <1>2 DEF ActiveIsSilent, ListedHaveActivity, Hierarchy
<1>. QED BY <1>6, <1>10, <1>11 DEF ActivityInv

LEMMA AttachKeeps ==
    ASSUME ActivityInv, NEW r \in Regions, NEW m \in Regions, Attach(r, m)
    PROVE  ActivityInv'
<1>1. TypeOK /\ CountsMatch /\ ActiveIsSilent /\ ListedHaveActivity /\ Hierarchy
  BY DEF ActivityInv
<1>2. /\ prop = Idle /\ state[r] = "live" /\ state[m] = "live"
      /\ r \notin Roots /\ manager[r] = None
      /\ manager' = [manager EXCEPT ![r] = m]
      /\ prop' = IF ActivityR(r) THEN Propagate("mark", m) ELSE Idle
      /\ UNCHANGED <<state, act, mgd, actlist, detaching, active>>
  BY DEF Attach
<1>3. pseudo' \subseteq Regions
  BY <1>1 DEF Attach, TypeOK
<1>4. mgd \in [Regions -> Nat] /\ manager \in [Regions -> Regions \cup {None}]
  BY <1>1 DEF TypeOK
<1>5. TypeOK'
  <2>1. prop' = Idle \/ prop' \in [dir : {"mark", "clear"}, at : Regions]
    BY <1>2, PropagateType
  <2>2. manager' \in [Regions -> Regions \cup {None}]
    BY <1>2, <1>4
  <2>. QED BY <1>1, <1>2, <1>3, <2>1, <2>2 DEF TypeOK
<1>6. \A n \in Regions : mgd[n] = Cardinality(Showing(n))
  BY <1>1, <1>2, IdleCounts
<1>7. \A x \in Regions : manager'[x] = IF x = r THEN m ELSE manager[x]
  BY <1>2, <1>4
<1>8. CountsMatch'
  <2>1. CASE ActivityR(r)
    <3>1. prop' = Propagate("mark", m) /\ mgd' = mgd
      BY <1>2, <2>1
    <3>2. r \notin Showing(m)
      BY <1>2, RegionsAssumption DEF Showing, Managed
    <3>3. \A n \in Regions : Showing(n)' = IF n = m THEN Showing(n) \cup {r}
                                           ELSE Showing(n)
      BY <1>2, <1>7, <2>1, RegionsAssumption DEF Showing, Managed, ActivityR
    <3>. QED BY <1>1, <1>4, <1>5, <1>6, <3>1, <3>2, <3>3, CountAdded
  <2>2. CASE ~ActivityR(r)
    <3>1. \A n \in Regions : Showing(n)' = Showing(n)
      BY <1>2, <1>7, <2>2 DEF Showing, Managed, ActivityR
    <3>2. prop' = Idle /\ mgd' = mgd
      BY <1>2, <2>2
    <3>. QED BY <1>1, <1>4, <1>5, <1>6, <3>1, <3>2, CountKept
  <2>. QED BY <2>1, <2>2
<1>9. ActiveIsSilent' /\ ListedHaveActivity'
  BY <1>1, <1>2 DEF ActiveIsSilent, ListedHaveActivity
<1>10. Hierarchy'
  BY <1>1, <1>2, <1>7, RegionsAssumption DEF Hierarchy
<1>. QED BY <1>5, <1>8, <1>9, <1>10 DEF ActivityInv

LEMMA UnsetManagerKeeps ==
    ASSUME ActivityInv, NEW r \in Regions, UnsetManager(r)
    PROVE  ActivityInv'
<1>. DEFINE p == manager[r]
<1>1. TypeOK /\ CountsMatch /\ ActiveIsSilent /\ ListedHaveActivity /\ Hierarchy
  BY DEF ActivityInv
<1>2. /\ prop = Idle /\ r \in detaching
      /\ manager' = [manager EXCEPT ![r] = None]
      /\ detaching' = detaching \ {r}
      /\ pseudo' = pseudo \ ToUnmark[r]
      /\ prop' = IF ActivityR(r) THEN Propagate("clear", p) ELSE Idle
      /\ UNCHANGED <<state, act, mgd, actlist, active>>
  BY DEF UnsetManager
<1>3. mgd \in [Regions -> Nat] /\ manager \in [Regions -> Regions \cup {None}]
  BY <1>1 DEF TypeOK
<1>4. p \in Regions
  BY <1>1, <1>2, <1>3 DEF Hierarchy
<1>5. TypeOK'
  <2>1. prop' = Idle \/ prop' \in [dir : {"mark", "clear"}, at : Regions]
    BY <1>2, <1>4, PropagateType
  <2>2. manager' \in [Regions -> Regions \cup {None}]
    BY <1>2, <1>3
  <2>. QED BY <1>1, <1>2, <2>1, <2>2 DEF TypeOK
<1>6. \A n \in Regions : mgd[n] = Cardinality(Showing(n))
  BY <1>1, <1>2, IdleCounts
<1>7. \A x \in Regions : manager'[x] = IF x = r THEN None ELSE manager[x]
  BY <1>2, <1>3
<1>8. CountsMatch'
  <2>1. CASE ActivityR(r)
    <3>1. prop' = Propagate("clear", p) /\ mgd' = mgd
      BY <1>2, <2>1
    <3>2. r \in Showing(p)
      BY <2>1 DEF Showing, Managed
    <3>3. \A n \in Regions : Showing(n)' = IF n = p THEN Showing(n) \ {r}
                                           ELSE Showing(n)
      BY <1>2, <1>7, RegionsAssumption DEF Showing, Managed, ActivityR
    <3>. QED BY <1>1, <1>3, <1>4, <1>5, <1>6, <3>1, <3>2, <3>3, CountRemoved
  <2>2. CASE ~ActivityR(r)
    <3>1. \A n \in Regions : Showing(n)' = Showing(n)
      BY <1>2, <1>7, <2>2 DEF Showing, Managed, ActivityR
    <3>2. prop' = Idle /\ mgd' = mgd
      BY <1>2, <2>2
    <3>. QED BY <1>1, <1>3, <1>5, <1>6, <3>1, <3>2, CountKept
  <2>. QED BY <2>1, <2>2
<1>9. ActiveIsSilent' /\ ListedHaveActivity'
  BY <1>1, <1>2 DEF ActiveIsSilent, ListedHaveActivity
<1>10. Hierarchy'
  BY <1>1, <1>2, <1>7 DEF Hierarchy
<1>. QED BY <1>5, <1>8, <1>9, <1>10 DEF ActivityInv

LEMMA CreateKeeps ==
    ASSUME ActivityInv, NEW r \in Regions, Create(r)
    PROVE  ActivityInv'
<1>1. TypeOK /\ CountsMatch /\ ActiveIsSilent /\ ListedHaveActivity /\ Hierarchy
  BY DEF ActivityInv
<1>2. /\ prop = Idle /\ state[r] = "freed"
      /\ state' = [state EXCEPT ![r] = "live"]
      /\ act' = act \ {r} /\ active' = active \ {r} /\ pseudo' = pseudo \ {r}
      /\ mgd' = [mgd EXCEPT ![r] = 0]
      /\ UNCHANGED <<manager, actlist, prop, detaching>>
  BY DEF Create
<1>3. /\ mgd \in [Regions -> Nat]
      /\ state \in [Regions -> {"live", "dest", "freed"}]
  BY <1>1 DEF TypeOK
<1>4. TypeOK'
  <2>1. mgd' \in [Regions -> Nat]
    BY <1>2, <1>3
  <2>2. state' \in [Regions -> {"live", "dest", "freed"}]
    BY <1>2, <1>3
  <2>. QED BY <1>1, <1>2, <2>1, <2>2 DEF TypeOK
\* Nothing is managed by a region that does not exist, and it by nothing.
<1>5. manager[r] = None /\ Managed(r) = {}
  BY <1>1, <1>2, RegionsAssumption DEF Hierarchy, Managed
<1>6. \A n \in Regions : mgd[n] = Cardinality(Showing(n))
  BY <1>1, <1>2, IdleCounts
<1>7. mgd[r] = 0
  <2>1. Showing(r) = {}
    BY <1>5 DEF Showing
  <2>. QED BY <1>6, <2>1, FS_EmptySet
<1>8. mgd' = mgd
  BY <1>2, <1>3, <1>7
<1>9. CountsMatch'
  <2>1. \A n \in Regions : Showing(n)' = Showing(n)
    BY <1>2, <1>5, <1>8, RegionsAssumption DEF Showing, Managed, ActivityR
  <2>2. prop' = Idle
    BY <1>2
  <2>. QED BY <1>1, <1>3, <1>4, <1>6, <1>8, <2>1, <2>2, CountKept
<1>10. \A x \in Regions : state'[x] = IF x = r THEN "live" ELSE state[x]
  BY <1>2, <1>3
<1>11. ActiveIsSilent'
  BY <1>1, <1>2, <1>10 DEF ActiveIsSilent
<1>12. ListedHaveActivity'
  <2>1. r \notin Listed(actlist)
    BY <1>1, <1>2 DEF ListedHaveActivity
  <2>2. Listed(actlist) \subseteq Regions
    BY <1>1 DEF TypeOK, Listed, ToSet
  <2>. QED BY <1>1, <1>2, <1>10, <2>1, <2>2 DEF ListedHaveActivity
<1>13. Hierarchy'
  <2>1. \A x \in Regions : manager[x] # None => manager[x] \in Regions
    BY <1>1 DEF TypeOK
  <2>. QED BY <1>1, <1>2, <1>10, <2>1 DEF Hierarchy
<1>. QED BY <1>4, <1>9, <1>11, <1>12, <1>13 DEF ActivityInv

LEMMA DestroyBeginKeeps ==
    ASSUME ActivityInv, NEW r \in Regions, DestroyBegin(r)
    PROVE  ActivityInv'
<1>1. TypeOK /\ CountsMatch /\ ActiveIsSilent /\ ListedHaveActivity /\ Hierarchy
  BY DEF ActivityInv
<1>2. /\ prop = Idle /\ state[r] = "live" /\ r \notin Roots
      /\ state' = [state EXCEPT ![r] = "dest"]
      /\ actlist' = WatchHandler(actlist, r)
      /\ UNCHANGED <<manager, act, mgd, prop, detaching, active, pseudo>>
  BY DEF DestroyBegin
<1>3. /\ state \in [Regions -> {"live", "dest", "freed"}]
      /\ actlist \in Seq(Regions \cup {Dead}) /\ ListedOnce(actlist)
  BY <1>1 DEF TypeOK, ListedHaveActivity
<1>4. /\ actlist' \in Seq(Regions \cup {Dead})
      /\ Listed(actlist') \subseteq Listed(actlist) \ {r}
      /\ ListedOnce(actlist')
  BY <1>2, <1>3, WatchHandlerElements, RegionsAssumption
<1>5. TypeOK'
  <2>1. state' \in [Regions -> {"live", "dest", "freed"}]
    BY <1>2, <1>3
  <2>. QED BY <1>1, <1>2, <1>4, <2>1 DEF TypeOK
<1>6. \A x \in Regions : state'[x] = IF x = r THEN "dest" ELSE state[x]
  BY <1>2, <1>3
<1>7. CountsMatch'
  <2>1. \A m \in Regions : Showing(m)' = Showing(m) /\ Due(m)' = Due(m)
    BY <1>2 DEF Showing, Managed, ActivityR, Due
  <2>. QED BY <1>1, <1>2, <2>1 DEF CountsMatch
<1>8. ActiveIsSilent'
  BY <1>1, <1>2, <1>6 DEF ActiveIsSilent
<1>9. ListedHaveActivity'
  <2>1. Listed(actlist') \subseteq Regions
    BY <1>4 DEF Listed, ToSet
  <2>. QED BY <1>1, <1>2, <1>4, <1>6, <2>1 DEF ListedHaveActivity
<1>10. Hierarchy'
  <2>1. \A x \in Regions : manager[x] # None => manager[x] \in Regions
    BY <1>1 DEF TypeOK
  <2>. QED BY <1>1, <1>2, <1>6, <2>1 DEF Hierarchy
<1>. QED BY <1>5, <1>7, <1>8, <1>9, <1>10 DEF ActivityInv

LEMMA DestroyEndKeeps ==
    ASSUME ActivityInv, NEW r \in Regions, DestroyEnd(r)
    PROVE  ActivityInv'
<1>1. TypeOK /\ CountsMatch /\ ActiveIsSilent /\ ListedHaveActivity /\ Hierarchy
  BY DEF ActivityInv
<1>2. /\ prop = Idle /\ state[r] = "dest"
      /\ manager[r] = None /\ Managed(r) = {}
      /\ state' = [state EXCEPT ![r] = "freed"]
      /\ UNCHANGED <<manager, act, mgd, actlist, prop, detaching, active, pseudo>>
  BY DEF DestroyEnd
<1>3. state \in [Regions -> {"live", "dest", "freed"}]
  BY <1>1 DEF TypeOK
<1>4. TypeOK'
  <2>1. state' \in [Regions -> {"live", "dest", "freed"}]
    BY <1>2, <1>3
  <2>. QED BY <1>1, <1>2, <2>1 DEF TypeOK
<1>5. \A x \in Regions : state'[x] = IF x = r THEN "freed" ELSE state[x]
  BY <1>2, <1>3
<1>6. CountsMatch'
  <2>1. \A m \in Regions : Showing(m)' = Showing(m) /\ Due(m)' = Due(m)
    BY <1>2 DEF Showing, Managed, ActivityR, Due
  <2>. QED BY <1>1, <1>2, <2>1 DEF CountsMatch
<1>7. ActiveIsSilent'
  BY <1>1, <1>2, <1>5 DEF ActiveIsSilent
<1>8. ListedHaveActivity'
  <2>1. r \notin Listed(actlist)
    BY <1>1, <1>2 DEF ListedHaveActivity
  <2>2. Listed(actlist) \subseteq Regions
    BY <1>1 DEF TypeOK, Listed, ToSet
  <2>. QED BY <1>1, <1>2, <1>5, <2>1, <2>2 DEF ListedHaveActivity
<1>9. Hierarchy'
  <2>1. \A x \in Regions : manager[x] # None => manager[x] \in Regions /\ manager[x] # r
    BY <1>1, <1>2 DEF TypeOK, Managed
  <2>. QED BY <1>1, <1>2, <1>5, <2>1 DEF Hierarchy
<1>. QED BY <1>4, <1>6, <1>7, <1>8, <1>9 DEF ActivityInv

-----------------------------------------------------------------------------

LEMMA StepKeeps == ActivityInv /\ [ActivityNext]_activityVars => ActivityInv'
<1>. SUFFICES ASSUME ActivityInv, [ActivityNext]_activityVars PROVE ActivityInv'
  OBVIOUS
<1>1. CASE UNCHANGED activityVars
  BY <1>1 DEF activityVars, ActivityInv, TypeOK, CountsMatch, ActiveIsSilent,
     ListedHaveActivity, Hierarchy, Showing, Managed, ActivityR, Due
<1>2. CASE ActivityNext
  <2>1. ASSUME NEW r \in Regions,
               \/ SetActivity(r) \/ UnsetActivity(r) \/ GotFocus(r) \/ LostFocus(r)
               \/ DetachBegin(r) \/ UnsetManager(r)
        PROVE  ActivityInv'
    BY <2>1, SetActivityKeeps, UnsetActivityKeeps, GotFocusKeeps,
       LostFocusKeeps, DetachBeginKeeps, UnsetManagerKeeps
  <2>2. ASSUME NEW r \in Regions, Create(r) \/ DestroyBegin(r) \/ DestroyEnd(r)
        PROVE  ActivityInv'
    BY <2>2, CreateKeeps, DestroyBeginKeeps, DestroyEndKeeps
  <2>3. ASSUME NEW r \in Regions, NEW m \in Regions, Attach(r, m) PROVE ActivityInv'
    BY <2>3, AttachKeeps
  <2>4. CASE MarkStep \/ ClearStep
    BY <2>4, MarkStepKeeps, ClearStepKeeps
  <2>. QED BY <1>2, <2>1, <2>2, <2>3, <2>4 DEF ActivityNext
<1>. QED BY <1>1, <1>2

THEOREM InvariantHolds == ActivitySpec => []ActivityInv
<1>. QED BY InitHolds, StepKeeps, PTL DEF ActivitySpec

\* TypeOK: for any finite set of regions.
THEOREM TypesHold == ActivitySpec => []TypeOK
<1>1. ActivityInv => TypeOK
  BY DEF ActivityInv
<1>. QED BY <1>1, InvariantHolds, PTL

\* CountsMatch: the activity counts of the managers are exact.
THEOREM CountsExact == ActivitySpec => []CountsMatch
<1>1. ActivityInv => CountsMatch
  BY DEF ActivityInv
<1>. QED BY <1>1, InvariantHolds, PTL

\* ListedHaveActivity: the activity list holds no region that is gone, nor one
\* without the flag, nor one twice.
THEOREM ListHonest == ActivitySpec => []ListedHaveActivity
<1>1. ActivityInv => ListedHaveActivity
  BY DEF ActivityInv
<1>. QED BY <1>1, InvariantHolds, PTL

\* ActiveIsSilent: no activity on what has the focus.
THEOREM FocusSilences == ActivitySpec => []ActiveIsSilent
<1>1. ActivityInv => ActiveIsSilent
  BY DEF ActivityInv
<1>. QED BY <1>1, InvariantHolds, PTL
=============================================================================
