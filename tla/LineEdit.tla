------------------------------ MODULE LineEdit ------------------------------
(***************************************************************************)
(* The text of a line editor and what its functions do to it               *)
(* (mod_query/edln.c), as operators on l = [p, point, mark]: the           *)
(* characters, the cursor's offset in them and the selection's other end,  *)
(* which is Unmarked or less when nothing is selected.  psize is Len(p).   *)
(***************************************************************************)
EXTENDS Integers, Sequences

CONSTANTS
    Character,   \* all characters
    Alnum        \* those words are made of

Unmarked == -1
Min2(i, j) == IF i < j THEN i ELSE j

\* The character at an offset, as CHAR_AT(p+i).
CharAt(p, i) == p[i + 1]
IsWord(p, i) == CharAt(p, i) \in Alnum

-----------------------------------------------------------------------------
(* Room is made and removed at the cursor *)

\* Faulty variant: the selection's end stays when text is put before it.
InsertedMarkKept(l, s, move) ==
    [l EXCEPT !.p = SubSeq(l.p, 1, l.point) \o s
                    \o SubSeq(l.p, l.point + 1, Len(l.p)),
              !.point = IF move THEN @ + Len(s) ELSE @]

\* edln_pspc and edln_insstr_n
Inserted(l, s, move) ==
    [l EXCEPT !.p = SubSeq(l.p, 1, l.point) \o s
                    \o SubSeq(l.p, l.point + 1, Len(l.p)),
              !.mark = IF @ > l.point THEN @ + Len(s) ELSE @,
              !.point = IF move THEN @ + Len(s) ELSE @]

\* Faulty variant: the selection's end stays when text before it goes.
RemovedMarkKept(l, n) ==
    LET k == Min2(n, Len(l.p) - l.point)
    IN [l EXCEPT !.p = SubSeq(l.p, 1, l.point)
                       \o SubSeq(l.p, l.point + k + 1, Len(l.p))]

\* edln_rspc: a selection's end in what is removed is moved as one after it,
\* and may come to stand before the cursor or below 0.
Removed(l, n) ==
    LET k == Min2(n, Len(l.p) - l.point)
    IN [l EXCEPT !.p = SubSeq(l.p, 1, l.point)
                       \o SubSeq(l.p, l.point + k + 1, Len(l.p)),
                 !.mark = IF @ > l.point THEN @ - k ELSE @]

-----------------------------------------------------------------------------
(* Movement *)

Back(l) == [l EXCEPT !.point = IF @ > 0 THEN @ - 1 ELSE @]
Forward(l) == [l EXCEPT !.point = IF @ < Len(l.p) THEN @ + 1 ELSE @]
Bol(l) == [l EXCEPT !.point = 0]
Eol(l) == [l EXCEPT !.point = Len(l.p)]

\* edln_bskip_word: to the beginning of the word before the cursor
BSkipWord(l) ==
    LET begins == {i \in 0..l.point - 1 :
                     IsWord(l.p, i) /\ (i = 0 \/ ~IsWord(l.p, i - 1))}
    IN [l EXCEPT !.point = IF begins = {} THEN 0
                           ELSE CHOOSE i \in begins : \A j \in begins : j <= i]

\* edln_skip_word: to the end of the word at or after the cursor
SkipWord(l) ==
    LET ends == {i \in l.point + 1..Len(l.p) :
                   IsWord(l.p, i - 1) /\ (i = Len(l.p) \/ ~IsWord(l.p, i))}
    IN [l EXCEPT !.point = IF ends = {} THEN Len(l.p)
                           ELSE CHOOSE i \in ends : \A j \in ends : i <= j]

-----------------------------------------------------------------------------
(* Transposition: l itself when nothing can be transposed *)

Swapped(p, i) == [p EXCEPT ![i] = p[i + 1], ![i + 1] = p[i]]
TransposeChars(l) ==
    LET pos == IF l.point = Len(l.p) THEN l.point - 1 ELSE l.point
    IN IF l.point = 0 \/ Len(l.p) < 2 THEN l
       ELSE [l EXCEPT !.p = Swapped(@, pos),
                      !.point = IF @ = Len(l.p) THEN @ ELSE @ + 1]

\* The word before or at the cursor begins at first and ends at gap, the
\* next one begins at second and ends at last.
Words(l) ==
    LET first == BSkipWord(l)
        gap == SkipWord(first)
        last == SkipWord(gap)
    IN [first |-> first, gap |-> gap, last |-> last,
        second |-> BSkipWord(last)]

\* A single word between others' separators, as -a-, with the cursor before
\* it: the next word is taken to begin within the first one, and memmove is
\* called with a negative length.
Overlap(l) ==
    /\ l.point < Len(l.p) /\ Len(l.p) >= 3
    /\ LET w == Words(l)
       IN /\ w.last.point # w.gap.point
          /\ w.first.point < w.second.point /\ w.second.point < w.gap.point

TransposeWords(l) ==
    LET w == Words(l)
        first == w.first
        gap == w.gap
        last == w.last
        second == w.second
    IN IF \/ l.point = Len(l.p) \/ Len(l.p) < 3
          \/ last.point = gap.point \/ second.point = first.point
       THEN l
       ELSE [l EXCEPT !.p = SubSeq(@, 1, first.point)
                            \o SubSeq(@, second.point + 1, last.point)
                            \o SubSeq(@, gap.point + 1, second.point)
                            \o SubSeq(@, first.point + 1, gap.point)
                            \o SubSeq(@, last.point + 1, Len(@)),
                      !.point = last.point]

-----------------------------------------------------------------------------
(* Deletion *)

Delete(l) == Removed(l, 1)
Backspace(l) == IF l.point = 0 THEN l ELSE Removed(Back(l), 1)
KillToEol(l) == Removed(l, Len(l.p) - l.point)
KillToBol(l) == Removed(Bol(l), l.point)
KillLine(l) == KillToEol(Bol(l))
KillWord(l) == Removed(l, SkipWord(l).point - l.point)
BKillWord(l) == Removed(BSkipWord(l), l.point - BSkipWord(l).point)

-----------------------------------------------------------------------------
(* Selection *)

SetMark(l) == [l EXCEPT !.mark = l.point]
ClearMark(l) == [l EXCEPT !.mark = Unmarked]

\* edln_do_copy does nothing without a selection.
HasSelection(l) == l.mark >= 0 /\ l.mark # l.point
Copy(l) == IF HasSelection(l) THEN ClearMark(l) ELSE l
Cut(l) ==
    IF ~HasSelection(l) THEN l
    ELSE LET beg == Min2(l.mark, l.point)
             end == l.mark + l.point - beg
         IN ClearMark(Removed([l EXCEPT !.point = beg], end - beg))

-----------------------------------------------------------------------------
(* Other text in place of the old *)

\* edln_reset, edln_init: and edln_setstr with the cursor at the end
Text(s) == [p |-> s, point |-> Len(s), mark |-> Unmarked]

\* edln_do_set_completion: the cursor is put before the end.
Completed(beg, comp, end) ==
    Inserted(Inserted(Inserted(Text(<<>>), beg, TRUE), comp, TRUE), end, FALSE)

\* The cursor is in the text, and what is selected is too: wedln.c draws the
\* text between them and edln_do_copy copies it.
Sound(l) == /\ l.point \in 0..Len(l.p)
            /\ l.mark <= Len(l.p)
=============================================================================
