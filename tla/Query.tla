-------------------------------- MODULE Query --------------------------------
(***************************************************************************)
(* A query, WEdln (mod_query/wedln.c, complete.c, edln.c, history.c): a    *)
(* line that is edited, the history that is browsed from it, and its       *)
(* completions.  A completor is asked about the text and gets a proxy to   *)
(* give its answer to, when it has one.  Of all the requests only the one  *)
(* that compl_waiting_id names is still wanted, and the list on display    *)
(* belongs to it when compl_current_id is the same; with autoshowcompl     *)
(* every change of the text is followed by a request, after a while.       *)
(***************************************************************************)
EXTENDS LineEdit, QueryHistory

CONSTANTS
    Chars,       \* what keys insert
    Pastes,      \* texts that selections of others have
    Contexts,    \* contexts of queries; AnyContext for one that has none
    Initial,     \* texts a query begins with
    Saved,       \* histories that an earlier run may have saved
    Answers,     \* lists of completions [strs, beg, end], strs sorted
    MaxText,     \* no key inserts more
    MaxActs      \* what users do, at most

AnyText == Seq(Character)
AnyEntry == [context : Contexts \cup {"default"}, text : AnyText]
ASSUME TextsAssumption ==
    /\ Chars \subseteq Character
    /\ Pastes \subseteq AnyText /\ Initial \subseteq AnyText
    /\ Saved \subseteq Seq(AnyEntry)
    /\ Answers \subseteq [strs : Seq(AnyText), beg : AnyText, end : AnyText]

VARIABLES
    q,           \* the query; another can be opened when it is gone
    hist,        \* the history, of all queries
    proxies,     \* WComplProxy objects their completors still have
    autoshow,    \* mod_query_config.autoshowcompl
    acts
vars == <<q, hist, proxies, autoshow, acts>>

NoList == [strs |-> <<>>, beg |-> <<>>, end |-> <<>>, sel |-> -1,
           for |-> <<>>]
\* wedln_init.  The list's "for" is the text it was asked for; "cut" says
\* that text was cut, of which wedln_update_handler is not told.
Opened(text, context) ==
    [open |-> TRUE, line |-> Text(text), histent |-> -1, tmp |-> <<>>,
     context |-> context, waiting |-> -1, current |-> -1, timed |-> -1,
     list |-> NoList, histmode |-> FALSE, cut |-> FALSE]
Closed == [Opened(<<>>, AnyContext) EXCEPT !.open = FALSE]

Init ==
    /\ q \in {Opened(t, c) : t \in Initial, c \in Contexts}   \* the first one
    /\ hist \in {Loaded(t) : t \in Saved}
    /\ proxies = {}
    /\ autoshow \in BOOLEAN
    /\ acts = 0

Shown(r) == r.list.strs # <<>>

-----------------------------------------------------------------------------
(* Changes of the text *)

\* Faulty variant: neither the list on display nor a request under way is
\* invalidated.
ChangedUnnoticed(r) == IF autoshow THEN [r EXCEPT !.timed = r.waiting] ELSE r

\* Faulty variant: a request under way is still wanted.
ChangedStillWaiting(r) ==
    IF autoshow THEN [r EXCEPT !.current = -1, !.timed = r.waiting] ELSE r

\* wedln_update_handler, with EDLN_UPDATE_CHANGED
Changed(r) ==
    IF autoshow
    THEN [r EXCEPT !.current = -1, !.waiting = @ + 1, !.timed = r.waiting + 1]
    ELSE r

\* What keys do to the line, and how often they tell of its change.  Words
\* are not transposed where that would overlap.
Edits(l) ==
    LET Once(c) == IF c THEN 1 ELSE 0
    IN   {<<Inserted(l, <<c>>, TRUE), 1>> :
            c \in {d \in Chars : Len(l.p) < MaxText}}
    \cup {<<Delete(l), Once(l.point < Len(l.p))>>,
          <<Backspace(l), Once(l.point > 0)>>,
          <<TransposeChars(l), Once(l.point > 0 /\ Len(l.p) >= 2)>>,
          <<KillToEol(l), 1>>, <<KillToBol(l), 1>>, <<KillLine(l), 2>>,
          <<KillWord(l), Once(SkipWord(l).point # l.point)>>,
          <<BKillWord(l), Once(BSkipWord(l).point # l.point)>>}
    \cup {<<TransposeWords(l), Once(TransposeWords(l) # l)>> :
            w \in {w \in {l} : ~Overlap(w)}}
    \cup {<<r, 0>> : r \in {Back(l), Forward(l), Bol(l), Eol(l), SkipWord(l),
                            BSkipWord(l), SetMark(l), ClearMark(l), Copy(l)}}

Edited(r, e) ==
    LET c == [r EXCEPT !.line = e[1]]
    IN CASE e[2] = 0 -> c [] e[2] = 1 -> Changed(c)
         [] OTHER -> Changed(Changed(c))

-----------------------------------------------------------------------------
(* Browsing the history *)

\* What search looks for from the query, its context or its beginning.
Looked(r, match) ==
    [context |-> r.context,
     text |-> IF match THEN SubSeq(r.line.p, 1, r.line.point) ELSE <<>>]

Found(r, from, bwd, match) ==
    Search(hist, from, bwd,
           {e \in Range(Table(hist)) : Matches(e, Looked(r, match))})

\* Faulty variant: the user's own text is put aside again by every entry.
SetHistAgain(r, e, match) ==
    LET text == Entry(hist, e).text
        point == IF match THEN Min2(r.line.point, Len(text)) ELSE Len(text)
    IN Changed([r EXCEPT !.tmp = r.line.p, !.histent = e,
                         !.line = [Text(text) EXCEPT !.point = point]])

\* edln_do_set_hist
SetHist(r, e, match) ==
    LET text == Entry(hist, e).text
        point == IF match THEN Min2(r.line.point, Len(text)) ELSE Len(text)
    IN Changed([r EXCEPT !.tmp = IF r.histent < 0 THEN r.line.p ELSE @,
                         !.histent = e,
                         !.line = [Text(text) EXCEPT !.point = point]])

HistoryPrev(r, match) ==
    LET e == Found(r, r.histent + 1, FALSE, match)
    IN IF e >= 0 THEN SetHist(r, e, match) ELSE r

HistoryNext(r, match) ==
    LET e == Found(r, r.histent - 1, TRUE, match)
    IN IF r.histent < 0 THEN r
       ELSE IF e >= 0 THEN SetHist(r, e, match)
       ELSE Changed([r EXCEPT !.histent = -1, !.tmp = <<>>,
                              !.line = Text(r.tmp)])

-----------------------------------------------------------------------------
(* Completions *)


\* get_common_part_rmdup: of those alike that are next to each other, one
WithoutRepeats(strs) ==
    LET kept[n \in 0..Len(strs)] ==
            IF n = 0 THEN <<>>
            ELSE IF n > 1 /\ strs[n] = strs[n - 1] THEN kept[n - 1]
            ELSE Append(kept[n - 1], strs[n])
    IN kept[Len(strs)]

\* wedln_do_set_completions with the list l, of one string at least.  What
\* it returns is whether the list is on display.
Displays(l) == autoshow \/ Len(WithoutRepeats(l.strs)) > 1
\* edln_reset forgets that the history was browsed.
SetCompletions(r, l, cycle) ==
    LET strs == WithoutRepeats(l.strs)
        common == LongestCommonPrefix(Range(strs))
        sel == CASE ~autoshow \/ cycle = 0 -> -1
                 [] autoshow /\ cycle > 0 -> 1
                 [] OTHER -> Len(strs)
        line == IF ~autoshow THEN Completed(l.beg, common, l.end)
                ELSE IF sel > 0 THEN Completed(l.beg, strs[sel], l.end)
                ELSE r.line
        told == [r EXCEPT !.current = -1, !.line = line, !.cut = FALSE,
                          !.histent = IF autoshow /\ sel < 0 THEN @ ELSE -1]
    IN IF Displays(l)
       THEN [told EXCEPT !.list = [l EXCEPT !.strs = strs, !.sel = sel,
                                            !.for = r.line.p]]
       ELSE told

\* Faulty variant: an empty answer leaves the list on display.
HiddenNever(r) == r

\* wedln_hide_completions
Hidden(r) == [r EXCEPT !.list = NoList]

Proxy(r, id, cycle) ==
    [id |-> id, cycle |-> cycle, text |-> r.line.p, cut |-> FALSE,
     watched |-> TRUE]

\* wedln_do_call_completor: the query after it, what it returns and whom the
\* completor was given.
CallCompletor(r, id, cycle) ==
    LET texts == Texts(hist, [Looked(r, TRUE) EXCEPT !.text =
                                  SubSeq(r.line.p, 1, r.line.point)])
        l == [NoList EXCEPT !.strs = texts]
        waits == [r EXCEPT !.waiting = id]
        ok == texts # <<>> /\ Displays(l)
        set == SetCompletions(waits, l, cycle)
    IN IF ~r.histmode
       THEN [r |-> r, ok |-> TRUE, asked |-> {Proxy(r, id, cycle)}]
       ELSE [r |-> IF texts = <<>> THEN Hidden(waits)
                   ELSE IF ok THEN [set EXCEPT !.current = id] ELSE set,
             ok |-> ok, asked |-> {}]

\* wedln_next_completion, wedln_prev_completion and
\* wedln_do_select_completion
Select(r, n) ==
    LET l == r.list
    IN IF r.current # r.waiting \/ n = l.sel THEN r
       ELSE [r EXCEPT !.list.sel = n, !.histent = -1,
                      !.line = Completed(l.beg, l.strs[n], l.end)]
After(l) == IF l.sel \in 1..Len(l.strs) - 1 THEN l.sel + 1 ELSE 1
Before(l) == IF l.sel <= 1 THEN Len(l.strs) ELSE l.sel - 1

-----------------------------------------------------------------------------
(* What users do *)

UserActs == q.open /\ acts < MaxActs /\ acts' = acts + 1

\* mod_query.query and mod_query_do_query: no other one in the same frame
Open(text, context) ==
    /\ ~q.open /\ acts < MaxActs /\ acts' = acts + 1
    /\ q' = Opened(text, context)
    /\ UNCHANGED <<hist, proxies, autoshow>>

\* A key of the line, or what is typed.
Edit ==
    /\ UserActs
    /\ \E e \in Edits(q.line) : q' = Edited(q, e)
    /\ UNCHANGED <<hist, proxies, autoshow>>

\* wedln_paste, when the selection arrives
Paste(s) ==
    /\ UserActs
    /\ q' = Changed([q EXCEPT !.line = Inserted(@, s, TRUE)])
    /\ UNCHANGED <<hist, proxies, autoshow>>

\* wedln_cut: wedln_update_handler is told of no change.
CutText ==
    /\ UserActs
    /\ q' = [q EXCEPT !.line = Cut(@), !.cut = @ \/ HasSelection(q.line)]
    /\ proxies' = {[p EXCEPT !.cut = @ \/ HasSelection(q.line)] : p \in proxies}
    /\ UNCHANGED <<hist, autoshow>>

Browse(match) ==
    /\ UserActs
    /\ q' \in {HistoryPrev(q, match), HistoryNext(q, match)}
    /\ UNCHANGED <<hist, proxies, autoshow>>

\* wedln_complete with a mode and a cycle, 1 for "next", -1 for "prev"
Complete(history, cycle) ==
    LET valid == q.histmode = history
        r == [q EXCEPT !.histmode = history]
        c == IF valid THEN cycle ELSE 0
        call == CallCompletor([r EXCEPT !.waiting = @ + 1], q.waiting + 1, c)
    IN /\ UserActs
       /\ IF c # 0 /\ autoshow /\ Shown(q)
          THEN /\ q' = Select(r, IF c > 0 THEN After(q.list)
                                 ELSE Before(q.list))
               /\ UNCHANGED proxies
          ELSE /\ q' = IF call.ok THEN call.r
                       ELSE [call.r EXCEPT !.waiting = q.waiting]
               /\ proxies' = proxies \cup call.asked
       /\ UNCHANGED <<hist, autoshow>>

\* wedln_deinit; the watches of the proxies are reset.
Destroy ==
    /\ q' = Closed
    /\ proxies' = {[p EXCEPT !.watched = FALSE] : p \in proxies}

\* wedln_finish and the deferred wedln_do_finish: no event comes between
\* them.  The handler may open the next query.
Finish ==
    /\ UserActs
    /\ hist' = Push(hist, [context |-> IF q.context = AnyContext
                                       THEN "default" ELSE q.context,
                           text |-> q.line.p])
    /\ Destroy
    /\ UNCHANGED autoshow

\* input_cancel, or the frame is destroyed
Cancel ==
    /\ UserActs
    /\ Destroy
    /\ UNCHANGED <<hist, autoshow>>

\* A query in another frame is finished, or a script calls
\* mod_query_history_push or mod_query_history_clear.
Elsewhere ==
    /\ acts < MaxActs /\ acts' = acts + 1
    /\ \/ hist' = EmptyHistory
       \/ \E c \in Contexts \ {AnyContext}, t \in Initial :
            hist' = Push(hist, [context |-> c, text |-> t])
    /\ UNCHANGED <<q, proxies, autoshow>>

\* Ion is left and started again: save_history and load_history.
Restart ==
    /\ ~q.open /\ acts < MaxActs /\ acts' = acts + 1
    /\ hist' = Loaded(Table(hist))
    /\ proxies' = {}
    /\ UNCHANGED <<q, autoshow>>

-----------------------------------------------------------------------------
(* What comes by itself *)

\* timed_complete
TimedComplete ==
    /\ q.open /\ q.timed >= 0
    /\ LET r == [q EXCEPT !.timed = -1]
           call == CallCompletor(r, q.timed, 0)
       IN IF q.timed = q.waiting
          THEN q' = call.r /\ proxies' = proxies \cup call.asked
          ELSE q' = r /\ UNCHANGED proxies
    /\ UNCHANGED <<hist, autoshow, acts>>

\* Faulty variant: an answer is taken although another one is awaited.
WantedAny(p) == p.watched /\ q.waiting >= 0

\* complproxy_set_completions takes an answer only if
Wanted(p) == p.watched /\ q.waiting = p.id

\* complproxy_set_completions and wedln_set_completions, at any time
Answer(p) ==
    /\ \E l \in Answers :
        LET list == [NoList EXCEPT !.strs = l.strs, !.beg = l.beg,
                                !.end = l.end]
            set == SetCompletions(q, list, p.cycle)
            after == IF l.strs = <<>> THEN Hidden(q)
                     ELSE IF Displays(list) THEN set ELSE Hidden(set)
        IN q' = IF Wanted(p) THEN [after EXCEPT !.current = p.id] ELSE q
    /\ proxies' = proxies \ {p}
    /\ UNCHANGED <<hist, autoshow, acts>>

Next ==
    \/ \E t \in Initial, c \in Contexts : Open(t, c)
    \/ Edit
    \/ \E s \in Pastes : Paste(s)
    \/ CutText
    \/ \E m \in BOOLEAN : Browse(m)
    \/ \E h \in BOOLEAN, c \in {-1, 0, 1} : Complete(h, c)
    \/ Finish
    \/ Cancel
    \/ Elsewhere
    \/ Restart
    \/ TimedComplete
    \/ \E p \in proxies : Answer(p)

\* Timers go off, and completors answer.
Fairness ==
    /\ WF_vars(TimedComplete)
    /\ WF_vars(\E p \in proxies : Answer(p))
Spec == Init /\ [][Next]_vars /\ Fairness

-----------------------------------------------------------------------------
(* Properties *)

\* The cursor and the selection stay in the text, whatever is inserted,
\* removed, completed or taken from the history: wedln.c and edln.c use them
\* as offsets without another look.
CursorInText == q.open => Sound(q.line)

\* With autoshowcompl, a completion that is selected is in the line as long as
\* its list is current.  Text that was cut is excepted: its change is not told.
SelectedIsInLine ==
    (q.open /\ autoshow /\ ~q.cut /\ q.list.sel > 0
       /\ q.current = q.waiting)
    => q.line.p = q.list.beg \o q.list.strs[q.list.sel] \o q.list.end

\* What is drawn is there: the cursor, the selection and the selected
\* completion, between every two acts.
LineAsShown == CursorInText /\ SelectedIsInLine

\* From wherever the history was browsed to, going back often enough gives
\* the user his own text again, although other queries push entries and clear
\* the list meanwhile and histent names others than it did.
Returned(r) ==
    LET down[n \in 0..HISTORY_SIZE + 1] ==
            IF n = 0 THEN r ELSE HistoryNext(down[n - 1], FALSE)
    IN down[HISTORY_SIZE + 1]
OwnTextReturns ==
    q.open => \A m \in BOOLEAN :
        /\ Returned(HistoryPrev(q, m)).line.p = Returned(q).line.p
        /\ Returned(HistoryPrev(q, m)).histent = -1

\* With autoshowcompl, an answer changes no text but the one the completor
\* was asked about, however late it comes.  Text that was cut is excepted.
AnsweredAsAsked ==
    [][\A p \in proxies :
         (autoshow /\ proxies' = proxies \ {p} /\ acts' = acts)
            => \/ q'.line = q.line \/ ~q.open
               \/ q.line.p = p.text \/ p.cut]_vars

\* With autoshowcompl, when the user stops, a list that stays on display was
\* made for the text that is there, or what was selected from it.
ListFits ==
    (q.open /\ autoshow)
    => /\ q.timed = -1
       /\ Shown(q) => /\ q.current = q.waiting
                      /\ q.list.sel > 0 \/ q.cut \/ q.list.for = q.line.p
ListSettles == <>[]ListFits

\* The history is the list of the last different entries.
Recent == INSTANCE RecentList WITH
    Size <- HISTORY_SIZE, recent <- Table(hist)
KeepsRecent == Recent!Spec
=============================================================================
