---------------------------- MODULE QueryHistory ----------------------------
(***************************************************************************)
(* The history of queries (mod_query/history.c): a ring h = [head, count,  *)
(* hist] that grows downwards.  An entry "context:text" is a record, and   *)
(* what is looked for is a context, or AnyContext, and how the text        *)
(* begins.  Finding nothing is -1.                                         *)
(***************************************************************************)
EXTENDS Integers, SequencesExt

CONSTANTS
    HISTORY_SIZE,
    AnyContext,   \* "*:", and no context at all
    NoEntry       \* memory not in use

ASSUME HistoryAssumption == HISTORY_SIZE \in Nat \ {0}

Slots == 0..HISTORY_SIZE - 1
EmptyHistory ==
    [head |-> HISTORY_SIZE, count |-> 0, hist |-> [i \in Slots |-> NoEntry]]

\* get_index
HasIndex(h, i) == i \in 0..h.count - 1
Index(h, i) == (h.head + i) % HISTORY_SIZE
\* mod_query_history_get
Entry(h, i) == h.hist[Index(h, i)]

Matches(e, look) ==
    /\ look.context \in {AnyContext, e.context}
    /\ IsPrefix(look.text, e.text)

\* mod_query_history_search: from an entry on, into the past or back, for one
\* of the entries wanted
Search(h, from, bwd, wanted) ==
    LET found == {i \in 0..h.count - 1 :
                    /\ HasIndex(h, from)
                    /\ IF bwd THEN i <= from ELSE i >= from
                    /\ Entry(h, i) \in wanted}
    IN IF found = {} THEN -1
       ELSE CHOOSE i \in found :
              \A j \in found : IF bwd THEN j <= i ELSE i <= j

\* Faulty variant: an entry found is thought to be the last one.
WithoutLast(h, n) ==
    [h EXCEPT !.count = @ - 1, !.hist[Index(h, h.count - 1)] = NoEntry]

\* The entries after one that is taken out move up.
Without(h, n) ==
    [h EXCEPT !.count = @ - 1,
              !.hist = [s \in Slots |->
                  IF \E i \in n..h.count - 2 : Index(h, i) = s
                  THEN h.hist[(s + 1) % HISTORY_SIZE]
                  ELSE IF s = Index(h, h.count - 1) THEN NoEntry ELSE @[s]]]

InFront(h, e) ==
    LET head == IF h.head = 0 THEN HISTORY_SIZE - 1 ELSE h.head - 1
    IN [h EXCEPT !.head = head,
                 !.count = IF @ = HISTORY_SIZE THEN @ ELSE @ + 1,
                 !.hist[head] = e]

\* Faulty variant: what is pushed is not looked for.
PushAlways(h, e) == InFront(h, e)

\* mod_query_history_push_
Push(h, e) ==
    LET n == Search(h, 0, FALSE, {e})
    IN IF n = 0 THEN h
       ELSE IF n > 0 THEN InFront(Without(h, n), e)
       ELSE InFront(h, e)

\* mod_query_history_table
Table(h) == [i \in 1..h.count |-> Entry(h, i - 1)]

\* load_history, into a new process: the last one is pushed first
Loaded(table) ==
    LET pushed[n \in 0..Len(table)] ==
            IF n = 0 THEN EmptyHistory
            ELSE Push(pushed[n - 1], table[Len(table) - n + 1])
    IN pushed[Len(table)]

\* mod_query_history_complete: the texts, the latest first
Texts(h, look) ==
    LET found[n \in 0..h.count] ==
            IF n = 0 THEN <<>>
            ELSE IF Matches(Entry(h, n - 1), look)
                 THEN Append(found[n - 1], Entry(h, n - 1).text)
                 ELSE found[n - 1]
    IN found[h.count]
=============================================================================
