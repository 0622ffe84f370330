---------------------------- MODULE CursorPages ----------------------------
(***************************************************************************)
(* Keyset pagination: a client turns the pages that FinishCursorPage       *)
(* (internal/httpx/response.go) assembles, while rows come and go.         *)
(*                                                                         *)
(* A row is known by its cursor position, so the order of (created_at, id) *)
(* is that of the integers.  The query is the caller's and external: it    *)
(* reads limit + 1 rows past the cursor, downwards for before_*.           *)
(***************************************************************************)
EXTENDS Integers, Sequences, FiniteSets, SequencesExt

CONSTANTS
    Rows,        \* the cursor positions rows may have
    Limit,       \* rows to a page
    MaxEdits     \* insertions and deletions explored

ASSUME PageAssumption == Rows \subseteq Int /\ Limit \in Nat \ {0} /\ MaxEdits \in Nat

VARIABLES
    stored,      \* the rows of the table
    page,        \* what the client holds: rows and the Pagination meta
    queried,     \* history: the table that page was read from
    walk,        \* history: rows seen since the first page, going forward only
    steady,      \* history: rows stored throughout that walk
    left,        \* history: the rows the last turn left behind, and their table
    edits

pageVars == <<stored, page, queried, walk, steady, left, edits>>

NoPage == [rows |-> << >>, hasNext |-> FALSE, hasPrev |-> FALSE, cursors |-> << >>, records |-> 0]
Nowhere == [rows |-> << >>, table |-> {}, by |-> "first"]

----------------------------------------------------------------------------
(* One page.                                                               *)

Rank(set, x) == Cardinality({y \in set : y < x})

\* The rows in order: the i-th is the one with i - 1 rows before it.
Ascending(set) == [i \in 1..Cardinality(set) |-> CHOOSE x \in set : Rank(set, x) = i - 1]
Descending(set) == Reverse(Ascending(set))

FirstOf(rows, n) == SubSeq(rows, 1, IF Len(rows) < n THEN Len(rows) ELSE n)

\* The query, for a page after or before a cursor (none: << >>).
Fetch(table, after, before) ==
    FirstOf(IF before # << >> THEN Descending({x \in table : x < before[1]})
            ELSE Ascending({x \in table : after = << >> \/ x > after[1]}), Limit + 1)

\* Mutant: the extra row is dropped after the order is restored.
KeptTrimmedLast(rows, hasBefore) == FirstOf(IF hasBefore THEN Reverse(rows) ELSE rows, Limit)

\* Mutant: the page is one row short.
KeptShort(rows, hasBefore) ==
    LET trimmed == FirstOf(rows, IF Limit > 1 THEN Limit - 1 ELSE 1)
    IN  IF hasBefore THEN Reverse(trimmed) ELSE trimmed

\* The extra row is trimmed, then the order of a backward page restored.
Kept(rows, hasBefore) ==
    LET trimmed == FirstOf(rows, Limit) IN IF hasBefore THEN Reverse(trimmed) ELSE trimmed

\* records is the total each fetched row carries, read off before the trim.
FinishCursorPage(rows, hasAfter, hasBefore) ==
    LET kept == Kept(rows, hasBefore)
        hasMore == Len(rows) > Limit
    IN  [rows |-> kept,
         cursors |-> IF kept = << >> THEN << >> ELSE <<Head(kept), Last(kept)>>,
         hasNext |-> IF hasBefore THEN kept # << >> ELSE hasMore,
         hasPrev |-> IF hasBefore THEN hasMore ELSE hasAfter /\ kept # << >>,
         records |-> IF rows = << >> THEN 0 ELSE Cardinality(stored)]

----------------------------------------------------------------------------
(* The client and the others.                                              *)

Turn(after, before) ==
    /\ page' = FinishCursorPage(Fetch(stored, after, before), after # << >>, before # << >>)
    /\ queried' = stored
    /\ UNCHANGED <<stored, edits>>

FirstPage ==
    /\ Turn(<< >>, << >>)
    /\ walk' = page'.rows
    /\ steady' = stored
    /\ left' = Nowhere

\* The client follows next_after_*; a walk that once went back is over.
NextPage ==
    /\ page.hasNext
    /\ Turn(<<page.cursors[2]>>, << >>)
    /\ walk' = IF walk = << >> THEN << >> ELSE walk \o page'.rows
    /\ left' = [rows |-> page.rows, table |-> queried, by |-> "next"]
    /\ UNCHANGED steady

\* The client follows prev_before_*.
PrevPage ==
    /\ page.hasPrev
    /\ Turn(<< >>, <<page.cursors[1]>>)
    /\ walk' = << >>
    /\ steady' = {}
    /\ left' = [rows |-> page.rows, table |-> queried, by |-> "prev"]

Insert(row) ==
    /\ edits < MaxEdits
    /\ row \notin stored
    /\ stored' = stored \union {row}
    /\ edits' = edits + 1
    /\ UNCHANGED <<page, queried, walk, steady, left>>

Delete(row) ==
    /\ edits < MaxEdits
    /\ row \in stored
    /\ stored' = stored \ {row}
    /\ steady' = steady \ {row}
    /\ edits' = edits + 1
    /\ UNCHANGED <<page, queried, walk, left>>

PageInit ==
    /\ stored \in SUBSET Rows /\ IsFiniteSet(stored)
    /\ page = NoPage
    /\ queried = stored
    /\ walk = << >>
    /\ steady = {}
    /\ left = Nowhere
    /\ edits = 0

PageNext ==
    \/ FirstPage \/ NextPage \/ PrevPage
    \/ \E row \in Rows : Insert(row) \/ Delete(row)

PageSpec == PageInit /\ [][PageNext]_pageVars

----------------------------------------------------------------------------
(* Properties.                                                             *)

\* A client that follows next_after_* until has_next is false meets every row
\* that was there all along, each once and in order, whatever is inserted and
\* deleted meanwhile, the row of its cursor included.
WalkMeetsAll ==
    walk # << >> =>
        /\ \A i \in DOMAIN walk : i > 1 => walk[i - 1] < walk[i]
        /\ {x \in steady : x <= Last(walk)} \subseteq Range(walk)
        /\ ~page.hasNext => steady \subseteq Range(walk)

\* Turning back leads back: on a table that did not change, the page reached
\* by next offers previous, the one reached by previous offers next, and the
\* client that takes the offer gets exactly the page it left.
TurnsBack ==
    left.by # "first" /\ left.table = stored /\ queried = stored /\ page.rows # << >> =>
        IF left.by = "next"
        THEN /\ page.hasPrev
             /\ Kept(Fetch(stored, << >>, <<page.cursors[1]>>), TRUE) = left.rows
        ELSE /\ page.hasNext
             /\ Kept(Fetch(stored, <<page.cursors[2]>>, << >>), FALSE) = left.rows

\* Inductive.  A page that is shown is a window of the table it was read from,
\* Limit rows wide unless it touches the end it was read towards.
Window(table, a, k) == SubSeq(Ascending(table), a + 1, a + k)

Shows(p, table) ==
    IF p.rows = << >> THEN ~p.hasNext /\ ~p.hasPrev
    ELSE \E a \in 0..Cardinality(table), k \in 1..Limit :
             /\ a + k <= Cardinality(table)
             /\ p.rows = Window(table, a, k)
             /\ p.cursors = <<p.rows[1], p.rows[k]>>
             /\ p.hasNext => k = Limit \/ a = 0
             /\ p.hasPrev => k = Limit \/ a + k = Cardinality(table)

PageShown == Shows(page, queried)

\* The page left behind was one, and the page shown is its neighbour.
LeftBehind ==
    left.by # "first" =>
        \E a \in 0..Cardinality(left.table), k \in 1..Limit :
            /\ a + k <= Cardinality(left.table)
            /\ left.rows = Window(left.table, a, k)
            /\ IF left.by = "next"
               THEN /\ k = Limit \/ a = 0
                    /\ page.rows = Kept(Fetch(queried, <<left.rows[k]>>, << >>), FALSE)
                    /\ page.rows # << >> => page.hasPrev
               ELSE /\ k = Limit \/ a + k = Cardinality(left.table)
                    /\ page.rows = Kept(Fetch(queried, << >>, <<left.rows[1]>>), TRUE)
                    /\ page.rows # << >> => page.hasNext

Walked ==
    /\ steady \subseteq stored /\ steady \subseteq queried
    /\ walk \in Seq(Int)
    /\ walk # << >> /\ page.rows # << >> => Last(walk) = Last(page.rows)
    /\ WalkMeetsAll

Tables == {table \in SUBSET Int : IsFiniteSet(table)}

PagesInv ==
    /\ stored \in Tables /\ queried \in Tables /\ left.table \in Tables
    /\ PageShown /\ LeftBehind /\ Walked

=============================================================================
