---------------------------- MODULE SequentialBatch ----------------------------
(***************************************************************************)
(* carquet_batch_reader_next without the pipeline: one column reader per   *)
(* projected column walks the pages of its chunk (column_reader.c,         *)
(* page_reader.c), and a batch is the next rows of every column, handed    *)
(* over as a view of the loaded page where that is possible.  Pages of     *)
(* different columns have different sizes, so the readers move through     *)
(* their chunks out of step; OpenMP reads them in any order.               *)
(***************************************************************************)
EXTENDS Integers, Sequences, FiniteSets, SequencesExt

CONSTANTS Pages,       \* per row group and column: num_values of its pages
          Selected,    \* the row groups the filter accepts
          Kinds,       \* the kinds of column to try
          BatchSize,   \* config.batch_size
          MaxFaults,   \* bound: how many page loads and openings may fail
          Persistent   \* the caller goes on after a status that is not OK

RGs == 1 .. Len(Pages)
Cols == DOMAIN Pages[1]

ASSUME SequentialBatchAssumption ==
    /\ Pages \in Seq(Seq(Seq(Nat \ {0})))
    /\ RGs # {} /\ Cols # {}  \* the first column is asked for the rows left
    /\ \A g \in RGs : DOMAIN Pages[g] = Cols
    /\ Selected \subseteq RGs
    /\ Kinds \subseteq {"plain", "packed", "coded"}
    /\ BatchSize \in Nat \ {0} /\ MaxFaults \in Nat /\ Persistent \in BOOLEAN

VARIABLES
    kind,     \* "plain": uncompressed, viewed in the mapping; "packed":
              \* compressed, viewed in the decompression buffer; "coded":
              \* decoded into a buffer of its own
    rg,       \* current_row_group (0 = none yet)
    opened,   \* the column readers exist
    cr,       \* per column reader: pages passed, page_loaded,
              \* page_values_read, values_remaining
    pc, rows, \* where next() is; rows_to_read
    todo,     \* per column: "todo", "reading" or "done" in this call
    readError,
    out,      \* per column the rows of the batch
    holds,    \* the caller holds the batch
    status,   \* of the last call
    cached,   \* the batch struct has been allocated
    cursor, faults       \* history, as in RowStream

vars == <<kind, rg, opened, cr, pc, rows, todo, readError, out, holds, status,
          cached, cursor, faults>>

-------------------------------------------------------------------------------
(* Row groups.                                                             *)

Total(pages) == FoldSeq(LAMBDA a, b : a + b, 0, pages)
NumRows(g) == Total(Pages[g][1])

\* The rank of a row group among those the filter accepts, and the first one
\* it accepts after g.
Rank(g) == Cardinality({h \in Selected : h <= g})
NextSelected(g) ==
    CHOOSE h \in (g + 1) .. (Len(Pages) + 1) :
        /\ h \in Selected \cup {Len(Pages) + 1}
        /\ \A i \in (g + 1) .. (h - 1) : i \notin Selected

-------------------------------------------------------------------------------
(* Column readers.  k is the state of one of them, c its column.           *)

PageSize(k, c) == Pages[rg][c][k.passed + 1]
Position(k, c) == Total(SubSeq(Pages[rg][c], 1, k.passed))
                  + IF k.loaded THEN k.read ELSE 0

Available(k, c) == IF k.loaded THEN PageSize(k, c) - k.read ELSE 0

\* carquet_column_ensure_page_loaded: pass an exhausted page, then load.
Passed(k, c) ==
    IF k.loaded /\ Available(k, c) = 0
    THEN [k EXCEPT !.loaded = FALSE, !.passed = @ + 1] ELSE k
LoadedKeepingRead(k, c) ==
    IF k.loaded /\ Available(k, c) > 0 THEN k
    ELSE [Passed(k, c) EXCEPT !.loaded = TRUE]
EnsureLoaded(k, c) ==
    IF k.loaded /\ Available(k, c) > 0 THEN k
    ELSE [Passed(k, c) EXCEPT !.loaded = TRUE, !.read = 0]

\* Take the next n values of the loaded page.
Take(k, n) == [k EXCEPT !.read = @ + n, !.left = @ - n]

RowsFrom(k, c, n) == [i \in 1..n |-> <<Rank(rg), Position(k, c) + i>>]

\* The values a batch may view without copying: those of the loaded page.
IsView(c) == kind[c] \in {"plain", "packed"}
ViewAnyPage(c, k, n) == IsView(c) /\ k.loaded /\ Available(k, c) > 0
CanView(c, k, n) == IsView(c) /\ k.loaded /\ Available(k, c) > 0
                              /\ Available(k, c) >= n

Smaller(a, b) == IF a <= b THEN a ELSE b
Smallest(S) == CHOOSE m \in S : \A x \in S : m <= x

\* rows_to_read before clamping.
WholeRest == cr[1].left
BatchRows == Smaller(cr[1].left, BatchSize)

\* The loop of carquet_column_read_batch is over.
AfterOnePage(c) == out[c] # <<>> \/ cr[c].left = 0
ReadEnough(c) == Len(out[c]) >= rows \/ cr[c].left = 0

\* clamp_rows_to_zero_copy_window.
Clamp(readers, n) ==
    LET windows == {IF IsView(c) THEN Available(readers[c], c) ELSE 0 : c \in Cols}
    IN IF 0 \in windows THEN n ELSE Smaller(n, Smallest(windows))

-------------------------------------------------------------------------------
(* carquet_batch_reader_next.                                              *)

Return(s) == pc' = "user" /\ status' = s

NeedsRowGroup == rg = 0 \/ cr[1].left = 0

\* Between calls; the batch of the last call is invalidated.  Before any row
\* group was opened the code asks a NULL column reader whether it has more.
CallNext ==
    /\ pc = "user" /\ (status = "OK" \/ Persistent)
    /\ holds' = FALSE
    /\ IF rg > 0 /\ ~opened THEN pc' = "crashed" /\ UNCHANGED rg
       ELSE IF ~NeedsRowGroup THEN pc' = "load" /\ UNCHANGED rg
       ELSE /\ rg' = IF rg > Len(Pages) THEN rg ELSE NextSelected(rg)
            /\ pc' = IF rg' > Len(Pages) THEN "end" ELSE "open"
    /\ UNCHANGED <<kind, opened, cr, rows, todo, readError, out, status, cached,
                   cursor, faults>>

ReturnEnd ==
    /\ pc = "end"
    /\ Return("END")
    /\ UNCHANGED <<kind, rg, opened, cr, rows, todo, readError, out, holds,
                   cached, cursor, faults>>

\* open_row_group_readers: create the readers, or reset those that exist.
Open ==
    /\ pc = "open"
    /\ opened' = TRUE
    /\ cr' = [c \in Cols |-> [passed |-> 0, loaded |-> FALSE, read |-> 0,
                              left |-> Total(Pages[rg][c])]]
    /\ pc' = "load"
    /\ UNCHANGED <<kind, rg, rows, todo, readError, out, holds, status, cached,
                   cursor, faults>>

\* Only creating a reader can fail.
OpenFails ==
    /\ pc = "open" /\ ~opened
    /\ faults < MaxFaults /\ faults' = faults + 1
    /\ Return("error")
    /\ UNCHANGED <<kind, rg, opened, cr, rows, todo, readError, out, holds,
                   cached, cursor>>

AllocFails ==
    /\ pc = "load" /\ ~cached
    /\ Return("error")
    /\ UNCHANGED <<kind, rg, opened, cr, rows, todo, readError, out, holds,
                   cached, cursor, faults>>

\* An empty row group is an empty batch.
ServeEmpty ==
    /\ pc = "load" /\ cr[1].left = 0
    /\ out' = [c \in Cols |-> <<>>] /\ holds' = TRUE /\ cached' = TRUE
    /\ cursor' = <<Rank(rg) + 1, 0>>
    /\ Return("OK")
    /\ UNCHANGED <<kind, rg, opened, cr, rows, todo, readError, faults>>

\* What a load leaves behind: the new page, or no page.
Loaded(k, c, failing) == IF c \in failing THEN Passed(k, c) ELSE EnsureLoaded(k, c)

\* The peek of carquet_column_read_batch(.., 0, ..).
Peeked(k, c, failing) == IF k.left > 0 /\ ~k.loaded THEN Loaded(k, c, failing) ELSE k

\* When every column is a candidate its page is loaded first, and a failure
\* ends the call.
AllPlain == \A c \in Cols : kind[c] = "plain"

PreloadFails ==
    /\ pc = "load" /\ cr[1].left > 0 /\ AllPlain
    /\ faults < MaxFaults /\ faults' = faults + 1
    /\ \E bad \in Cols :
           /\ cr[bad].left > 0 /\ (cr[bad].loaded => Available(cr[bad], bad) = 0)
           /\ cr' = [c \in Cols |-> IF c <= bad /\ cr[c].left > 0
                                      /\ (c = bad \/ Available(cr[c], c) = 0)
                                    THEN Loaded(cr[c], c, {bad}) ELSE cr[c]]
    /\ Return("error") /\ cached' = TRUE
    /\ UNCHANGED <<kind, rg, opened, rows, todo, readError, out, holds, cursor>>

\* Preload, prefetch every column that has no page (failures are ignored),
\* and trim the batch to the smallest window that can be viewed.
LoadPages ==
    /\ pc = "load" /\ cr[1].left > 0
    /\ \E failing \in SUBSET Cols :
           LET pre == [c \in Cols |-> IF AllPlain /\ cr[c].left > 0 /\ Available(cr[c], c) = 0
                                      THEN EnsureLoaded(cr[c], c) ELSE cr[c]]
               peek == [c \in Cols |-> Peeked(pre[c], c, failing)]
           IN /\ \A c \in failing : pre[c].left > 0 /\ ~pre[c].loaded
              /\ faults + Cardinality(failing) <= MaxFaults
              /\ faults' = faults + Cardinality(failing)
              /\ cr' = peek
              /\ rows' = Clamp(peek, BatchRows)
    /\ todo' = [c \in Cols |-> "todo"] /\ out' = [c \in Cols |-> <<>>]
    /\ readError' = FALSE
    /\ pc' = "read" /\ cached' = TRUE
    /\ UNCHANGED <<kind, rg, opened, holds, status, cursor>>

-------------------------------------------------------------------------------
(* read_projected_column, the columns in any order.                        *)

SkipColumn(c) ==
    /\ pc = "read" /\ todo[c] = "todo" /\ readError
    /\ todo' = [todo EXCEPT ![c] = "done"]
    /\ UNCHANGED <<kind, rg, opened, cr, pc, rows, readError, out, holds, status,
                   cached, cursor, faults>>

\* Peek once more, then view the page if the batch fits in it, or copy.
StartColumn(c) ==
    /\ pc = "read" /\ todo[c] = "todo" /\ ~readError
    /\ \E failing \in SUBSET {c} :
           LET k == Peeked(cr[c], c, failing)
           IN /\ failing # {} => cr[c].left > 0 /\ ~cr[c].loaded
              /\ faults + Cardinality(failing) <= MaxFaults
              /\ faults' = faults + Cardinality(failing)
              /\ IF CanView(c, k, rows)
                 THEN /\ cr' = [cr EXCEPT ![c] = Take(k, rows)]
                      /\ out' = [out EXCEPT ![c] = RowsFrom(k, c, rows)]
                      /\ todo' = [todo EXCEPT ![c] = "done"]
                 ELSE /\ cr' = [cr EXCEPT ![c] = k]
                      /\ todo' = [todo EXCEPT ![c] = "reading"]
                      /\ UNCHANGED out
    /\ UNCHANGED <<kind, rg, opened, pc, rows, readError, holds, status, cached,
                   cursor>>

\* One round of the loop of carquet_column_read_batch: the rest of a page.
CopyPage(c) ==
    LET k == EnsureLoaded(cr[c], c)
        n == Smaller(Available(k, c), rows - Len(out[c]))
    IN /\ pc = "read" /\ todo[c] = "reading"
       /\ ~ReadEnough(c)
       /\ cr' = [cr EXCEPT ![c] = Take(k, n)]
       /\ out' = [out EXCEPT ![c] = @ \o RowsFrom(k, c, n)]
       /\ UNCHANGED <<kind, rg, opened, pc, rows, todo, readError, holds, status,
                      cached, cursor, faults>>

\* The next page cannot be loaded: what was read before it is returned, and
\* only if that is nothing the column has an error.
CopyFails(c) ==
    /\ pc = "read" /\ todo[c] = "reading"
    /\ ~ReadEnough(c) /\ Available(cr[c], c) = 0
    /\ faults < MaxFaults /\ faults' = faults + 1
    /\ cr' = [cr EXCEPT ![c] = Passed(cr[c], c)]
    /\ todo' = [todo EXCEPT ![c] = "done"]
    /\ readError' = (readError \/ out[c] = <<>>)
    /\ UNCHANGED <<kind, rg, opened, pc, rows, out, holds, status, cached, cursor>>

CopyDone(c) ==
    /\ pc = "read" /\ todo[c] = "reading"
    /\ ReadEnough(c)
    /\ todo' = [todo EXCEPT ![c] = "done"]
    /\ UNCHANGED <<kind, rg, opened, cr, pc, rows, readError, out, holds, status,
                   cached, cursor, faults>>

ReturnBatch ==
    /\ pc = "read" /\ \A c \in Cols : todo[c] = "done"
    /\ IF readError THEN Return("error") /\ UNCHANGED <<holds, cursor>>
       ELSE /\ Return("OK") /\ holds' = TRUE
            /\ cursor' = IF cr[1].left = 0 THEN <<Rank(rg) + 1, 0>>
                         ELSE <<Rank(rg), NumRows(rg) - cr[1].left>>
    /\ UNCHANGED <<kind, rg, opened, cr, rows, todo, readError, out, cached, faults>>

-------------------------------------------------------------------------------
Init ==
    /\ kind \in [Cols -> Kinds]
    /\ rg = 0 /\ opened = FALSE
    /\ cr = [c \in Cols |-> [passed |-> 0, loaded |-> FALSE, read |-> 0, left |-> 0]]
    /\ pc = "user" /\ rows = 0
    /\ todo = [c \in Cols |-> "done"] /\ readError = FALSE
    /\ out = [c \in Cols |-> <<>>] /\ holds = FALSE
    /\ status = "OK" /\ cached = FALSE
    /\ cursor = <<1, 0>> /\ faults = 0

ColumnStep(c) == \/ SkipColumn(c) \/ StartColumn(c)
                 \/ CopyPage(c) \/ CopyFails(c) \/ CopyDone(c)

NextStep == \/ ReturnEnd \/ Open \/ OpenFails \/ AllocFails \/ ServeEmpty
            \/ PreloadFails \/ LoadPages
            \/ \E c \in Cols : ColumnStep(c)
            \/ ReturnBatch

Stopped == /\ \/ pc = "user" /\ status # "OK" /\ ~Persistent
              \/ pc = "crashed"
           /\ UNCHANGED vars

Next == CallNext \/ NextStep \/ Stopped

Spec == Init /\ [][Next]_vars /\ WF_vars(NextStep)

-------------------------------------------------------------------------------
(* Properties.                                                             *)

\* The counters of next() and of its column readers keep their types; a batch
\* never has more rows than the caller's buffers have room for.
TypeOK ==
    /\ rg \in 0 .. Len(Pages) + 1
    /\ \A c \in Cols : /\ cr[c].passed \in Nat /\ cr[c].read \in Nat
                       /\ cr[c].left \in Nat /\ cr[c].loaded \in BOOLEAN
    /\ pc \in {"user", "end", "open", "load", "read", "crashed"}
    /\ rows \in 0 .. BatchSize

\* The two counts a column reader keeps never drift apart: what is left of
\* the chunk is what lies behind the position in its pages, through views,
\* copies across pages and failed loads alike.
CountsAgree ==
    opened /\ rg \in RGs /\ pc # "open" => \A c \in Cols :
        /\ Position(cr[c], c) + cr[c].left = Total(Pages[rg][c])
        /\ Available(cr[c], c) >= 0

\* Until a fault the column readers stand at the same row whenever the
\* caller has control, although their pages end at different rows.
ColumnsInStep ==
    faults = 0 /\ pc = "user" => \A c \in Cols : cr[c].left = cr[1].left

\* What the caller holds, and the rows of each row group the filter accepts.
Held == IF holds THEN out ELSE <<>>
RowCounts == [i \in 1 .. Cardinality(Selected) |->
                 NumRows(CHOOSE g \in Selected : Rank(g) = i)]

\* The sequential path is a row stream of the selected row groups.
Stream == INSTANCE RowStream WITH
    Columns <- Cols,
    held    <- Held,
    asked   <- pc # "user",
    broken  <- faults > 0

ImplementsRowStream == Stream!StreamSpec

\* carquet.h declares carquet_column_has_next CARQUET_NONNULL(1).
NeverNullReader == pc # "crashed"
===============================================================================
