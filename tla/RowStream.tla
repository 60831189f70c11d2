------------------------------- MODULE RowStream -------------------------------
(***************************************************************************)
(* What carquet_batch_reader_next promises, whichever path serves it: the  *)
(* rows of the selected row groups come in file order, none twice and none *)
(* left out, every column of a batch holds the same rows and keeps them    *)
(* until the next call, and "end of data" comes only after the last row.   *)
(* An allocation or decoding fault inside a call ends the promise about    *)
(* the data (broken), not the promise that every call returns.             *)
(***************************************************************************)
EXTENDS Integers, Sequences

CONSTANTS RowCounts,  \* num_rows of each selected row group, in file order
          Columns,    \* the projected columns
          BatchSize   \* config.batch_size

VARIABLES cursor,  \* the next row: its row group, and the rows before it
          held,    \* per column the rows of the batch the caller holds
          asked,   \* a call is in progress
          broken   \* some fault happened

streamVars == <<cursor, held, asked, broken>>

\* A batch has columns.
NoBatch == <<>>

\* Rows first + 1 .. first + n of row group g.
Window(g, first, n) == [i \in 1..n |-> <<g, first + i>>]

\* Where the stream is after rows .. r of row group g.
CursorAfter(g, r) == IF r >= RowCounts[g] THEN <<g + 1, 0>> ELSE <<g, r>>

AtEnd == cursor[1] > Len(RowCounts)

StreamInit == /\ cursor = <<1, 0>>
              /\ held = NoBatch
              /\ asked = FALSE
              /\ broken = FALSE

\* The caller asks for a batch, or frees the reader: either invalidates the
\* batch it holds.
Ask == /\ ~asked /\ asked' = TRUE
       /\ held' = NoBatch
       /\ UNCHANGED <<cursor, broken>>

\* At least one row, unless the row group is empty: then one empty batch.
Deliver ==
    /\ asked /\ ~AtEnd /\ asked' = FALSE
    /\ LET g == cursor[1]
           left == RowCounts[g] - cursor[2]
       IN \E n \in 0 .. BatchSize :
              /\ n <= left
              /\ n = 0 => left = 0
              /\ ~broken => held' = [c \in Columns |-> Window(g, cursor[2], n)]
              /\ cursor' = CursorAfter(g, cursor[2] + n)
    /\ held' # NoBatch
    /\ UNCHANGED broken

EndOfData == /\ asked /\ asked' = FALSE
             /\ AtEnd \/ broken
             /\ UNCHANGED <<cursor, held, broken>>

\* Another status, or the reader is gone: no batch, and no row is lost, but
\* the empty batch of a row group without rows may not come any more.
Error == /\ asked /\ asked' = FALSE
         /\ broken => broken'
         /\ \/ UNCHANGED cursor
            \/ /\ ~AtEnd /\ RowCounts[cursor[1]] = 0
               /\ cursor' = CursorAfter(cursor[1], 0)
         /\ UNCHANGED held

Fault == /\ broken' = TRUE
         /\ UNCHANGED <<cursor, held, asked>>

\* After a fault the contents of the caller's batch are anything.
Garble == /\ broken /\ held # NoBatch /\ held' # NoBatch
          /\ UNCHANGED <<cursor, asked, broken>>

StreamNext == Ask \/ Deliver \/ EndOfData \/ Error \/ Fault \/ Garble

\* Every call returns.
Answered == asked ~> ~asked

StreamSafeSpec == StreamInit /\ [][StreamNext]_streamVars
StreamSpec == StreamSafeSpec /\ Answered
===============================================================================
