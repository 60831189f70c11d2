--------------------------- MODULE MCSequentialBatch ---------------------------
(* Instances of SequentialBatch for TLC.                                   *)
EXTENDS SequentialBatch

\* Two columns: pages that end at different rows, an empty row group, a row
\* group the filter rejects, and one whose pages end together.
Layout == << << <<2, 3>>, <<1, 3, 1>> >>,
             << <<>>, <<>> >>,
             << <<1>>, <<1>> >>,
             << <<2, 1>>, <<2, 1>> >> >>
===============================================================================
