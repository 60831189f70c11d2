----------------------------- MODULE MCColumnChunk -----------------------------
(* Instances of ColumnChunk for TLC.                                       *)
EXTENDS ColumnChunk

Column(kind, coding, maxDef, maxRep, v2) ==
    [kind |-> kind, coding |-> coding, maxDef |-> maxDef, maxRep |-> maxRep, v2 |-> v2,
     codec |-> FALSE, crc |-> FALSE, mapped |-> FALSE, batch |-> 0, cap |-> 0]

\* Every kind with every coding it has, levels, versions, codecs, checksums and
\* ways of reading; write batches and pages of few rows where they matter.
MixedColumns ==
    {[Column("ints", "plain", 1, 1, v2) EXCEPT !.codec = v2, !.batch = 2] : v2 \in BOOLEAN}
    \cup {[Column("ints", "dict", 1, 0, v2) EXCEPT !.mapped = v2, !.codec = ~v2] : v2 \in BOOLEAN}
    \cup {[Column("bytes", coding, 0, 0, FALSE) EXCEPT !.codec = codec, !.mapped = mapped,
                                                       !.crc = codec, !.batch = 2, !.cap = 2] :
            coding \in {"plain", "length", "delta"}, codec \in BOOLEAN, mapped \in BOOLEAN}
    \cup {[Column("bytes", "dict", 1, 0, TRUE) EXCEPT !.crc = TRUE],
          [Column("bytes", "plain", 1, 0, TRUE) EXCEPT !.codec = TRUE, !.crc = TRUE, !.cap = 2],
          [Column("floats", "plain", 1, 0, FALSE) EXCEPT !.cap = 2],
          [Column("floats", "dict", 0, 0, FALSE) EXCEPT !.codec = TRUE],
          [Column("bits", "plain", 1, 0, TRUE) EXCEPT !.cap = 2, !.codec = TRUE],
          Column("bits", "plain", 0, 0, FALSE),
          [Column("int96", "plain", 0, 0, TRUE) EXCEPT !.cap = 2, !.crc = TRUE],
          Column("ints", "delta", 1, 0, FALSE)}

\* A nullable column written with a write_batch_size.
SplitColumns == {[Column("ints", "plain", 1, 0, TRUE) EXCEPT !.batch = 2]}

\* Byte arrays in pages of two rows.
PrunedColumns == {[Column("bytes", "plain", 0, 0, FALSE) EXCEPT !.batch = 2, !.cap = 2]}
===============================================================================
