------------------------------ MODULE PageFormat ------------------------------
(***************************************************************************)
(* What a page holds: how page_writer.c lays levels and values down, and   *)
(* how page_reader.c takes them up again.                                  *)
(*                                                                         *)
(* A column is a record: kind (see ColumnStats), coding ("plain", "dict",  *)
(* "delta" for DELTA_BINARY_PACKED and DELTA_BYTE_ARRAY, "length" for      *)
(* DELTA_LENGTH_BYTE_ARRAY), maxDef and maxRep, v2 (data_page_v2), codec   *)
(* (compressed or not), crc, mapped (read through mmap), batch             *)
(* (write_batch_size) and cap (max_rows_per_page), 0 for none.             *)
(*                                                                         *)
(* A row is a record of its levels and its value.  A stream that one call  *)
(* of the page writer appends is a section: a page is a sequence of them   *)
(* for each kind of level and for the values.                              *)
(***************************************************************************)
EXTENDS ColumnStats

CONSTANT ByteBits  \* booleans in a byte: 8

ASSUME PageFormatAssumption == ByteBits \in Nat \ {0}

NoValue == -1
Garbage == -2   \* what decoding the wrong bytes gives

IsPresent(col, row) == row.def = col.maxDef
\* carquet_dispatch_count_non_nulls
NonNull(col, rows) == Len(SelectSeq(rows, LAMBDA x : IsPresent(col, x)))
PresentValues(col, rows) ==
    LET present == SelectSeq(rows, LAMBDA x : IsPresent(col, x))
    IN  [i \in DOMAIN present |-> present[i].val]

HasStride(col) == col.kind # "bytes"   \* physical_type_stride(...) > 0

-------------------------------------------------------------------------------
(* The page writer's side.                                                 *)

NewPage == [num |-> 0, nulls |-> 0, rows |-> 0, reps |-> <<>>, defs |-> <<>>,
            values |-> <<>>, stats |-> NoStats]

\* encode_levels: one more section, behind its length in a page of version 1.
EncodeLevels(max, sections, levels) ==
    IF max = 0 THEN sections ELSE Append(sections, levels)

\* carquet_encode_plain_boolean starts every call on a byte of its own.
Padded(bits) ==
    LET missing == (-Len(bits)) % ByteBits
    IN  bits \o [i \in 1 .. missing |-> 0]
EncodeValues(col, coding, values) ==
    IF col.kind = "bits" /\ coding = "plain" THEN Padded(values) ELSE values

Rows(col, rows) ==
    IF col.maxRep = 0 THEN Len(rows) ELSE Len(SelectSeq(rows, LAMBDA x : x.rep = 0))

Counted(col, p, rows) ==
    [p EXCEPT !.num = @ + Len(rows),
              !.nulls = @ + Len(rows) - NonNull(col, rows),
              !.rows = IF col.v2 THEN @ + Rows(col, rows) ELSE @,
              !.defs = EncodeLevels(col.maxDef, @, [i \in DOMAIN rows |-> rows[i].def]),
              !.reps = EncodeLevels(col.maxRep, @, [i \in DOMAIN rows |-> rows[i].rep])]

\* carquet_page_writer_add_values: array is what the caller's pointer leads to,
\* the rows' values at its front.
AddValues(col, coding, p, rows, array) ==
    LET values == SubSeq(array, 1, NonNull(col, rows))
    IN  [Counted(col, p, rows) EXCEPT
            !.values = Append(@, EncodeValues(col, coding, values)),
            !.stats = PageStats(col.kind, coding, @, values, array[1])]

\* carquet_page_writer_add_dictionary_indices, then set_min_max.
AddIndices(col, p, rows, indices, stats) ==
    [Counted(col, p, rows) EXCEPT !.values = Append(@, indices), !.stats = stats]

\* carquet_page_writer_estimated_size, in cells: a value or a section each.
EstimatedSize(p) ==
    Len(FlattenSeq(p.values)) + Len(p.defs) + Len(p.reps)

ValuesSize(p) == Len(FlattenSeq(p.values))

\* compress_data, which a column without a codec goes past.
Compressed(col, part) == IF col.codec THEN part ELSE "none"

\* append_data_page_header and append_data_page_header_v2; the checksum is of
\* the bytes as they are stored.
DataPageHeader(col, coding, p, packed) ==
    [v2 |-> FALSE, coding |-> coding, packed |-> packed, page |-> p,
     crc |-> col.crc, damaged |-> FALSE]
DataPageHeaderV2(col, coding, p, packed) ==
    [v2 |-> TRUE, coding |-> coding, packed |-> packed, page |-> p,
     crc |-> col.crc, damaged |-> FALSE]

\* carquet_page_writer_finalize_to_buffer: the codec takes all of the payload,
\* or in version 2 the values, if there are any.
FinalizedV1(col, coding, p) == DataPageHeader(col, coding, p, Compressed(col, "all"))
FinalizedV2(col, coding, p) ==
    DataPageHeaderV2(col, coding, p,
                     IF ValuesSize(p) > 0 THEN Compressed(col, "values") ELSE "none")
Finalized(col, coding, p) ==
    IF col.v2 THEN FinalizedV2(col, coding, p) ELSE FinalizedV1(col, coding, p)

\* carquet_page_writer_emit_dictionary_page
DictionaryPage(col, entries) ==
    [entries |-> entries, packed |-> Compressed(col, "all"),
     crc |-> col.crc, damaged |-> FALSE]

-------------------------------------------------------------------------------
(* The page reader's side.  A result is the sequence read and whether it   *)
(* could be read.                                                          *)

Read(s) == [ok |-> TRUE, data |-> s]
Unreadable == [ok |-> FALSE, data |-> <<>>]
Prefix(s, n) == IF Len(s) < n THEN Unreadable ELSE Read(SubSeq(s, 1, n))

\* carquet_verify_page_crc
ChecksumOk(stored) == stored.crc => ~stored.damaged

\* prepare_data_page_payload: what it undoes is what the header and the
\* column's codec say; anything else is not a payload.
Unpacks(col, stored) ==
    IF stored.v2
    THEN IF stored.packed = "values" /\ col.codec THEN "values" ELSE "none"
    ELSE IF col.codec THEN "all" ELSE "none"
Prepared(col, stored) == Unpacks(col, stored) = stored.packed

\* decode_v1_level_section: n levels from the first section; what follows it
\* is taken for the next part of the page.
LevelsV1(sections, n) == IF sections = <<>> THEN Unreadable ELSE Prefix(sections[1], n)

\* Version 2 gives the lengths of both in the header: sections run together.
LevelsV2(sections, n) == Prefix(FlattenSeq(sections), n)

Levels(max, stored, sections) ==
    LET n == stored.page.num
    IN  IF max = 0 THEN Read([i \in 1 .. n |-> 0])
        ELSE IF stored.v2 THEN LevelsV2(sections, n) ELSE LevelsV1(sections, n)

\* decode_phase3_values: one stream, whatever follows it.  Its decoder does not
\* compare n with the count in the header.
FirstStream(sections, n) ==
    LET s == IF sections = <<>> THEN <<>> ELSE sections[1]
    IN  Read([i \in 1 .. n |-> IF i <= Len(s) THEN s[i] ELSE Garbage])

LookUp(dictionary, indices) ==
    IF indices.ok /\ \A i \in DOMAIN indices.data : indices.data[i] + 1 \in DOMAIN dictionary
    THEN Read([i \in DOMAIN indices.data |-> dictionary[indices.data[i] + 1]])
    ELSE Unreadable

\* The n present values of a page.
StoredValues(stored, n, dictionary) ==
    CASE n = 0 -> Read(<<>>)
      [] stored.coding = "plain" -> Prefix(FlattenSeq(stored.page.values), n)
      [] stored.coding = "dict" ->
           LookUp(dictionary, Prefix(FlattenSeq(stored.page.values), n))
      [] OTHER -> FirstStream(stored.page.values, n)

\* Bytes that changed in storage decode to something else.
Intact(stored, data) == IF stored.damaged THEN [i \in DOMAIN data |-> Garbage] ELSE data

CountPresent(col, defs) == Len(SelectSeq(defs, LAMBDA d : d = col.maxDef))

\* carquet_read_data_page_v1 and _v2: repetition levels, definition levels,
\* then as many values as levels say.
Undecodable == [ok |-> FALSE, reps |-> <<>>, defs |-> <<>>, values |-> <<>>]
WithValues(stored, reps, defs, values) ==
    IF values.ok THEN [ok |-> TRUE, reps |-> reps.data, defs |-> defs.data,
                       values |-> Intact(stored, values.data)]
    ELSE Undecodable
WithLevels(col, stored, dictionary, reps, defs) ==
    IF reps.ok /\ defs.ok
    THEN WithValues(stored, reps, defs,
                    StoredValues(stored, CountPresent(col, defs.data), dictionary))
    ELSE Undecodable
DecodedPage(col, stored, dictionary) ==
    IF Prepared(col, stored)
    THEN WithLevels(col, stored, dictionary,
                    Levels(col.maxRep, stored, stored.page.reps),
                    Levels(col.maxDef, stored, stored.page.defs))
    ELSE Undecodable

-------------------------------------------------------------------------------

\* The parts of a page can be read as one: it was filled by one call, or its
\* sections run together.
JoinsUp(col, stored) ==
    \/ Len(stored.page.values) <= 1
    \/ /\ col.maxDef = 0 \/ col.v2
       /\ stored.coding = "plain"
       /\ \A i \in 1 .. Len(stored.page.values) - 1 :
            col.kind = "bits" => stored.page.values[i] = <<>>
===============================================================================
