------------------------------- MODULE PageBounds ------------------------------
(***************************************************************************)
(* What is said of the pages of a column chunk, so that a reader can skip  *)
(* what it does not want: bounds, null counts and places, gathered page by *)
(* page by the writer (metadata/page_index.c), and the bounds of the whole *)
(* chunk in the footer (file_writer.c).                                    *)
(*                                                                         *)
(* Kinds of columns: "signed" and "unsigned" integers, each value a        *)
(* sequence of the one word it is stored as; "floats" (FLOAT, DOUBLE and   *)
(* FLOAT16), whose values are the sequences of their bytes, the low one    *)
(* first; and "bytes", likewise.  A bound that is missing is stored as no  *)
(* bytes, <<>>, and so is the empty byte array.  NaN, which never becomes  *)
(* a bound, is in no page, and one zero stands for the two.                *)
(***************************************************************************)
EXTENDS Integers, Sequences, FiniteSets

CONSTANTS MaxPages,         \* bound: pages of a chunk
          MaxHeld,          \* bound: different values of a page
          MaxNulls,         \* bound: nulls of a page
          IntBits,          \* width of an integer: 32, 64
          ByteMax,          \* largest byte: 255
          BoundLength,      \* TRUNC, longest bound of byte arrays in a footer: 32
          IndexedValues,    \* the values that pages hold, of each kind
          FloatNumber       \* the place of each float among them

VARIABLES kind,      \* the column's kind
          pages,     \* what its pages hold: [values, nulls]
          column,    \* carquet_column_index_builder_t, a sequence of entries
          offsets,   \* carquet_offset_index_builder_t, likewise
          chunkBounds \* the column writer's min_value and max_value
indexVars == <<kind, pages, column, offsets, chunkBounds>>

Kinds == {"signed", "unsigned", "floats", "bytes"}

ASSUME PageBoundsAssumption ==
    /\ IntBits \in Nat \ {0} /\ ByteMax \in Nat /\ BoundLength \in Nat
    /\ IndexedValues \in [Kinds -> SUBSET Seq(Nat)]
    /\ \A k \in {"signed", "unsigned"} : \A v \in IndexedValues[k] :
           Len(v) = 1 /\ v[1] < 2^IntBits
    /\ FloatNumber \in [IndexedValues["floats"] -> Int]
    /\ \A v \in IndexedValues["bytes"] : \A i \in DOMAIN v : v[i] <= ByteMax

-------------------------------------------------------------------------------
(* The order of values, by which the writer finds bounds (page_writer.c,   *)
(* compare_stat_values), and the one by which the index is asked           *)
(* (compare_index_values), which knows integers and else compares bytes.   *)

AsSigned(word) == IF word >= 2^(IntBits - 1) THEN word - 2^IntBits ELSE word
BytesBefore(a, b) ==
    \/ \E n \in DOMAIN a \cap DOMAIN b : a[n] < b[n] /\ \A i \in 1 .. n - 1 : a[i] = b[i]
    \/ Len(a) < Len(b) /\ SubSeq(b, 1, Len(a)) = a
Before(k, a, b) ==
    CASE k = "signed"   -> AsSigned(a[1]) < AsSigned(b[1])
      [] k = "unsigned" -> a[1] < b[1]
      [] k = "floats"   -> FloatNumber[a] < FloatNumber[b]
      [] k = "bytes"    -> BytesBefore(a, b)
IndexBefore(k, a, b) == IF k = "floats" THEN BytesBefore(a, b) ELSE Before(k, a, b)

Least(k, S)    == CHOOSE v \in S : \A w \in S : ~Before(k, w, v)
Greatest(k, S) == CHOOSE v \in S : \A w \in S : ~Before(k, v, w)
Bounds(min, max) == [min |-> min, max |-> max]
NoBounds == Bounds(<<>>, <<>>)
Extremes(k, S) == IF S = {} THEN NoBounds ELSE Bounds(Least(k, S), Greatest(k, S))
IsThere(bound) == bound # <<>>
AreThere(bounds) == IsThere(bounds.min) /\ IsThere(bounds.max)

-------------------------------------------------------------------------------
(* The writer.                                                             *)

\* carquet_column_index_add_page and carquet_offset_index_add_page, as
\* flush_current_page calls them: a page without statistics counts as one of
\* nulls; the sizes of its bytes are stand-ins; rows are counted by values.
Entry(k, values, nulls) ==
    [null_page |-> values = {}, null_count |-> nulls,
     min |-> Extremes(k, values).min, max |-> Extremes(k, values).max]
Held(page) == Cardinality(page.values) + page.nulls
Location(held, locations) ==
    LET last == locations[Len(locations)]
    IN  IF locations = <<>>
        THEN [offset |-> 4, compressed_page_size |-> 7, first_row_index |-> 0, raw |-> 9]
        ELSE [offset |-> last.offset + last.compressed_page_size,
              compressed_page_size |-> last.compressed_page_size + 1,
              first_row_index |-> last.first_row_index + Held(held[Len(held)]), raw |-> last.raw + 1]

\* merge_page_statistics: of a page one of whose bounds has no bytes, nothing.
Merged(k, bounds, page) ==
    IF ~AreThere(page) THEN bounds
    ELSE IF bounds = NoBounds THEN Bounds(page.min, page.max)
    ELSE Bounds(IF Before(k, page.min, bounds.min) THEN page.min ELSE bounds.min,
                IF Before(k, bounds.max, page.max) THEN page.max ELSE bounds.max)

IndexInit ==
    kind \in Kinds /\ pages = <<>> /\ column = <<>> /\ offsets = <<>> /\ chunkBounds = NoBounds
AddPage(values, nulls) ==
    /\ Len(pages) < MaxPages
    /\ IsFiniteSet(values) /\ Cardinality(values) <= MaxHeld
    /\ pages'   = Append(pages, [values |-> values, nulls |-> nulls])
    /\ column'  = Append(column, Entry(kind, values, nulls))
    /\ offsets' = Append(offsets, Location(pages, offsets))
    /\ chunkBounds' = Merged(kind, chunkBounds, Extremes(kind, values))
    /\ UNCHANGED kind
IndexNext ==
    \E values \in SUBSET IndexedValues[kind], nulls \in 0 .. MaxNulls : AddPage(values, nulls)
IndexSpec == IndexInit /\ [][IndexNext]_indexVars

-------------------------------------------------------------------------------
(* The reader.                                                             *)

\* carquet_column_index_page_might_match, for the values from the one in lows to
\* the one in highs; an end that is open (NULL) is {}.
MightHold(k, entry, lows, highs) ==
    /\ ~entry.null_page
    /\ IsThere(entry.min) => \A high \in highs : ~IndexBefore(k, high, entry.min)
    /\ IsThere(entry.max) => \A low \in lows : ~IndexBefore(k, entry.max, low)

-------------------------------------------------------------------------------
(* The bounds of the chunk: build_file_metadata shortens those of byte     *)
(* arrays, the upper one to the next larger string of its length.          *)

Shortened(bound) == SubSeq(bound, 1, BoundLength)
RaisedInPlace(bound) ==
    IF bound[BoundLength] < ByteMax THEN [Shortened(bound) EXCEPT ![BoundLength] = @ + 1]
    ELSE Shortened(bound)
Raised(bound) ==
    LET kept == {n \in 1 .. BoundLength : bound[n] < ByteMax}
        last == CHOOSE n \in kept : \A m \in kept : m <= n
    IN  IF kept = {} THEN <<>> ELSE [SubSeq(bound, 1, last) EXCEPT ![last] = @ + 1]
IsLong(k, bound) == k = "bytes" /\ Len(bound) > BoundLength
FooterBounds(k, b) ==
    IF AreThere(b) THEN Bounds(IF IsLong(k, b.min) THEN Shortened(b.min) ELSE b.min,
                               IF IsLong(k, b.max) THEN Raised(b.max) ELSE b.max)
    ELSE NoBounds
Within(k, bounds, v) ==
    /\ IsThere(bounds.min) => ~Before(k, v, bounds.min)
    /\ IsThere(bounds.max) => ~Before(k, bounds.max, v)

-------------------------------------------------------------------------------
\* A range with v in it, whose two ends the caller gives one length (value_len).
Ends(k) == {{}} \cup {{v} : v \in IndexedValues[k]}
IsRangeOf(k, v, lows, highs) ==
    /\ \A a, b \in lows \cup highs : Len(a) = Len(b)
    /\ \A low \in lows : ~Before(k, v, low)
    /\ \A high \in highs : ~Before(k, high, v)
PageIsFound(i) ==
    \A v \in pages[i].values, lows, highs \in Ends(kind) :
        IsRangeOf(kind, v, lows, highs) => MightHold(kind, column[i], lows, highs)

\* "Check if a page might contain values in the given range" (page_index.c:554): it
\* says no of no page that does.
AllPagesAreFound == \A i \in DOMAIN pages : PageIsFound(i)

\* The same of all columns but floats, whose bytes are not in their order; nor is
\* the chunk, by its bounds in the footer, passed over for a value of a page, but
\* of one with an empty byte array, which the bounds leave out; and the places of
\* pages, in bytes and in rows, lie behind one another.  (That a reader is given
\* these entries and places again is MetadataIsRead of MetadataFile.)
IndexFindsPages ==
    /\ kind # "floats" => AllPagesAreFound
    /\ \A i \in DOMAIN pages : AreThere(column[i]) =>
          \A v \in pages[i].values : Within(kind, FooterBounds(kind, chunkBounds), v)
    /\ \A i \in DOMAIN pages : \A j \in 1 .. i - 1 :
          /\ offsets[j].offset + offsets[j].compressed_page_size <= offsets[i].offset
          /\ offsets[j].first_row_index + Held(pages[j]) <= offsets[i].first_row_index
===============================================================================
