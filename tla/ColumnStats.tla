------------------------------ MODULE ColumnStats ------------------------------
(***************************************************************************)
(* Minimum and maximum: of the page being written (page_writer.c), merged  *)
(* into those of the column chunk (column_writer.c), and used by the       *)
(* reader to rule out row groups (reader/statistics.c).                    *)
(*                                                                         *)
(* Values are small numbers in the order of the column's type.  Among      *)
(* floats the number 2 is NaN, among byte arrays 0 is the empty string.    *)
(* Kinds: "bits" (BOOLEAN), "ints" (INT32, INT64 and byte-comparable       *)
(* FIXED_LEN_BYTE_ARRAY), "floats" (FLOAT, DOUBLE), "bytes" (BYTE_ARRAY)   *)
(* and "int96" (INT96, which has no order).                                *)
(***************************************************************************)
EXTENDS Integers, Sequences, FiniteSets, SequencesExt

NaN == 2
EmptyString == 0
ValuesOf(kind) == IF kind = "floats" THEN {0, 1, NaN} ELSE {0, 1}
IsNaN(kind, v) == kind = "floats" /\ v = NaN
Size(kind, v) == IF kind = "bytes" /\ v = EmptyString THEN 0 ELSE 1

\* a < b ? -1 : a > b ? 1 : 0, which is 0 when either is NaN.
Compare(kind, a, b) ==
    CASE IsNaN(kind, a) \/ IsNaN(kind, b) -> 0
      [] a < b -> -1
      [] a > b -> 1
      [] OTHER -> 0

NoStats == [has |-> FALSE, min |-> 0, max |-> 0]
Bounds(lo, hi) == [has |-> TRUE, min |-> lo, max |-> hi]
Widened(s, lo, hi) ==
    IF ~s.has THEN Bounds(lo, hi)
    ELSE Bounds(Min({s.min, lo}), Max({s.max, hi}))

\* float_minmax_nan_safe and its kin: NaN is skipped; nothing else, no bounds.
WidenedBy(kind, s, values) ==
    LET seen == {v \in Range(values) : ~IsNaN(kind, v)}
    IN  IF seen = {} THEN s ELSE Widened(s, Min(seen), Max(seen))

\* The statistics of a page after values were added to it.  The fused kernels
\* that copy PLAIN numbers start from the first element of the caller's array,
\* also when none of it is a value: every row of the call is null.
FromFirstElement(kind, coding) == coding = "plain" /\ kind \in {"ints", "floats"}
PageStats(kind, coding, s, values, first) ==
    CASE kind = "int96" -> s
      [] values = <<>> /\ FromFirstElement(kind, coding) -> WidenedBy(kind, s, <<first>>)
      [] OTHER -> WidenedBy(kind, s, values)

\* compare_stat_values finds v a better minimum (sign -1) or maximum (sign 1).
Improves(kind, v, best, sign) == sign * Compare(kind, v, best) > 0

\* dict_compute_min_max: the first of all values is the first candidate, and
\* a later one replaces it when it compares as smaller, or as larger.
Extremum(kind, values, sign) ==
    FoldLeft(LAMBDA best, v : IF Improves(kind, v, best, sign) THEN v ELSE best,
             values[1], values)
DictionaryStats(kind, values) ==
    Bounds(Extremum(kind, values, -1), Extremum(kind, values, 1))

\* merge_page_statistics; a bound of no bytes is taken for a missing one.
Better(kind, v, best, sign) == IF Improves(kind, v, best, sign) THEN v ELSE best
MergedMaxAsMin(kind, s, page) ==
    IF ~page.has \/ Size(kind, page.min) = 0 \/ Size(kind, page.max) = 0 THEN s
    ELSE IF ~s.has THEN page
    ELSE Bounds(Better(kind, page.min, s.min, -1), Better(kind, page.max, s.max, -1))
Merged(kind, s, page) ==
    IF ~page.has \/ Size(kind, page.min) = 0 \/ Size(kind, page.max) = 0 THEN s
    ELSE IF ~s.has THEN page
    ELSE Bounds(Better(kind, page.min, s.min, -1), Better(kind, page.max, s.max, 1))

-------------------------------------------------------------------------------
(* Predicate pushdown.                                                     *)

Ops == {"EQ", "NE", "LT", "LE", "GT", "GE"}

\* What the predicate says of a row.
Holds(kind, op, x, v) ==
    LET ordered == ~IsNaN(kind, x) /\ ~IsNaN(kind, v)
    IN  CASE op = "EQ" -> ordered /\ x = v
          [] op = "NE" -> ~ordered \/ x # v
          [] op = "LT" -> ordered /\ x < v
          [] op = "LE" -> ordered /\ x <= v
          [] op = "GT" -> ordered /\ x > v
          [] op = "GE" -> ordered /\ x >= v

\* carquet_reader_column_statistics: bounds count only when both have bytes.
UsableStats(kind, s) == s.has /\ Size(kind, s.min) > 0 /\ Size(kind, s.max) > 0

\* carquet_reader_row_group_matches.
MightMatch(kind, s, op, v) ==
    LET low  == Compare(kind, v, s.min)
        high == Compare(kind, v, s.max)
    IN  UsableStats(kind, s) =>
        CASE op = "EQ" -> low >= 0 /\ high <= 0
          [] op = "NE" -> ~(low = 0 /\ high = 0)
          [] op = "LT" -> low > 0
          [] op = "LE" -> low >= 0
          [] op = "GT" -> high < 0
          [] op = "GE" -> high <= 0
===============================================================================
