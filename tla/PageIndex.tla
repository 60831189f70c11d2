------------------------------- MODULE PageIndex -------------------------------
(***************************************************************************)
(* The page index of a column chunk (PageBounds) as it is written to a     *)
(* file and read from it: metadata/page_index.c.                           *)
(***************************************************************************)
EXTENDS Thrift, PageBounds

-------------------------------------------------------------------------------
(* The writer.                                                             *)

\* carquet_column_index_serialize, carquet_offset_index_serialize; the writer
\* never sets the order of the bounds.
Each(seq, f(_)) == [i \in DOMAIN seq |-> f(seq[i])]
ColumnIndexRows ==
    << Row(1, "null_pages", ListOf(Bool)), Row(2, "min_values", ListOf(Binary)),
       Row(3, "max_values", ListOf(Binary)), Row(4, "boundary_order", Num("I32")),
       Row(5, "null_counts", ListOf(Num("I64"))) >>
ColumnIndexOf(entries) ==
    [null_pages |-> Each(entries, LAMBDA e : e.null_page),
     min_values |-> Each(entries, LAMBDA e : e.min),
     max_values |-> Each(entries, LAMBDA e : e.max),
     boundary_order |-> 0,
     null_counts |-> Each(entries, LAMBDA e : e.null_count)]
LocationRows == << Row(1, "offset", Num("I64")), Row(2, "compressed_page_size", Num("I32")),
                   Row(3, "first_row_index", Num("I64")) >>
PlacesOf(locations) == Each(locations, LAMBDA l : [f \in DOMAIN l \ {"raw"} |-> l[f]])
OffsetIndexRows(location) == << Row(1, "page_locations", ListOf(StructOf(location))),
                                Row(2, "uncompressed_page_sizes", ListOf(Num("I32"))) >>
OffsetIndexOf(locations) ==
    [page_locations |-> PlacesOf(locations),
     uncompressed_page_sizes |-> Each(locations, LAMBDA l : l.raw)]
WriteColumnIndex(index) == Fields(index, ColumnIndexRows) \o Stop
WriteOffsetIndex(index) == Fields(index, OffsetIndexRows(LocationRows)) \o Stop

-------------------------------------------------------------------------------
(* The reader.                                                             *)

Table(rows) ==
    [id \in {rows[i].id : i \in DOMAIN rows} |->
       LET row == CHOOSE r \in Range(rows) : r.id = id IN Column(row.name, row.kind)]
ColumnIndexTable == Table(ColumnIndexRows)
OffsetIndexTable == (1 :> Column("page_locations", ListOf(StructOf(Table(LocationRows)))))

\* carquet_column_index_parse: as many pages as the shortest list has, none
\* without the list of null pages; the accessor's defaults for what is missing.
Lists == {"null_pages", "min_values", "max_values", "null_counts"}
NumPages(v) ==
    IF "null_pages" \notin DOMAIN v THEN 0
    ELSE CHOOSE n \in {Len(v[l]) : l \in Lists \cap DOMAIN v} :
             \A l \in Lists \cap DOMAIN v : n <= Len(v[l])
At(v, list, i, default) == IF list \in DOMAIN v THEN v[list][i] ELSE default
Entries(r) ==
    [ok |-> r.d.ok,
     v  |-> [i \in 1 .. NumPages(r.v) |->
               [null_page  |-> At(r.v, "null_pages", i, FALSE),
                null_count |-> At(r.v, "null_counts", i, 0),
                min |-> At(r.v, "min_values", i, <<>>),
                max |-> At(r.v, "max_values", i, <<>>)]]]
ReadColumnIndex(stream) == Entries(ReadAll(stream, ColumnIndexTable))

\* carquet_offset_index_parse; the sizes before compression are passed over.
Locations(r) ==
    [ok |-> r.d.ok, v |-> IF "page_locations" \in DOMAIN r.v THEN r.v.page_locations ELSE <<>>]
ReadOffsetIndex(stream) == Locations(ReadAll(stream, OffsetIndexTable))
===============================================================================
