------------------------------ MODULE MetadataFile ------------------------------
(***************************************************************************)
(* The metadata of a file from its making to its reading: a schema or a    *)
(* page index is built call by call, written as Thrift, perhaps by a       *)
(* writer that knows more fields than the reader, perhaps cut, and read.   *)
(***************************************************************************)
EXTENDS SchemaBuilder, PageIndex

CONSTANTS Documents,   \* metadata as other parts of the writer hand it over: [what, v]
          NewerFields  \* fields of a later version of the format, by name

VARIABLES topic,       \* what is built: "schema", "index" or "document"
          doc,         \* what was written
          stream,      \* the bytes it was written as
          cut,         \* whether their end is lost
          got          \* what the reader made of them
fileVars == <<topic, doc, stream, cut, got>>
metadataVars == <<schema, indexVars, fileVars>>

Nothing == [what |-> "nothing"]
Doc(what, v) == [what |-> what, v |-> v]

\* build_file_metadata copies the elements in the order of the calls.
FooterOf(s) == [version |-> 2, schema |-> s.elements, num_rows |-> 0, row_groups |-> <<>>]

\* External: a later writer has one more field, of any of the types, last in the
\* footer and in each of its elements, key-value pairs and columns ("records"), or
\* in the bounding boxes of columns ("box").
Later(footer, field, place) == [what |-> "later", v |-> footer, newer |-> field, place |-> place]
NewerKind ==
    [i16 |-> Num("I16"), i32 |-> I32, i64 |-> I64, flag |-> Bool, byte |-> Byte,
     double |-> Double, uuid |-> Uuid, text |-> Binary,
     struct |-> StructOf(TimeRows(StructOf(UnitRows))), list |-> ListOf(StructOf(KeyValueRows)),
     bools |-> ListOf(Bool), set |-> SetOf(I32), map |-> MapOf(Binary, I32)]
NewerRow(field) == << Row(40, field, NewerKind[field]) >>
Extended(s, field) == With(s, field, NewerFields[field])
NewerColumn(meta, field, place) ==
    IF place = "records" THEN Extended(meta, field)
    ELSE IF "geospatial_statistics" \in DOMAIN meta
    THEN [meta EXCEPT !.geospatial_statistics.bbox = Extended(@, field)]
    ELSE meta
NewerFooter(meta, field, place) ==
    LET record(s) == IF place = "records" THEN Extended(s, field) ELSE s
    IN  record([f \in DOMAIN meta |->
          CASE f = "schema"     -> Each(meta[f], LAMBDA e : record(Compatible(e)))
            [] f = "row_groups" -> Each(meta[f], LAMBDA g :
                 [g EXCEPT !.columns = Each(@, LAMBDA c :
                    [c EXCEPT !.meta_data = NewerColumn(@, field, place)])])
            [] f = "key_value_metadata" -> Each(meta[f], record)
            [] OTHER            -> meta[f]])
NewerRows(field, place) ==
    LET more(rows) == IF place = "records" THEN rows \o NewerRow(field) ELSE rows
        box == IF place = "box" THEN BoxRows \o NewerRow(field) ELSE BoxRows
    IN  more(FileRows(more(ElementRows),
                      RowGroupRows(ColumnChunkRows(more(ColumnMetadataRows(box))), SortingRows),
                      more(KeyValueRows), StructOf(OrderRows)))

\* What can be written: the schema or the page index as far as it is built.
Ready ==
    CASE topic = "schema"   -> {Doc("footer", FooterOf(schema))}
      [] topic = "index"    -> {Doc("columns", ColumnIndexOf(column)),
                                Doc("offsets", OffsetIndexOf(offsets))}
      [] topic = "document" -> Documents
Written(d) ==
    CASE d.what = "footer"  -> WriteFooterOf(d.v)
      [] d.what = "header"  -> WritePageHeader(d.v)
      [] d.what = "columns" -> WriteColumnIndex(d.v)
      [] d.what = "offsets" -> WriteOffsetIndex(d.v)
      [] d.what = "old"     -> Fields(d.v, FooterRows) \o Stop   \* external: no LogicalType
      [] d.what = "later"   ->
           Fields(NewerFooter(d.v, d.newer, d.place), NewerRows(d.newer, d.place)) \o Stop
Parsed(d, bytes) ==
    CASE d.what \in {"footer", "old", "later"} -> ReadFooter(bytes)
      [] d.what = "header"                     -> ReadPageHeader(bytes)
      [] d.what = "columns"                    -> ReadColumnIndex(bytes)
      [] d.what = "offsets"                    -> ReadOffsetIndex(bytes)

-------------------------------------------------------------------------------
MetadataInit ==
    /\ SchemaInit /\ IndexInit
    /\ topic \in {"schema", "index", "document"} /\ (topic # "index" => kind = "bytes")
    /\ doc = Nothing /\ stream = <<>> /\ cut = FALSE /\ got = Nothing

Building == doc = Nothing
Build ==
    /\ Building
    /\ \/ topic = "schema" /\ SchemaNext /\ UNCHANGED indexVars
       \/ topic = "index" /\ IndexNext /\ UNCHANGED schema
    /\ UNCHANGED fileVars

WriteMetadata ==
    /\ Building
    /\ doc' \in Ready /\ stream' = Written(doc')
    /\ UNCHANGED <<schema, indexVars, topic, cut, got>>

\* The end of the bytes is lost, from any byte on.
LoseTail ==
    /\ topic = "document" /\ ~Building /\ got = Nothing /\ ~cut
    /\ \E n \in 0 .. Len(stream) - 1 : stream' = SubSeq(stream, 1, n)
    /\ cut' = TRUE
    /\ UNCHANGED <<schema, indexVars, topic, doc, got>>

ReadMetadata ==
    /\ ~Building /\ got = Nothing
    /\ got' = Parsed(doc, stream)
    /\ UNCHANGED <<schema, indexVars, topic, doc, stream, cut>>

MetadataNext == Build \/ WriteMetadata \/ LoseTail \/ ReadMetadata
MetadataSpec == MetadataInit /\ [][MetadataNext]_metadataVars

-------------------------------------------------------------------------------
(* Properties.                                                             *)

IsRead == got # Nothing /\ ~cut

\* An element is read with all it was written with.  An annotation of an old
\* file is read as one that would be written as the same annotation.  Of the
\* column orders the reader keeps the number.
Keeps(e, read) ==
    /\ \A f \in DOMAIN e \ {"converted_type"} : read[f] = e[f]
    /\ "converted_type" \in DOMAIN e /\ e.converted_type # "MAP_KEY_VALUE" =>
          ConvertedOf(read.logicalType) = e.converted_type
    /\ "logicalType" \in DOMAIN read <=> {"logicalType", "converted_type"} \cap DOMAIN e # {}
AllKept(written, read) ==
    Len(read) = Len(written) /\ \A i \in DOMAIN written : Keeps(written[i], read[i])
SameFooter(v, w) ==
    /\ DOMAIN v = DOMAIN w
    /\ \A f \in DOMAIN v :
          CASE f = "schema"        -> AllKept(v[f], w[f])
            [] f = "column_orders" -> Len(w[f]) = Len(v[f])
            [] OTHER               -> w[f] = v[f]

\* Statistics in a page's header are passed over, a page of version 2 is
\* compressed unless it says it is not.
SameHeader(v, w) ==
    /\ DOMAIN w = DOMAIN v
    /\ \A f \in DOMAIN v :
          CASE f = "data_page_header"    -> Without(w[f], "statistics") = Without(v[f], "statistics")
            [] f = "data_page_header_v2" -> w[f] = v[f] @@ [is_compressed |-> TRUE]
            [] OTHER                     -> w[f] = v[f]
Same(d, w) ==
    CASE d.what \in {"footer", "old", "later"} -> SameFooter(d.v, w)
      [] d.what = "header"                     -> SameHeader(d.v, w)
      [] d.what = "columns"                    -> ColumnIndexOf(w) = d.v
      [] d.what = "offsets"                    -> w = d.v.page_locations

\* Two kinds of fields that the reader does not know mislead it: a list of bools,
\* whose bytes thrift_skip leaves to be read as fields, and whatever but a double a
\* bounding box has besides its eight.
IsMisread(d) ==
    /\ d.what = "later"
    /\ d.newer = "bools" \/ (d.place = "box" /\ d.newer # "double")

\* What the structures of parquet_types.c and page_index.c are written as is
\* read as the same structures, annotations old and new included, and but for
\* those two a reader is not disturbed by fields that it does not know.
MetadataIsRead == IsRead /\ ~IsMisread(doc) => got.ok /\ Same(doc, got.v)

\* "Skip a value of the given type" (thrift_decode.h:252): of the records that can
\* have unknown fields skipped, a reader gets what it knows, whatever their type.
UnknownFieldsAreSkipped ==
    IsRead /\ doc.what = "later" /\ doc.place = "records" => got.ok /\ Same(doc, got.v)

\* Metadata that lost its end is refused, wherever it was cut; but not that of a
\* later writer, of which a value of a fixed length was cut that thrift_skip then
\* does not pass over, so that its bytes are read as fields.
IsLeftToBeRead(d) ==
    IsMisread(d) \/ (d.what = "later" /\ d.newer \in {"double", "uuid"})
CutMetadataIsRefused == cut /\ got # Nothing /\ ~IsLeftToBeRead(doc) => ~got.ok

\* A reader sees the columns that the writer's schema has, each at its element,
\* under its path and with its levels, which the two compute in different ways.
ColumnsAgree == SchemaRead(got.v.schema).leaves = schema.leaves
SchemaSurvives ==
    topic = "schema" /\ IsRead /\ DepthFirst(schema) /\ NoEmptyGroup(schema) => ColumnsAgree

\* The same in whatever order the calls were made: carquet.h hands out indexes
\* "as the parent_index when adding child elements" and names no order.
SchemaSurvivesAnyOrder ==
    topic = "schema" /\ IsRead /\ NoEmptyGroup(schema) => ColumnsAgree
===============================================================================
