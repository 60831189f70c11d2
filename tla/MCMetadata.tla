------------------------------- MODULE MCMetadata -------------------------------
(* Metadata for TLC: one of MetadataFile's machine, BloomFilter's alone and  *)
(* FileReader's.  Words of three bits; Thrift as it is, with its bytes.      *)
EXTENDS MetadataFile, BloomFilter, FileReader

Typed(type, length, logical) == [type |-> type, length |-> length, logical |-> logical]
Strings(logical) == Typed("BYTE_ARRAY", 0, logical)
Decimal(precision, scale) == [DECIMAL |-> [precision |-> precision, scale |-> scale]]
\* One type that is always accepted, one that never is.
FewTypes == {Plainly("INT32"), Strings([DATE |-> TRUE])}
ManyTypes ==
    {Plainly(t) : t \in {"BOOLEAN", "INT96", "FLOAT", "DOUBLE"}}
    \cup {Strings(name :> TRUE) : name \in {"STRING", "ENUM", "JSON", "BSON", "NULL", "LIST"}}
    \cup {Strings([GEOMETRY |-> x]) : x \in {None, [crs |-> <<1>>]}}
    \cup {Strings([GEOGRAPHY |-> [crs |-> <<1>>, algorithm |-> a]]) : a \in {0, 2}}
    \cup {Typed(t, 0, [DATE |-> TRUE]) : t \in {"INT32", "INT64"}}
    \cup {Typed(t, 0, Time(name, unit, utc)) : t \in {"INT32", "INT64"}, utc \in BOOLEAN,
             name \in {"TIME", "TIMESTAMP"}, unit \in {"MILLIS", "MICROS", "NANOS"}}
    \cup {Typed(t, 0, Integer(w, s)) : t \in {"INT32", "INT64"}, w \in {8, 16, 32, 64}, s \in BOOLEAN}
    \cup {Typed(t, n, Decimal(p, s)) : t \in {"INT32", "INT64", "BYTE_ARRAY", "FIXED", "FLOAT"},
             n \in {1, 4}, p \in {0, 2, 9, 10, 19}, s \in {0, 2}}
    \cup {Typed("FIXED", n, name :> TRUE) : n \in {2, 12, 16}, name \in {"UUID", "FLOAT16", "INTERVAL"}}

Footers == {FooterOf(ColumnAdded(EmptySchema, c, "OPTIONAL", 1).s) : c \in ManyTypes}
Converted == Range(SameName) \cup {"MAP_KEY_VALUE"} \cup {OldTimes[i][3] : i \in DOMAIN OldTimes}
             \cup {OldIntegers[i][3] : i \in DOMAIN OldIntegers}
OldElement(converted) == [name |-> <<2>>, type |-> "BYTE_ARRAY", repetition_type |-> "REQUIRED",
                          type_length |-> 0, num_children |-> 0, scale |-> 1, precision |-> 3,
                          field_id |-> -1, converted_type |-> converted]
OldFooters == {FooterOf([elements |-> <<EmptySchema.elements[1], OldElement(x)>>]) : x \in Converted}

SomeBounds == [max |-> <<1>>, min |-> <<0>>, null_count |-> -2, distinct_count |-> 3,
               max_value |-> <<1>>, min_value |-> <<0>>, is_max_value_exact |-> FALSE,
               is_min_value_exact |-> TRUE]
ADouble == [i \in 1 .. 8 |-> IF i > 6 THEN i ELSE 0]   \* 2.5, say: its low bytes are zero
SomeBox == [f \in {BoxRows[i].name : i \in DOMAIN BoxRows} |-> ADouble]
SomeColumn == [type |-> "INT32", encodings |-> <<"PLAIN", "RLE", "DELTA", "SPLIT">>,
               path_in_schema |-> << <<2>>, <<3>> >>, codec |-> "SNAPPY", num_values |-> 3,
               total_uncompressed_size |-> 5, total_compressed_size |-> 4, data_page_offset |-> 4]
FullColumn == [index_page_offset |-> 0, dictionary_page_offset |-> 1, statistics |-> SomeBounds,
               bloom_filter_offset |-> 3, bloom_filter_length |-> 32,
               geospatial_statistics |-> [bbox |-> SomeBox, types |-> [i \in 1 .. 15 |-> i]]] @@ SomeColumn
Chunk(meta) == [file_offset |-> 4, meta_data |-> meta]
FullChunk == [offset_index_offset |-> 1, offset_index_length |-> 2, column_index_offset |-> 3,
              column_index_length |-> 4, file_path |-> <<7, 200, 7>>] @@ Chunk(FullColumn)
Group(chunks, n) == [columns |-> chunks, total_byte_size |-> 9, num_rows |-> n, file_offset |-> 4,
                     total_compressed_size |-> 8, ordinal |-> n]
Sorted(group) == With(group, "sorting_columns", << [column_idx |-> 0, descending |-> TRUE,
                                                    nulls_first |-> FALSE] >>)
FullFooter ==
    [version |-> 2, schema |-> EmptySchema.elements, num_rows |-> 1,
     row_groups |-> <<Group(<<Chunk(SomeColumn), FullChunk>>, 1), Sorted(Group(<<>>, 0))>>,
     key_value_metadata |-> << [key |-> <<5>>, value |-> <<>>], [key |-> <<6>>] >>,
     created_by |-> <<67, 113>>, column_orders |-> << [TYPE_ORDER |-> TRUE], [TYPE_ORDER |-> TRUE] >>]

Page(type) == [type |-> type, uncompressed_page_size |-> 5, compressed_page_size |-> 4]
DataPage == [num_values |-> 3, encoding |-> "PLAIN", definition_level_encoding |-> "RLE",
             repetition_level_encoding |-> "RLE"]
DataPageV2 == [num_values |-> 3, num_nulls |-> 1, num_rows |-> 2, encoding |-> "PLAIN",
               definition_levels_byte_length |-> 1, repetition_levels_byte_length |-> 0]
Headers ==
    {With(Page("DATA"), "data_page_header", DataPage),
     [crc |-> -7, data_page_header |-> With(DataPage, "statistics", SomeBounds)] @@ Page("DATA"),
     With(Page("DATA_V2"), "data_page_header_v2", DataPageV2),
     With(Page("DATA_V2"), "data_page_header_v2", With(DataPageV2, "is_compressed", FALSE))}
    \cup {With(Page("DICTIONARY"), "dictionary_page_header",
               [num_values |-> 2, encoding |-> "PLAIN", is_sorted |-> b]) : b \in BOOLEAN}

NewerOnes == [i16 |-> -1, i32 |-> 70, i64 |-> 9000, flag |-> TRUE, byte |-> 0,
              double |-> ADouble, uuid |-> [i \in 1 .. 16 |-> IF i < 9 THEN 0 ELSE i],
              text |-> <<3, 0>>,
              struct |-> [is_adjusted_to_utc |-> TRUE, unit |-> [NANOS |-> TRUE]],
              list |-> << [key |-> <<5>>], [key |-> <<>>], [value |-> <<6>>] >>,
              bools |-> <<TRUE, FALSE, TRUE>>, set |-> <<2, 300>>,
              map |-> << <<<<5>>, 1>>, <<<<6, 6>>, 200>> >>]
PlainFooter == FooterOf(ColumnAdded(EmptySchema, Plainly("INT32"), "OPTIONAL", 1).s)
SomeDocuments ==
    {Doc("footer", v) : v \in Footers \cup {FullFooter}}
    \cup {Doc("old", v) : v \in OldFooters} \cup {Doc("header", v) : v \in Headers}
    \cup {Later(v, f, "records") : v \in {PlainFooter, FullFooter}, f \in DOMAIN NewerOnes}
    \cup {Later(FullFooter, f, "box") : f \in DOMAIN NewerOnes}

SomeSalt == <<3, 1>>
\* Floats of three bits: a fraction, an exponent and a sign, in this order.
SomeNumbers == (<<0, 0, 0>> :> 0) @@ (<<1, 0, 0>> :> 1) @@ (<<0, 1, 0>> :> 2)
               @@ (<<1, 0, 1>> :> -1) @@ (<<0, 1, 1>> :> -2) @@ (<<1, 1, 1>> :> -3)
Words == {<<w>> : w \in {0, 1, 3, 4, 6, 7}}   \* the ends of both halves
Indexed ==
    [k \in Kinds |->
       IF k = "floats" THEN DOMAIN SomeNumbers
       ELSE IF k = "bytes" THEN {<<>>, <<0>>, <<0, 1, 0>>, <<0, 1, 1>>, <<1>>, <<1, 0, 1>>,
                            <<1, 1>>, <<1, 1, 1>>}
       ELSE Words]

\* Files with no group, with one chunk, and with pages that look like the end of
\* a file, headers of one to five cells and a dictionary the metadata leads past.
Cell(x) == <<"data", x>>
ALength(x) == <<"size", x>>
SomeCells == {Cell(x) : x \in 1 .. 9} \cup {ALength(3), ALength(40), MagicCell}
PageOf(head, data) == [head |-> head, data |-> data]
ChunkOf(dictionary, off, data) == [dictionary |-> dictionary, off |-> off, pages |-> data]
SomeLayouts ==
    {<<>>, << <<ChunkOf(<<>>, 0, <<PageOf(1, <<Cell(1)>>)>>)>> >>,
     << << ChunkOf(<<PageOf(2, <<Cell(1)>>)>>, 2,
                   <<PageOf(3, <<Cell(2), Cell(3)>>), PageOf(5, <<ALength(3), MagicCell>>)>>),
           ChunkOf(<<>>, 0, <<PageOf(1, <<ALength(40), MagicCell>>), PageOf(2, <<>>),
                              PageOf(1, <<Cell(4)>>)>>) >>,
        << ChunkOf(<<>>, 0, <<PageOf(4, <<Cell(5), Cell(6)>>)>>),
           ChunkOf(<<PageOf(1, <<MagicCell>>)>>, 0, <<PageOf(1, <<Cell(7), Cell(8), Cell(9)>>)>>) >> >>}

\* One machine runs: the two others stay as they begin.
IdleReader == layout = <<>> /\ image = <<>> /\ reader = Closed /\ cursor = NoColumn /\ calls = 0
IdleMetadata ==
    /\ SchemaInit /\ IndexInit /\ kind = "bytes"
    /\ topic \in {"filters", "file"}
    /\ doc = Nothing /\ stream = <<>> /\ cut = FALSE /\ got = Nothing
OneInit ==
    \/ MetadataInit /\ BloomInit /\ IdleReader
    \/ IdleMetadata /\ BloomInit /\ (IF topic = "file" THEN ReaderInit ELSE IdleReader)
OneNext ==
    \/ topic = "filters" /\ BloomNext /\ UNCHANGED <<metadataVars, readerVars>>
    \/ topic = "file" /\ ReaderNext /\ UNCHANGED <<metadataVars, bloomVars>>
    \/ topic \notin {"filters", "file"} /\ MetadataNext /\ UNCHANGED <<bloomVars, readerVars>>
OneSpec == OneInit /\ [][OneNext]_<<metadataVars, bloomVars, readerVars>>
===============================================================================
