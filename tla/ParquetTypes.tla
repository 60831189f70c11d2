----------------------------- MODULE ParquetTypes -----------------------------
(***************************************************************************)
(* The structures of thrift/parquet_types.c: what is written of each, what *)
(* is read, and how the old annotation of a column (ConvertedType) and the *)
(* new one (LogicalType) are derived from each other.                      *)
(*                                                                         *)
(* A structure has the fields it has: what C keeps behind a has_ flag is   *)
(* simply absent.  A logical type is a union, a structure of one field.    *)
(***************************************************************************)
EXTENDS Thrift

CONSTANTS MaxTypes   \* CARQUET_GEO_MAX_TYPES: 64

ASSUME ParquetAssumption == MaxTypes \in Nat

I32 == Num("I32")
I64 == Num("I64")

\* The enumerations of include/carquet/types.h, in the order of their numbers.
PhysicalType == EnumOf(<<"BOOLEAN", "INT32", "INT64", "INT96", "FLOAT", "DOUBLE", "BYTE_ARRAY",
                         "FIXED">>)
ConvertedType == EnumOf(<<"UTF8", "MAP", "MAP_KEY_VALUE", "LIST", "ENUM", "DECIMAL", "DATE",
                          "TIME_MILLIS", "TIME_MICROS", "TIMESTAMP_MILLIS", "TIMESTAMP_MICROS",
                          "UINT_8", "UINT_16", "UINT_32", "UINT_64", "INT_8", "INT_16", "INT_32",
                          "INT_64", "JSON", "BSON", "INTERVAL">>)
Repetition == EnumOf(<<"REQUIRED", "OPTIONAL", "REPEATED">>)
Encoding == EnumOf(<<"PLAIN", "unused", "PLAIN_DICTIONARY", "RLE", "BIT_PACKED", "DELTA",
                     "DELTA_LENGTH", "DELTA_STRINGS", "RLE_DICTIONARY", "SPLIT">>)
Compression == EnumOf(<<"UNCOMPRESSED", "SNAPPY", "GZIP", "LZO", "BROTLI", "LZ4", "ZSTD",
                        "LZ4_RAW">>)
PageType == EnumOf(<<"DATA", "INDEX", "DICTIONARY", "DATA_V2">>)

\* A reader's table for fields that are read as they are written.
TableOf(rows) ==
    [id \in {rows[i].id : i \in DOMAIN rows} |->
       LET row == CHOOSE r \in Range(rows) : r.id = id IN Column(row.name, row.kind)]

-------------------------------------------------------------------------------
(* Statistics: bounds are written when they are not empty.                 *)

StatisticsRows ==
    << RowIf(1, "max", Binary, "nonempty"), RowIf(2, "min", Binary, "nonempty"),
       Row(3, "null_count", I64), Row(4, "distinct_count", I64),
       RowIf(5, "max_value", Binary, "nonempty"), RowIf(6, "min_value", Binary, "nonempty"),
       Row(7, "is_max_value_exact", Bool), Row(8, "is_min_value_exact", Bool) >>
StatisticsTable == TableOf(StatisticsRows)

-------------------------------------------------------------------------------
(* Logical types.                                                          *)

UnitRows == << Row(1, "MILLIS", Mark), Row(2, "MICROS", Mark), Row(3, "NANOS", Mark) >>
TimeRows(unit) == << Row(1, "is_adjusted_to_utc", Bool), Row(2, "unit", unit) >>
DecimalRows == << Row(1, "scale", I32), Row(2, "precision", I32) >>
IntegerRows == << Row(1, "bit_width", Byte), Row(2, "is_signed", Bool) >>
VariantRows == << Row(1, "specification_version", Byte) >>
GeometryRows == << RowIf(1, "crs", Binary, "nonempty") >>
GeographyRows == GeometryRows \o << Row(2, "algorithm", I32) >>

\* write_logical_type; there is nothing to write for INTERVAL.
LogicalRows ==
    << Row(1, "STRING", Mark), Row(2, "MAP", Mark), Row(3, "LIST", Mark), Row(4, "ENUM", Mark),
       Row(5, "DECIMAL", StructOf(DecimalRows)), Row(6, "DATE", Mark),
       Row(7, "TIME", StructOf(TimeRows(StructOf(UnitRows)))),
       Row(8, "TIMESTAMP", StructOf(TimeRows(StructOf(UnitRows)))),
       Row(10, "INTEGER", StructOf(IntegerRows)), Row(11, "NULL", Mark), Row(12, "JSON", Mark),
       Row(13, "BSON", Mark), Row(14, "UUID", Mark), Row(15, "FLOAT16", Mark),
       Row(16, "VARIANT", StructOf(VariantRows)), Row(17, "GEOMETRY", StructOf(GeometryRows)),
       Row(18, "GEOGRAPHY", StructOf(GeographyRows)) >>

\* parse_logical_type
TimeTable == TableOf(TimeRows(StructOf(TableOf(UnitRows))))
LogicalTable ==
    LET nested == [DECIMAL |-> TableOf(DecimalRows), TIME |-> TimeTable, TIMESTAMP |-> TimeTable,
                   INTEGER |-> TableOf(IntegerRows), VARIANT |-> TableOf(VariantRows),
                   GEOMETRY |-> TableOf(GeometryRows), GEOGRAPHY |-> TableOf(GeographyRows)]
        plain == TableOf(LogicalRows)
    IN  [id \in DOMAIN plain |->
           IF plain[id].name \in DOMAIN nested
           THEN Column(plain[id].name, StructOf(nested[plain[id].name]))
           ELSE plain[id]]

TypeName(lt) == CHOOSE name \in DOMAIN lt : TRUE
Unit(lt) == TypeName(lt[TypeName(lt)].unit)
Time(name, unit, utc) ==
    name :> [is_adjusted_to_utc |-> utc, unit |-> (unit :> TRUE)]
Integer(width, signed) == [INTEGER |-> [bit_width |-> width, is_signed |-> signed]]

\* converted_type_from_logical_type: the old name of a type, "none" where it
\* has none.
SameName == [STRING |-> "UTF8", MAP |-> "MAP", LIST |-> "LIST", ENUM |-> "ENUM",
             DECIMAL |-> "DECIMAL", DATE |-> "DATE", JSON |-> "JSON", BSON |-> "BSON",
             INTERVAL |-> "INTERVAL"]
OldTimes == << <<"TIME", "MILLIS", "TIME_MILLIS">>, <<"TIME", "MICROS", "TIME_MICROS">>,
               <<"TIMESTAMP", "MILLIS", "TIMESTAMP_MILLIS">>,
               <<"TIMESTAMP", "MICROS", "TIMESTAMP_MICROS">> >>
OldIntegers == << <<8, TRUE, "INT_8">>, <<16, TRUE, "INT_16">>, <<32, TRUE, "INT_32">>,
                  <<64, TRUE, "INT_64">>, <<8, FALSE, "UINT_8">>, <<16, FALSE, "UINT_16">>,
                  <<32, FALSE, "UINT_32">>, <<64, FALSE, "UINT_64">> >>
Listed(list, a, b) ==
    LET found == SelectSeq(list, LAMBDA x : x[1] = a /\ x[2] = b)
    IN  IF found = <<>> THEN "none" ELSE found[1][3]
ConvertedOf(lt) ==
    CASE TypeName(lt) \in DOMAIN SameName -> SameName[TypeName(lt)]
      [] TypeName(lt) \in {"TIME", "TIMESTAMP"} -> Listed(OldTimes, TypeName(lt), Unit(lt))
      [] TypeName(lt) = "INTEGER" ->
           Listed(OldIntegers, lt.INTEGER.bit_width, lt.INTEGER.is_signed)
      [] TypeName(lt) \in {"NULL", "UUID", "FLOAT16", "VARIANT", "GEOMETRY", "GEOGRAPHY"} -> "none"

\* logical_type_from_converted_type: what an old file says; times are in UTC.
LogicalOf(converted, scale, precision) ==
    LET time == SelectSeq(OldTimes, LAMBDA x : x[3] = converted)
        int  == SelectSeq(OldIntegers, LAMBDA x : x[3] = converted)
    IN  CASE converted = "DECIMAL" -> [DECIMAL |-> [scale |-> scale, precision |-> precision]]
          [] converted = "MAP_KEY_VALUE" -> [MAP |-> TRUE]
          [] time # <<>> -> Time(time[1][1], time[1][2], TRUE)
          [] int # <<>>  -> Integer(int[1][1], int[1][2])
          [] converted \in Range(SameName) \ {"DECIMAL"} ->
               (CHOOSE name \in DOMAIN SameName : SameName[name] = converted) :> TRUE

-------------------------------------------------------------------------------
(* Schema elements.                                                        *)

\* write_schema_element, of the element with both annotations.
ElementRows ==
    << Row(1, "type", PhysicalType), RowIf(2, "type_length", I32, "positive"),
       Row(3, "repetition_type", Repetition), Row(4, "name", Binary),
       RowIf(5, "num_children", I32, "positive"), Row(6, "converted_type", ConvertedType),
       RowIf(7, "scale", I32, "nonzero"), RowIf(8, "precision", I32, "nonzero"),
       Row(9, "field_id", I32), Row(10, "logicalType", StructOf(LogicalRows)) >>
ElementTable ==
    [TableOf(ElementRows) EXCEPT ![10] = Column("logicalType", StructOf(LogicalTable))]
NoNumbers == [type_length |-> 0, num_children |-> 0, scale |-> 0, precision |-> 0]
With(s, name, value) == (name :> value) @@ s
Without(s, name) == [x \in DOMAIN s \ {name} |-> s[x]]

\* schema_element_with_logical_compat
Compatible(e) ==
    LET lt == e.logicalType
        old == ConvertedOf(lt)
        numbered == IF TypeName(lt) = "DECIMAL" THEN lt.DECIMAL @@ e ELSE e
        both == IF old = "none" THEN numbered ELSE With(numbered, "converted_type", old)
    IN  IF "logicalType" \notin DOMAIN e THEN e
        ELSE IF TypeName(lt) = "INTERVAL" THEN Without(both, "logicalType")
        ELSE both

\* The end of parse_schema_element.
Annotated(e) ==
    LET f == e @@ NoNumbers
    IN  IF "logicalType" \notin DOMAIN f /\ "converted_type" \in DOMAIN f
        THEN With(f, "logicalType", LogicalOf(f.converted_type, f.scale, f.precision))
        ELSE f

-------------------------------------------------------------------------------
(* Row groups.                                                             *)

\* A bounding box is there when it is valid, its z and m when it has them; its
\* reader takes a double from every field, whatever the id.
BoxRows == << Row(1, "xmin", Double), Row(2, "xmax", Double), Row(3, "ymin", Double),
              Row(4, "ymax", Double), Row(5, "zmin", Double), Row(6, "zmax", Double),
              Row(7, "mmin", Double), Row(8, "mmax", Double) >>
GeospatialRows(box) == << Row(1, "bbox", StructOf(box)), Row(2, "types", ListOf(I32)) >>
GeospatialTable == (1 :> Column("bbox", DoublesOf(TableOf(BoxRows))))
                   @@ (2 :> Column("types", CappedListOf(I32, MaxTypes)))
KeyValueRows == << Row(1, "key", Binary), Row(2, "value", Binary) >>
KeyValues == ListOf(StructOf(TableOf(KeyValueRows)))
EncodingStatsRows == << Row(1, "page_type", PageType), Row(2, "encoding", Encoding),
                        Row(3, "count", I32) >>

\* write_column_metadata and parse_column_metadata, which reads two fields more.
ColumnMetadataRows(box) ==
    << Row(1, "type", PhysicalType), Row(2, "encodings", ListOf(Encoding)),
       Row(3, "path_in_schema", ListOf(Binary)), Row(4, "codec", Compression),
       Row(5, "num_values", I64),
       Row(6, "total_uncompressed_size", I64), Row(7, "total_compressed_size", I64),
       Row(9, "data_page_offset", I64), Row(10, "index_page_offset", I64),
       Row(11, "dictionary_page_offset", I64), Row(12, "statistics", StructOf(StatisticsRows)),
       Row(14, "bloom_filter_offset", I64), Row(15, "bloom_filter_length", I32),
       Row(17, "geospatial_statistics", StructOf(GeospatialRows(box))) >>
ColumnMetadataTable ==
    (8 :> Column("key_value_metadata", KeyValues))
    @@ (12 :> Column("statistics", StructOf(StatisticsTable)))
    @@ (13 :> Column("encoding_stats", ListOf(StructOf(TableOf(EncodingStatsRows)))))
    @@ (17 :> Column("geospatial_statistics", StructOf(GeospatialTable)))
    @@ TableOf(ColumnMetadataRows(BoxRows))

\* write_column_chunk, parse_column_chunk
ColumnChunkRows(meta) ==
    << Row(1, "file_path", Binary), Row(2, "file_offset", I64), Row(3, "meta_data", StructOf(meta)),
       Row(4, "offset_index_offset", I64), Row(5, "offset_index_length", I32),
       Row(6, "column_index_offset", I64), Row(7, "column_index_length", I32) >>

\* write_row_group, parse_row_group
SortingRows == << Row(1, "column_idx", I32), Row(2, "descending", Bool),
                  Row(3, "nulls_first", Bool) >>
RowGroupRows(chunk, sorting) ==
    << Row(1, "columns", ListOf(StructOf(chunk))), Row(2, "total_byte_size", I64),
       Row(3, "num_rows", I64), RowIf(4, "sorting_columns", ListOf(StructOf(sorting)), "nonempty"),
       Row(5, "file_offset", I64), Row(6, "total_compressed_size", I64),
       Row(7, "ordinal", Num("I16")) >>

-------------------------------------------------------------------------------
(* The footer.                                                             *)

OrderRows == << Row(1, "TYPE_ORDER", Mark) >>
FileRows(element, group, pair, order) ==
    << Row(1, "version", I32), Row(2, "schema", ListOf(StructOf(element))),
       Row(3, "num_rows", I64), Row(4, "row_groups", ListOf(StructOf(group))),
       RowIf(5, "key_value_metadata", ListOf(StructOf(pair)), "nonempty"),
       Row(6, "created_by", Binary), RowIf(7, "column_orders", ListOf(order), "nonempty") >>

\* parquet_write_file_metadata, parquet_parse_file_metadata
FooterRows ==
    FileRows(ElementRows, RowGroupRows(ColumnChunkRows(ColumnMetadataRows(BoxRows)), SortingRows),
             KeyValueRows, StructOf(OrderRows))
FooterTable ==
    TableOf(FileRows(ElementTable,
                     TableOf(RowGroupRows(TableOf(ColumnChunkRows(ColumnMetadataTable)),
                                          TableOf(SortingRows))),
                     TableOf(KeyValueRows), Mark))

WriteFooterOf(meta) ==
    Fields([meta EXCEPT !.schema = [i \in DOMAIN @ |-> Compatible(@[i])]], FooterRows) \o Stop
AnnotatedFooter(r) ==
    IF r.d.ok /\ "schema" \in DOMAIN r.v
    THEN [ok |-> TRUE, v |-> [r.v EXCEPT !.schema = [i \in DOMAIN @ |-> Annotated(@[i])]]]
    ELSE [ok |-> r.d.ok, v |-> r.v]
ReadFooter(stream) == AnnotatedFooter(ReadAll(stream, FooterTable))

-------------------------------------------------------------------------------
(* Page headers: the type selects which of the three follows.              *)

DataPageRows == << Row(1, "num_values", I32), Row(2, "encoding", Encoding),
                   Row(3, "definition_level_encoding", Encoding),
                   Row(4, "repetition_level_encoding", Encoding),
                   Row(5, "statistics", StructOf(StatisticsRows)) >>
DictionaryPageRows == << Row(1, "num_values", I32), Row(2, "encoding", Encoding),
                         Row(3, "is_sorted", Bool) >>
DataPageV2Rows == << Row(1, "num_values", I32), Row(2, "num_nulls", I32), Row(3, "num_rows", I32),
                     Row(4, "encoding", Encoding), Row(5, "definition_levels_byte_length", I32),
                     Row(6, "repetition_levels_byte_length", I32), Row(7, "is_compressed", Bool) >>
PageHeaderRows(data, dictionary, v2) ==
    << Row(1, "type", PageType), Row(2, "uncompressed_page_size", I32),
       Row(3, "compressed_page_size", I32), Row(4, "crc", I32),
       Row(5, "data_page_header", StructOf(data)),
       Row(7, "dictionary_page_header", StructOf(dictionary)),
       Row(8, "data_page_header_v2", StructOf(v2)) >>

\* parquet_parse_page_header passes over the statistics: a mark.
PageHeaderTable ==
    TableOf(PageHeaderRows([TableOf(DataPageRows) EXCEPT ![5] = Column("statistics", Mark)],
                           TableOf(DictionaryPageRows),
                           TableOf(DataPageV2Rows) @@ (8 :> Column("statistics", Mark))))
WritePageHeader(header) ==
    Fields(header, PageHeaderRows(DataPageRows, DictionaryPageRows, DataPageV2Rows)) \o Stop
CompressedUnlessSaid(r) ==
    LET v2 == "data_page_header_v2"
    IN  [ok |-> r.d.ok,
         v |-> IF v2 \in DOMAIN r.v
               THEN With(r.v, v2, r.v[v2] @@ [is_compressed |-> TRUE]) ELSE r.v]
ReadPageHeader(stream) == CompressedUnlessSaid(ReadAll(stream, PageHeaderTable))
===============================================================================
