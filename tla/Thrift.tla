-------------------------------- MODULE Thrift --------------------------------
(***************************************************************************)
(* The Thrift compact protocol of thrift/thrift_encode.c and               *)
(* thrift_decode.c, byte by byte, and the tables by which parquet_types.c  *)
(* walks through its structures.                                           *)
(*                                                                         *)
(* A structure is a function from the names of the fields it has to their  *)
(* values.  A kind says how a value is written and read.  Texts, doubles   *)
(* and UUIDs are the sequences of their bytes.                             *)
(***************************************************************************)
EXTENDS Integers, Sequences, SequencesExt

CONSTANTS MaxNesting,  \* THRIFT_MAX_NESTING, THRIFT_ENCODER_MAX_NESTING: 32
          MaxCount     \* longest list that is accepted (CARQUET_MAX_...)

ASSUME ThriftAssumption == MaxNesting \in Nat /\ MaxCount \in Nat

\* thrift_type_t: the codes of the types, from 1 on; 0 is STOP.
WireTypes == <<"TRUE", "FALSE", "BYTE", "I16", "I32", "I64", "DOUBLE", "BINARY", "LIST", "SET",
               "MAP", "STRUCT", "UUID">>
CodeOf(type) == CHOOSE n \in DOMAIN WireTypes : WireTypes[n] = type
TypeOf(code) ==
    IF code = 0 THEN "STOP" ELSE IF code \in DOMAIN WireTypes THEN WireTypes[code] ELSE "unknown"

\* Kinds.  "mark" is a field whose presence counts and not its content.  A list
\* that is too long is refused, or what it has too many is dropped.  A field with
\* an id that a structure does not know is skipped, or read as a double.
Num(type)       == [k |-> "int", type |-> type]
EnumOf(names)   == [k |-> "enum", type |-> "I32", names |-> names]   \* numbers from 0 on
Byte            == [k |-> "byte", type |-> "BYTE"]
Bool            == [k |-> "bool", type |-> "TRUE"]
Double          == [k |-> "bytes", type |-> "DOUBLE", size |-> 8]
Uuid            == [k |-> "bytes", type |-> "UUID", size |-> 16]
Binary          == [k |-> "binary", type |-> "BINARY"]
Mark            == [k |-> "mark", type |-> "STRUCT"]
ListOf(kind)    == [k |-> "list", type |-> "LIST", of |-> kind, keep |-> MaxCount, over |-> "refused"]
CappedListOf(kind, n) == [ListOf(kind) EXCEPT !.keep = n, !.over = "dropped"]
SetOf(kind)     == [ListOf(kind) EXCEPT !.type = "SET"]
StructOf(table) == [k |-> "struct", type |-> "STRUCT", of |-> table, others |-> "skipped"]
DoublesOf(table) == [StructOf(table) EXCEPT !.others = "doubles"]
MapOf(key, val) == [k |-> "map", type |-> "MAP", of |-> <<key, val>>]

\* Numbers, with and without sign.
RECURSIVE Varint(_)
Varint(n)  == IF n < 128 THEN <<n>> ELSE << (n % 128) + 128 >> \o Varint(n \div 128)
ZigZag(n)  == IF n >= 0 THEN 2 * n ELSE -2 * n - 1
UnZigZag(u) == IF u % 2 = 0 THEN u \div 2 ELSE -(u \div 2) - 1
Number(n)  == Varint(ZigZag(n))
Stop       == <<0>>
Halves(high, type) == << high * 16 + CodeOf(type) >>

-------------------------------------------------------------------------------
(* The encoder.  A writer's table is a sequence of rows, in the order they *)
(* are written; "when" is the condition of an optional field.              *)

Row(id, name, kind)       == [id |-> id, name |-> name, kind |-> kind, when |-> "there"]
RowIf(id, name, kind, when) == [Row(id, name, kind) EXCEPT !.when = when]
Holds(row, value) ==
    CASE row.when = "there"    -> TRUE
      [] row.when = "positive" -> value > 0
      [] row.when = "nonzero"  -> value # 0
      [] row.when = "nonempty" -> Len(value) > 0
RowsOf(s, rows) ==
    SelectSeq(rows, LAMBDA row : row.name \in DOMAIN s /\ Holds(row, s[row.name]))

\* thrift_write_field_header; a bool is part of it.
WireType(kind, value) == IF kind.k = "bool" /\ ~value THEN "FALSE" ELSE kind.type
FieldHeader(last, type, id) ==
    IF id - last \in 1 .. 15 THEN Halves(id - last, type) ELSE Halves(0, type) \o Number(id)

\* thrift_write_list_begin, thrift_write_set_begin
ListBeginAtMost(type, count) ==
    IF count <= 15 THEN Halves(count, type) ELSE Halves(15, type) \o Varint(count)
ListBegin(type, count) ==
    IF count < 15 THEN Halves(count, type) ELSE Halves(15, type) \o Varint(count)

RECURSIVE Coded(_, _)
Fields(s, rows) ==
    FoldLeft(LAMBDA acc, row :
               [last |-> row.id,
                out |-> acc.out \o FieldHeader(acc.last, WireType(row.kind, s[row.name]), row.id)
                        \o IF row.kind.k = "bool" THEN <<>> ELSE Coded(s[row.name], row.kind)],
             [last |-> 0, out |-> <<>>], RowsOf(s, rows)).out
Coded(value, kind) ==
    CASE kind.k = "int"    -> Number(value)
      [] kind.k = "enum"   -> Number((CHOOSE n \in DOMAIN kind.names : kind.names[n] = value) - 1)
      [] kind.k = "byte"   -> <<value>>
      [] kind.k = "bool"   -> IF value THEN <<1>> ELSE <<0>>   \* in a list
      [] kind.k = "bytes"  -> value
      [] kind.k = "binary" -> Varint(Len(value)) \o value
      [] kind.k = "mark"   -> Stop
      [] kind.k = "struct" -> Fields(value, kind.of) \o Stop
      [] kind.k = "list"   ->
           ListBegin(kind.of.type, Len(value))
           \o FlattenSeq([i \in DOMAIN value |-> Coded(value[i], kind.of)])
      [] kind.k = "map"    ->
           Varint(Len(value))
           \o IF value = <<>> THEN <<>>
              ELSE Halves(CodeOf(kind.of[1].type), kind.of[2].type)
                   \o FlattenSeq([i \in DOMAIN value |-> Coded(value[i][1], kind.of[1])
                                                        \o Coded(value[i][2], kind.of[2])])

-------------------------------------------------------------------------------
(* The decoder: where it is in the bytes, whether all is well (status), how *)
(* deep it is, and the bool that the last field's header held and nobody   *)
(* took (bool_pending).  A read gives the decoder after it and the value,  *)
(* or any value when it fails.  A reader's table maps ids to names and     *)
(* kinds.                                                                  *)

Column(name, kind) == [name |-> name, kind |-> kind]
NewDecoder(data) == [data |-> data, pos |-> 0, ok |-> TRUE, depth |-> 0, bool |-> "none"]
Failed(d) == [d EXCEPT !.ok = FALSE]
Left(d) == Len(d.data) - d.pos
Past(d, n) == [d EXCEPT !.pos = @ + n]

\* read_byte_raw, thrift_read_varint (ten bytes at most; the model's numbers have
\* four), thrift_read_zigzag, thrift_read_binary, thrift_read_double, _uuid
ReadByte(d) == IF Left(d) = 0 THEN [d |-> Failed(d), v |-> 0]
               ELSE [d |-> Past(d, 1), v |-> d.data[d.pos + 1]]
DigitsFrom(d, n) == SubSeq(d.data, d.pos + 1, d.pos + n)
VarintOf(digits) == FoldRight(LAMBDA digit, high : (digit % 128) + 128 * high, digits, 0)
ReadVarint(d) ==
    LET ends == {n \in 1 .. 10 : n <= Left(d) /\ d.data[d.pos + n] < 128}
        size == Min(ends)
    IN  IF ends = {} THEN [d |-> Failed(d), v |-> 0]
        ELSE [d |-> Past(d, size), v |-> VarintOf(DigitsFrom(d, Min({size, 4})))]
ReadNumber(d) == LET r == ReadVarint(d) IN [r EXCEPT !.v = UnZigZag(@)]
ReadBytes(d, n) == IF n > Left(d) THEN [d |-> Failed(d), v |-> <<>>]
                   ELSE [d |-> Past(d, n), v |-> SubSeq(d.data, d.pos + 1, d.pos + n)]
ReadBinary(d) == LET n == ReadVarint(d) IN ReadBytes(n.d, n.v)

\* thrift_read_bool
ReadBool(d) ==
    LET r == ReadByte(d)
    IN  IF d.bool # "none" THEN [d |-> [d EXCEPT !.bool = "none"], v |-> d.bool = "TRUE"]
        ELSE [r EXCEPT !.v = @ = 1]

\* thrift_read_field_begin; h is the header's byte.  FieldBeginOrEnd would take
\* the end for a stop.
Stopped(d) == [d |-> d, stop |-> TRUE]
HeaderRead(h, last) ==
    LET type  == TypeOf(h.v % 16)
        known == IF h.v \div 16 = 0 THEN ReadNumber(h.d)
                 ELSE [d |-> h.d, v |-> last + h.v \div 16]
        d     == IF type \in {"TRUE", "FALSE"} THEN [known.d EXCEPT !.bool = type] ELSE known.d
    IN  IF h.v = 0 THEN Stopped(h.d) ELSE [d |-> d, stop |-> FALSE, type |-> type, id |-> known.v]
FieldBeginOrEnd(d, last) ==
    IF ~d.ok \/ Left(d) = 0 THEN Stopped(d) ELSE HeaderRead(ReadByte(d), last)
FieldBegin(d, last) == IF ~d.ok THEN Stopped(d) ELSE HeaderRead(ReadByte(d), last)

\* thrift_read_list_begin, thrift_read_set_begin: no more elements than bytes left.
ListHeader(d) ==
    LET h == ReadByte(d)
        n == IF h.v \div 16 = 15 THEN ReadVarint(h.d) ELSE [h EXCEPT !.v = @ \div 16]
    IN  IF n.v > Left(n.d) THEN [d |-> Failed(n.d), type |-> TypeOf(h.v % 16), count |-> 0]
        ELSE [d |-> n.d, type |-> TypeOf(h.v % 16), count |-> n.v]

Deeper(d) == IF d.depth >= MaxNesting THEN Failed(d) ELSE [d EXCEPT !.depth = @ + 1]
Higher(d) == [d EXCEPT !.depth = IF @ > 0 THEN @ - 1 ELSE 0]

\* thrift_skip, by the type that was read.  A bool is taken to be part of its
\* header, also where it is the element of a list.  Jump is
\* carquet_buffer_reader_skip, of which nobody asks whether it succeeded: a
\* value that is not all there is not passed over, and no error.
Jump(d, n) == IF n <= Left(d) THEN Past(d, n) ELSE d
RECURSIVE Skip(_, _)
SkipTimes(d, types, n) ==
    FoldLeft(LAMBDA e, i : IF e.ok THEN Skip(e, types[((i - 1) % Len(types)) + 1]) ELSE e,
             d, [i \in 1 .. n * Len(types) |-> i])
RECURSIVE SkipFields(_, _)
SkipFields(d, last) ==
    LET f == FieldBegin(d, last)
    IN  IF f.stop THEN f.d ELSE SkipFields(Skip(f.d, f.type), f.id)
SkipMap(d) ==
    LET n == ReadVarint(d)
        t == ReadByte(n.d)
    IN  IF n.v = 0 THEN n.d
        ELSE IF n.v > Left(n.d) THEN Failed(n.d)
        ELSE SkipTimes(t.d, << TypeOf(t.v \div 16), TypeOf(t.v % 16) >>, n.v)
Skip(d, type) ==
    CASE ~d.ok -> d
      [] d.ok /\ type \in {"TRUE", "FALSE"} -> [d EXCEPT !.bool = "none"]
      [] d.ok /\ type = "BYTE"    -> Jump(d, 1)
      [] d.ok /\ type \in {"I16", "I32", "I64"} -> ReadVarint(d).d
      [] d.ok /\ type = "DOUBLE"  -> Jump(d, 8)
      [] d.ok /\ type = "UUID"    -> Jump(d, 16)
      [] d.ok /\ type = "BINARY"  -> ReadBinary(d).d
      [] d.ok /\ type \in {"LIST", "SET"} ->
           LET h == ListHeader(d) IN SkipTimes(h.d, <<h.type>>, h.count)
      [] d.ok /\ type = "MAP"     -> SkipMap(d)
      [] d.ok /\ type = "STRUCT"  -> Higher(SkipFields(Deeper(d), 0))
      [] d.ok /\ type \in {"STOP", "unknown"} -> Failed(d)

\* The loop over the fields of a structure: a known id is read as its kind says,
\* whatever its header says, an unknown one skipped as its header says.
RECURSIVE ReadKind(_, _, _)
RECURSIVE ReadFields(_, _, _, _)
Gained(s, name, r) ==
    [r EXCEPT !.v = [x \in DOMAIN s \cup {name} |-> IF x = name THEN r.v ELSE s[x]]]
PassedOver(f, kind) ==
    IF kind.others = "doubles" THEN ReadBytes(f.d, Double.size).d ELSE Skip(f.d, f.type)
FieldRead(f, kind, s) ==
    IF f.id \in DOMAIN kind.of
    THEN Gained(s, kind.of[f.id].name, ReadKind(f.d, kind.of[f.id].kind, f.type))
    ELSE [d |-> PassedOver(f, kind), v |-> s]
FieldsBehind(r, kind, last) == ReadFields(r.d, kind, last, r.v)
FieldsFrom(f, kind, s) ==
    IF f.stop THEN [d |-> f.d, v |-> s] ELSE FieldsBehind(FieldRead(f, kind, s), kind, f.id)
ReadFields(d, kind, last, s) == FieldsFrom(FieldBegin(d, last), kind, s)
NoFields == [x \in {} |-> 0]
ReadStruct(d, kind) == [ReadFields(Deeper(d), kind, 0, NoFields) EXCEPT !.d = Higher(@)]
WithItem(values, keep, r) ==
    [r EXCEPT !.v = IF Len(values) < keep THEN Append(values, @) ELSE values]
ItemsFrom(h, kind) ==
    IF h.count > kind.keep /\ kind.over = "refused" THEN [d |-> Failed(h.d), v |-> <<>>]
    ELSE FoldLeft(LAMBDA acc, i : WithItem(acc.v, kind.keep, ReadKind(acc.d, kind.of, h.type)),
                  [d |-> h.d, v |-> <<>>], [i \in 1 .. h.count |-> i])
ReadList(d, kind) == ItemsFrom(ListHeader(d), kind)
EnumRead(d, names) ==
    LET r == ReadNumber(d)
    IN  [r EXCEPT !.v = IF @ + 1 \in DOMAIN names THEN names[@ + 1] ELSE "unknown"]
ReadKind(d, kind, type) ==
    CASE kind.k = "int"    -> ReadNumber(d)
      [] kind.k = "enum"   -> EnumRead(d, kind.names)
      [] kind.k = "byte"   -> ReadByte(d)
      [] kind.k = "bool"   -> ReadBool(d)
      [] kind.k = "bytes"  -> ReadBytes(d, kind.size)
      [] kind.k = "binary" -> ReadBinary(d)
      [] kind.k = "mark"   -> [d |-> Skip(d, type), v |-> TRUE]
      [] kind.k = "struct" -> ReadStruct(d, kind)
      [] kind.k = "list"   -> ReadList(d, kind)

\* A structure that begins with the first byte.
ReadAll(bytes, table) == ReadKind(NewDecoder(bytes), StructOf(table), "STRUCT")
===============================================================================
