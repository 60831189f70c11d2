----------------------------- MODULE SchemaBuilder -----------------------------
(***************************************************************************)
(* The schema: built by calls (metadata/schema.c), kept as a flat array of *)
(* elements in the order of the calls, and rebuilt by a reader from that   *)
(* array alone (build_schema in reader/file_reader.c).                     *)
(*                                                                         *)
(* Element 1 is the root.  A leaf is a column: where its element is, its   *)
(* maximum levels, and the way to it from the root.                        *)
(***************************************************************************)
EXTENDS ParquetTypes, FiniteSets

CONSTANTS MaxElements,       \* bound: elements of a schema
          ColumnTypes        \* the types columns are tried with: [type, length, logical]

VARIABLE schema              \* [elements, parents, leaves]

Repetitions == {"REQUIRED", "OPTIONAL", "REPEATED"}
None == [x \in {} |-> 0]     \* no logical type
Plainly(type) == [type |-> type, length |-> 0, logical |-> None]

-------------------------------------------------------------------------------
(* validate_column_logical_type                                            *)

DecimalDigits(bytes) == ((8 * bytes - 1) * 30103) \div 100000
TypeOfTime == [MILLIS |-> "INT32", MICROS |-> "INT64", NANOS |-> "INT64"]
WidthOfFixed == [UUID |-> 16, FLOAT16 |-> 2, INTERVAL |-> 12]
DigitsFit(c, precision) ==
    CASE c.type = "INT32" -> precision <= 9
      [] c.type = "INT64" -> precision <= 18
      [] c.type = "BYTE_ARRAY" -> TRUE
      [] c.type = "FIXED" -> c.length > 0 /\ precision <= DecimalDigits(c.length)
      [] OTHER -> FALSE
ValidType(c) ==
    LET lt == c.logical
        name == TypeName(lt)
    IN  lt # None =>
        CASE name \in {"STRING", "ENUM", "JSON", "BSON", "GEOMETRY", "GEOGRAPHY"} ->
               c.type = "BYTE_ARRAY"
          [] name = "DATE" -> c.type = "INT32"
          [] name = "TIME" -> c.type = TypeOfTime[Unit(lt)]
          [] name = "TIMESTAMP" -> c.type = "INT64"
          [] name = "INTEGER" ->
               \/ lt.INTEGER.bit_width \in {8, 16, 32} /\ c.type = "INT32"
               \/ lt.INTEGER.bit_width = 64 /\ c.type = "INT64"
          [] name = "DECIMAL" ->
               /\ lt.DECIMAL.precision > 0 /\ lt.DECIMAL.scale \in 0 .. lt.DECIMAL.precision
               /\ DigitsFit(c, lt.DECIMAL.precision)
          [] name \in DOMAIN WidthOfFixed -> c.type = "FIXED" /\ c.length = WidthOfFixed[name]
          [] name = "NULL" -> TRUE
          [] name \in {"MAP", "LIST", "VARIANT"} -> FALSE

-------------------------------------------------------------------------------
(* The builder.  A call gives back whether it succeeded and the schema it  *)
(* leaves; elements are named by the order in which they were added.       *)

Element(s, repetition) ==
    [name |-> << Len(s.elements) + 1 >>, repetition_type |-> repetition, num_children |-> 0]
EmptySchema ==
    [elements |-> << [name |-> <<1>>, num_children |-> 0] >>, parents |-> <<0>>, leaves |-> <<>>]

CanHold(s, parent) ==
    parent \in DOMAIN s.elements /\ (parent = 1 \/ "type" \notin DOMAIN s.elements[parent])
Added(s, element, parent) ==
    [s EXCEPT !.elements = Append([@ EXCEPT ![parent].num_children = @ + 1], element),
              !.parents  = Append(@, parent)]
GroupAdded(s, repetition, parent, annotation) ==
    IF annotation = None THEN Added(s, Element(s, repetition), parent)
    ELSE Added(s, With(Element(s, repetition), "logicalType", annotation), parent)

\* The elements from below the root to element i, along the parents; what they
\* add to the levels.
Way(parents, i) ==
    LET way[j \in 0 .. Len(parents)] == IF j <= 1 THEN <<>> ELSE Append(way[parents[j]], j)
    IN  way[i]
Having(elements, way, repetitions) ==
    Len(SelectSeq(way, LAMBDA j : elements[j].repetition_type \in repetitions))
Leaf(elements, parents, i) ==
    LET way == Way(parents, i)
    IN  [at |-> i, path |-> [k \in DOMAIN way |-> elements[way[k]].name],
         def |-> Having(elements, way, {"OPTIONAL", "REPEATED"}),
         rep |-> Having(elements, way, {"REPEATED"})]

\* carquet_schema_add_column
ColumnElement(s, c, repetition) ==
    [type |-> c.type, type_length |-> c.length]
    @@ (IF c.logical = None THEN None ELSE [logicalType |-> c.logical])
    @@ Element(s, repetition)
ColumnAdded(s, c, repetition, parent) ==
    LET t == Added(s, ColumnElement(s, c, repetition), parent)
    IN  IF ~ValidType(c) \/ ~CanHold(s, parent) THEN [ok |-> FALSE, s |-> s]
        ELSE [ok |-> TRUE,
              s  |-> [t EXCEPT !.leaves =
                        Append(@, Leaf(t.elements, t.parents, Len(t.elements)))]]

\* Columns added one after the other to the group that was added last, until
\* one of them is refused.
ColumnsAdded(s, columns) ==
    LET group == Len(s.elements)
    IN  FoldLeft(LAMBDA r, c : IF r.ok THEN ColumnAdded(r.s, c.c, c.repetition, group) ELSE r,
                 [ok |-> TRUE, s |-> s], columns)
AsColumn(c, repetition) == [c |-> c, repetition |-> repetition]

\* carquet_schema_add_list, add_map, add_variant: a group that repeats in one
\* that is annotated, except for the variant.
RepeatedAdded(s, repetition, parent, annotation) ==
    LET outer == GroupAdded(s, repetition, parent, annotation)
    IN  GroupAdded(outer, "REPEATED", Len(outer.elements), None)
ListAdded(s, c, repetition, parent) ==
    ColumnsAdded(RepeatedAdded(s, repetition, parent, [LIST |-> TRUE]),
                 << AsColumn(c, "OPTIONAL") >>)
MapAdded(s, key, c, repetition, parent) ==
    ColumnsAdded(RepeatedAdded(s, repetition, parent, [MAP |-> TRUE]),
                 << AsColumn(key, "REQUIRED"), AsColumn(c, "OPTIONAL") >>)
VariantAdded(s, repetition, parent) ==
    ColumnsAdded(GroupAdded(s, repetition, parent, [VARIANT |-> [specification_version |-> 1]]),
                 << AsColumn(Plainly("BYTE_ARRAY"), "REQUIRED"),
                    AsColumn(Plainly("BYTE_ARRAY"), "REQUIRED") >>)

-------------------------------------------------------------------------------
SchemaInit == schema = EmptySchema

Fits(result) == Len(result.elements) <= MaxElements
AddColumn(parent, repetition) ==
    \E c \in ColumnTypes : \E r \in {ColumnAdded(schema, c, repetition, parent)} :
        Fits(r.s) /\ schema' = r.s
AddGroup(parent, repetition) ==
    /\ CanHold(schema, parent)
    /\ \E s \in {GroupAdded(schema, repetition, parent, None)} : Fits(s) /\ schema' = s
AddList(parent, repetition) ==
    /\ CanHold(schema, parent)
    /\ \E c \in ColumnTypes : \E r \in {ListAdded(schema, c, repetition, parent)} :
          Fits(r.s) /\ schema' = r.s
AddMap(parent, repetition) ==
    /\ CanHold(schema, parent)
    /\ \E key, c \in ColumnTypes : \E r \in {MapAdded(schema, key, c, repetition, parent)} :
          Fits(r.s) /\ schema' = r.s
AddVariant(parent, repetition) ==
    /\ CanHold(schema, parent)
    /\ \E r \in {VariantAdded(schema, repetition, parent)} : Fits(r.s) /\ schema' = r.s
SchemaNext ==
    \E parent \in 1 .. Len(schema.elements), repetition \in Repetitions :
        \/ AddColumn(parent, repetition) \/ AddGroup(parent, repetition)
        \/ AddList(parent, repetition) \/ AddMap(parent, repetition)
        \/ AddVariant(parent, repetition)

-------------------------------------------------------------------------------
(* The reader: count_leaves, compute_levels, traverse_schema_recursive.    *)
(* The elements are taken to be in depth-first order.                      *)

IsLeaf(e) == e.num_children = 0
OptionalOnly(e) == "repetition_type" \in DOMAIN e /\ e.repetition_type = "OPTIONAL"
Optional(e) == "repetition_type" \in DOMAIN e /\ e.repetition_type \in {"OPTIONAL", "REPEATED"}
Repeated(e) == "repetition_type" \in DOMAIN e /\ e.repetition_type = "REPEATED"
RECURSIVE Traverse(_, _, _, _, _)
TraverseChildren(t, n, elements, at, def, rep) ==
    FoldLeft(LAMBDA u, i : Traverse(u, elements, at, def, rep), t, [i \in 1 .. n |-> i])
Traverse(t, elements, parent, def, rep) ==
    LET at == t.next
        e  == elements[at]
        u  == [t EXCEPT !.next = @ + 1, !.parents[at] = parent]
        d  == def + (IF Optional(e) THEN 1 ELSE 0)
        r  == rep + (IF Repeated(e) THEN 1 ELSE 0)
    IN  IF at > Len(elements) THEN t
        ELSE IF IsLeaf(e) THEN [u EXCEPT !.leaves = Append(@, [at |-> at, def |-> d, rep |-> r])]
        ELSE TraverseChildren(u, e.num_children, elements, at, d, r)
Traversed(elements) ==
    IF Len(elements) <= 1
    THEN [next |-> 1, parents |-> [i \in DOMAIN elements |-> 0], leaves |-> <<>>]
    ELSE TraverseChildren([next |-> 2, parents |-> [i \in DOMAIN elements |-> 0], leaves |-> <<>>],
                          elements[1].num_children, elements, 1, 0, 0)
SchemaRead(elements) ==
    LET t == Traversed(elements)
    IN  [elements |-> elements, parents |-> t.parents,
         leaves |-> [k \in DOMAIN t.leaves |->
                       t.leaves[k] @@ [path |-> LET way == Way(t.parents, t.leaves[k].at)
                                                IN  [i \in DOMAIN way |-> elements[way[i]].name]]]]

-------------------------------------------------------------------------------
(* What a reader needs of the order of the calls.                          *)

\* Every element comes right below the element before it or one of its
\* ancestors, and every group has something in it.
DepthFirst(s) ==
    \A i \in 2 .. Len(s.elements) :
        s.parents[i] \in {1, i - 1} \cup Range(Way(s.parents, i - 1))
NoEmptyGroup(s) ==
    \A i \in 2 .. Len(s.elements) : IsLeaf(s.elements[i]) => "type" \in DOMAIN s.elements[i]
===============================================================================
