--------------------------- MODULE FileWriterProofs ---------------------------
(***************************************************************************)
(* Theorems about FileWriter, for any number of columns, any row group     *)
(* limit, blocks, batches and failures.                                    *)
(***************************************************************************)
EXTENDS FileWriter, SequenceLemmas

USE FileWriterAssumption

-------------------------------------------------------------------------------
(* Types.                                                                  *)

Chunks == [at : Nat, size : Nat, values : Nat]
Groups == [rows : Nat, blocks : Seq(Nat), chunks : [Cols -> Chunks]]
Writers ==
    [out : Seq(Cell), header : BOOLEAN, offset : Nat, group : BOOLEAN, base : Nat,
     rows : Nat, est : 0 .. Int64Max, written : [Cols -> Nat],
     dict : [Cols -> BOOLEAN], staged : [Cols -> Seq(Cell)],
     buffer : [Cols -> Seq(Cell)], values : [Cols -> Nat],
     footer : Seq(Groups), total : Nat]
Outcomes == [w : Writers, ok : BOOLEAN]

Types ==
    /\ mode \in {"file", "buffer"} /\ blocks \in BlockSets
    /\ phase \in {"open", "closed", "aborted", "taken"}
    /\ accepted \in [Cols -> 0 .. MaxRows]
    /\ reported \in BOOLEAN /\ lost \in BOOLEAN
    /\ freed \in Nat /\ faults \in 0 .. MaxFaults
    /\ w \in Writers

LEMMA Cells ==
    /\ Magic \in Cell /\ Footer \in Cell /\ Junk \in Cell
    /\ \A c \in Cols, v \in 1 .. MaxRows : Value(c, v) \in Cell
    /\ \A s \in Stray : s \in Seq(Cell)
    /\ \A kind \in blocks, c \in Cols : <<kind, c, 0>> \in Cell
<1>1. Magic \in Cell /\ Footer \in Cell /\ Junk \in Cell
  BY DEF Cell
<1>2. \A s \in Stray : s = <<>> \/ s = <<Junk>>
  BY DEF Stray
<1>3. \A s \in Stray : s \in Seq(Cell)
  <2> HIDE DEF Cell
  <2>1. <<>> \in Seq(Cell) /\ <<Junk>> \in Seq(Cell)
    BY <1>1
  <2>2. QED BY <1>2, <2>1
<1>4. QED BY <1>1, <1>3 DEF Cell

LEMMA OutcomesType ==
    ASSUME NEW x \in Writers
    PROVE  Ok(x) \in Outcomes /\ Failed(x) \in Outcomes
           /\ Ok(x).ok /\ ~Failed(x).ok /\ Ok(x).w = x /\ Failed(x).w = x
BY DEF Outcomes, Ok, Failed

LEMMA BlockOrderType == BlockOrder \in Seq(Cell)
<1> DEFINE each(kind) == IF kind \in blocks THEN [c \in Cols |-> <<kind, c, 0>>] ELSE <<>>
<1>1. ASSUME NEW kind PROVE each(kind) \in Seq(Cell)
  <2>1. CASE kind \in blocks
    <3>1. \A c \in 1 .. NumCols : <<kind, c, 0>> \in Cell
      BY <2>1, Cells DEF Cols
    <3>2. [c \in 1 .. NumCols |-> <<kind, c, 0>>] \in Seq(Cell)
      BY <3>1
    <3>3. QED BY <2>1, <3>2 DEF Cols
  <2>2. CASE kind \notin blocks
    BY <2>2
  <2>3. QED BY <2>1, <2>2
<1>2. BlockOrder = each("bloom") \o each("index")
  BY DEF BlockOrder
<1> HIDE DEF each
<1>3. QED BY <1>1, <1>2, ConcatProperties

LEMMA EnsureHeaderType ==
    ASSUME NEW x \in Writers
    PROVE  EnsureHeader(x) \subseteq Outcomes
<1>1. Append(x.out, Magic) \in Seq(Cell) /\ \A s \in Stray : x.out \o s \in Seq(Cell)
  BY Cells, ConcatProperties, AppendProperties DEF Writers
<1>2. [x EXCEPT !.header = TRUE, !.offset = 1, !.out = Append(@, Magic)] \in Writers
  BY <1>1 DEF Writers
<1>3. \A s \in Stray : [x EXCEPT !.out = @ \o s] \in Writers
  BY <1>1 DEF Writers
<1>4. SUFFICES ASSUME NEW o \in EnsureHeader(x) PROVE o \in Outcomes
  OBVIOUS
<1>5. CASE x.header
  BY <1>5, OutcomesType DEF EnsureHeader
<1>6. CASE ~x.header
  <2>1. \/ o = Ok([x EXCEPT !.header = TRUE, !.offset = 1, !.out = Append(@, Magic)])
        \/ \E s \in Stray : o = Failed([x EXCEPT !.out = @ \o s])
    BY <1>6 DEF EnsureHeader
  <2>2. QED BY <1>2, <1>3, <2>1, OutcomesType
<1>7. QED BY <1>5, <1>6

LEMMA EnsureGroupType ==
    ASSUME NEW x \in Writers
    PROVE  EnsureGroup(x) \subseteq Outcomes
<1>1. 0 \in 0 .. Int64Max
  OBVIOUS
<1>2. [x EXCEPT !.group = TRUE, !.base = x.offset, !.rows = 0, !.est = 0,
                !.written = [c \in Cols |-> 0]] \in Writers
  BY <1>1 DEF Writers
<1>3. QED BY <1>2, OutcomesType DEF EnsureGroup

\* Finished pages: the columns' buffers are a sequence of sequences.
LEMMA BufferType ==
    ASSUME NEW x \in Writers
    PROVE  /\ x.buffer \in Seq(Seq(Cell)) /\ Len(x.buffer) = NumCols
           /\ \A n \in 0 .. NumCols : Through(x, n) \in Seq(Cell)
           /\ GroupData(x) \in Seq(Cell)
           /\ Through(x, 0) = <<>>
           /\ \A n : Through(x, n) = UpTo(x.buffer, n)
<1>1. x.buffer \in [1 .. NumCols -> Seq(Cell)]
  BY DEF Writers, Cols
<1>2. x.buffer \in Seq(Seq(Cell)) /\ Len(x.buffer) = NumCols
  BY <1>1
<1>3. \A n : Through(x, n) = UpTo(x.buffer, n)
  BY DEF Through, UpTo
<1>4. \A n \in 0 .. NumCols : Through(x, n) \in Seq(Cell)
  BY <1>2, <1>3, FlattenUpTo
<1>5. Through(x, 0) = <<>>
  BY <1>2, <1>3, FlattenUpTo
<1>6. QED BY <1>2, <1>3, <1>4, <1>5 DEF GroupData

LEMMA FinalizedType ==
    ASSUME NEW x \in Writers, NEW done, NEW y \in Finalizations(x, done)
    PROVE  /\ y \in Writers
           /\ \E keep : y = Finalized(x, done, keep)
<1>1. PICK keep : y = Finalized(x, done, keep)
  BY DEF Finalizations
<1>2. [c \in Cols |-> IF c \in done THEN x.buffer[c] \o x.staged[c] ELSE x.buffer[c]]
        \in [Cols -> Seq(Cell)]
  BY ConcatProperties DEF Writers
<1>3. [c \in Cols |-> IF c \in done \ keep THEN <<>> ELSE x.staged[c]] \in [Cols -> Seq(Cell)]
  BY DEF Writers
<1>4. [c \in Cols |-> x.dict[c] /\ (c \in done => c \in keep)] \in [Cols -> BOOLEAN]
  OBVIOUS
<1>5. Finalized(x, done, keep) \in Writers
  BY <1>2, <1>3, <1>4 DEF Finalized, Writers
<1>6. QED BY <1>1, <1>5

LEMMA EmitType ==
    ASSUME NEW x \in Writers, NEW n \in 0 .. Len(GroupData(x))
    PROVE  Emit(x, n) \in Writers
<1>1. GroupData(x) \in Seq(Cell)
  BY BufferType
<1>2. \A i \in 1 .. n : GroupData(x)[i] \in Cell
  BY <1>1, ElementOfSeq
<1>3. SubSeq(GroupData(x), 1, n) \in Seq(Cell)
  BY <1>1, <1>2, SubSeqProperties
<1>4. x.out \o SubSeq(GroupData(x), 1, n) \in Seq(Cell)
  BY <1>3, ConcatProperties DEF Writers
<1>5. QED BY <1>4 DEF Emit, Writers

\* No more is written than there is.
LEMMA CutsType ==
    ASSUME NEW x \in Writers, NEW done \in SUBSET Cols
    PROVE  Cuts(x, done) \subseteq 0 .. Len(GroupData(x))
<1>1. Len(GroupData(x)) \in Nat
  BY BufferType
<1>2. IsFiniteSet(Cols) /\ Cardinality(Cols) = NumCols
  BY FS_Interval DEF Cols
<1>3. Cardinality(done) \in 0 .. NumCols
  BY <1>2, FS_Subset, FS_CardinalityType
<1>4. Through(x, Cardinality(done)) \in Seq(Cell)
  BY <1>3, BufferType
<1>5. Len(Through(x, Cardinality(done))) \in 0 .. Len(GroupData(x))
  <2>1. CASE Cardinality(done) = 0
    BY <1>1, <2>1, BufferType
  <2>2. CASE Cardinality(done) # 0
    <3> DEFINE c == Cardinality(done)
    <3>1. c \in 1 .. NumCols /\ NumCols \in c .. NumCols
      BY <1>3, <2>2
    <3> HIDE DEF c
    <3>2. /\ FoundIn(x.buffer, c, NumCols, Len(UpTo(x.buffer, c - 1)), Len(x.buffer[c]))
          /\ Len(UpTo(x.buffer, c - 1)) \in Nat /\ Len(x.buffer[c]) \in Nat
      BY <3>1, BufferType, FlattenPart
    <3>3. Len(UpTo(x.buffer, c)) = Len(UpTo(x.buffer, c - 1)) + Len(x.buffer[c])
      <4>1. /\ UpTo(x.buffer, c) = UpTo(x.buffer, c - 1) \o x.buffer[c]
            /\ UpTo(x.buffer, c - 1) \in Seq(Cell) /\ x.buffer[c] \in Seq(Cell)
        <5>1. c - 1 \in 0 .. NumCols /\ x.buffer \in Seq(Seq(Cell)) /\ Len(x.buffer) = NumCols
          BY <3>1, BufferType
        <5>2. x.buffer[c] \in Seq(Cell)
          BY <3>1, <5>1
        <5>3. UpTo(x.buffer, c) = UpTo(x.buffer, c - 1) \o x.buffer[c]
          BY <3>1, <5>1, FlattenUpTo
        <5>4. UpTo(x.buffer, c - 1) \in Seq(Cell)
          BY <3>1, <5>1, FlattenUpTo
        <5>5. QED BY <5>2, <5>3, <5>4
      <4>2. QED BY <4>1, ConcatProperties
    <3>4. Len(UpTo(x.buffer, c)) <= Len(UpTo(x.buffer, NumCols))
      BY <3>2, <3>3 DEF FoundIn
    <3>5. Len(Through(x, c)) <= Len(GroupData(x))
      BY <3>4, BufferType DEF GroupData
    <3>6. QED BY <1>1, <1>4, <3>5 DEF c
  <2>3. QED BY <2>1, <2>2
<1>6. CASE mode = "buffer" \/ (ParallelFinalize /\ done # Cols)
  BY <1>1, <1>6 DEF Cuts
<1>7. CASE ~(mode = "buffer" \/ (ParallelFinalize /\ done # Cols))
  <2>1. (IF ParallelFinalize THEN 0 ELSE Len(Through(x, Cardinality(done) - 1))) \in Nat
    <3>1. CASE Cardinality(done) = 0
      <4>1. SubSeq(x.buffer, 1, Cardinality(done) - 1) = <<>>
        BY <3>1, SubSeqEmpty
      <4>2. Through(x, Cardinality(done) - 1) = <<>>
        BY <4>1, FlattenEmpty DEF Through
      <4>3. QED BY <4>2
    <3>2. CASE Cardinality(done) # 0
      <4>1. Cardinality(done) - 1 \in 0 .. NumCols
        BY <1>3, <3>2
      <4>2. Through(x, Cardinality(done) - 1) \in Seq(Cell)
        BY <4>1, BufferType
      <4>3. QED BY <4>2
    <3>3. QED BY <3>1, <3>2
  <2>2. Cuts(x, done)
          = (IF ParallelFinalize THEN 0 ELSE Len(Through(x, Cardinality(done) - 1)))
            .. Len(Through(x, Cardinality(done)))
    BY <1>7 DEF Cuts
  <2> HIDE DEF ParallelFinalize
  <2>3. QED BY <1>1, <1>5, <2>1, <2>2
<1>8. QED BY <1>6, <1>7

\* Chunks lie one after another in the group's bytes.
LEMMA ChunksType ==
    ASSUME NEW x \in Writers
    PROVE  \A c \in Cols : Chunk(x, c) \in Chunks
<1>1. ASSUME NEW c \in Cols PROVE Chunk(x, c) \in Chunks
  <2>1. c - 1 \in 0 .. NumCols
    BY DEF Cols
  <2>2. Through(x, c - 1) \in Seq(Cell) /\ x.buffer[c] \in Seq(Cell)
    BY <2>1, BufferType DEF Writers
  <2>3. Len(Through(x, c - 1)) \in Nat /\ Len(x.buffer[c]) \in Nat
    BY <2>2
  <2>4. x.base + Len(Through(x, c - 1)) \in Nat /\ x.values[c] \in Nat
    BY <2>3 DEF Writers
  <2>5. QED BY <2>3, <2>4 DEF Chunk, Chunks
<1>2. QED BY <1>1

LEMMA RecordedType ==
    ASSUME NEW x \in Writers
    PROVE  /\ Recorded(x) \in Writers /\ Recorded(x).footer # <<>>
           /\ Len(Recorded(x).footer) = Len(x.footer) + 1
           /\ Recorded(x).group = x.group /\ Recorded(x).header = x.header
<1> DEFINE e == [rows |-> x.rows, blocks |-> <<>>, chunks |-> [c \in Cols |-> Chunk(x, c)]]
<1>1. e \in Groups
  <2>1. [c \in Cols |-> Chunk(x, c)] \in [Cols -> Chunks]
    BY ChunksType
  <2>2. x.rows \in Nat /\ <<>> \in Seq(Nat)
    BY DEF Writers
  <2>3. QED BY <2>1, <2>2 DEF Groups
<1>2. Recorded(x) = [x EXCEPT !.footer = Append(x.footer, e),
                              !.offset = x.offset + Len(GroupData(x)),
                              !.total = x.total + x.rows]
  BY DEF Recorded
<1> HIDE DEF e
<1>3. x.footer \in Seq(Groups)
  BY DEF Writers
<1>4. Append(x.footer, e) \in Seq(Groups) /\ Len(Append(x.footer, e)) = Len(x.footer) + 1
      /\ Append(x.footer, e) # <<>>
  BY <1>1, <1>3, AppendProperties
<1>5. x.offset + Len(GroupData(x)) \in Nat /\ x.total + x.rows \in Nat
  <2>1. Len(GroupData(x)) \in Nat
    BY BufferType
  <2>2. x.offset \in Nat /\ x.total \in Nat /\ x.rows \in Nat
    BY DEF Writers
  <2> HIDE DEF Writers
  <2>3. QED BY <2>1, <2>2
<1> DEFINE f == Append(x.footer, e)
           o == x.offset + Len(GroupData(x))
           s == x.total + x.rows
<1>6. f \in Seq(Groups) /\ f # <<>> /\ Len(f) = Len(x.footer) + 1 /\ o \in Nat /\ s \in Nat
  BY <1>4, <1>5
<1>7. Recorded(x) = [x EXCEPT !.footer = f, !.offset = o, !.total = s]
  BY <1>2
<1> HIDE DEF f, o, s
<1>8. Recorded(x) \in Writers
  <2>1. [x EXCEPT !.footer = f, !.offset = o] \in Writers
    BY <1>6 DEF Writers
  <2>2. \A y \in Writers : [y EXCEPT !.total = s] \in Writers
    BY <1>6 DEF Writers
  <2>3. QED BY <1>7, <2>1, <2>2
<1>9. QED BY <1>6, <1>7, <1>8 DEF Writers

\* What writing blocks changes, and the entry it completes.
LEMMA WithBlocksFrame ==
    ASSUME NEW x \in Writers, x.footer # <<>>,
           NEW m \in Nat, NEW n \in 0 .. Len(BlockOrder)
    PROVE  LET bs == [i \in 1 .. m |-> x.offset + i - 1]
               L == Len(x.footer)
               z == WithBlocks(x, m, n)
           IN  /\ z \in Writers
               /\ bs \in Seq(Nat) /\ Len(bs) = m /\ L \in DOMAIN x.footer
               /\ z = [x EXCEPT !.out = x.out \o SubSeq(BlockOrder, 1, n),
                                !.footer = [x.footer EXCEPT ![L] = [x.footer[L] EXCEPT !.blocks = bs]],
                                !.offset = x.offset + n]
<1> DEFINE bs == [i \in 1 .. m |-> x.offset + i - 1]
           L == Len(x.footer)
           f == [x.footer EXCEPT ![L] = [x.footer[L] EXCEPT !.blocks = bs]]
           o == x.out \o SubSeq(BlockOrder, 1, n)
<1>1. \A i \in 1 .. m : x.offset + i - 1 \in Nat
  BY DEF Writers
<1>2. bs \in Seq(Nat) /\ Len(bs) = m
  BY <1>1
<1>3. x.footer \in Seq(Groups) /\ L \in 1 .. Len(x.footer) /\ DOMAIN x.footer = 1 .. Len(x.footer)
  BY DEF Writers
<1>4. x.footer[L] \in Groups
  BY <1>3
<1>5. WithBlocks(x, m, n) = [x EXCEPT !.out = o, !.footer = f, !.offset = x.offset + n]
  BY <1>3, <1>4 DEF WithBlocks, Writers, Groups
<1> HIDE DEF bs
<1>6. [x.footer[L] EXCEPT !.blocks = bs] \in Groups
  BY <1>2, <1>4 DEF Groups
<1> HIDE DEF L
<1>7. f \in Seq(Groups)
  BY <1>3, <1>6, ExceptSeq
<1>8. o \in Seq(Cell)
  <2>1. BlockOrder \in Seq(Cell)
    BY BlockOrderType
  <2>2. \A i \in 1 .. n : BlockOrder[i] \in Cell
    BY <2>1, ElementOfSeq
  <2>3. SubSeq(BlockOrder, 1, n) \in Seq(Cell)
    BY <2>1, <2>2, SubSeqProperties
  <2>4. QED BY <2>3, ConcatProperties DEF Writers
<1>9. x.offset + n \in Nat
  <2>1. n \in Nat
    BY BlockOrderType
  <2>2. QED BY <2>1 DEF Writers
<1>10. WithBlocks(x, m, n) \in Writers
  <2> DEFINE p == x.offset + n
  <2>1. p \in Nat /\ WithBlocks(x, m, n) = [x EXCEPT !.out = o, !.footer = f, !.offset = p]
    BY <1>5, <1>9
  <2> HIDE DEF f, o, p
  <2>2. [x EXCEPT !.out = o, !.footer = f] \in Writers
    BY <1>7, <1>8 DEF Writers
  <2>3. \A y \in Writers : [y EXCEPT !.offset = p] \in Writers
    BY <2>1 DEF Writers
  <2>4. QED BY <2>1, <2>2, <2>3
<1>11. QED BY <1>2, <1>3, <1>5, <1>10 DEF bs, L

LEMMA ResetType ==
    ASSUME NEW x \in Writers
    PROVE  Reset(x) \in Writers
<1>1. /\ [c \in Cols |-> 0] \in [Cols -> Nat] /\ 0 \in 0 .. Int64Max
      /\ [c \in Cols |-> <<>>] \in [Cols -> Seq(Cell)]
  <2>1. <<>> \in Seq(Cell)
    OBVIOUS
  <2>2. QED BY <2>1
<1>2. QED BY <1>1 DEF Reset, Writers

LEMMA WithAllBlocksType ==
    ASSUME NEW x \in Writers, x.footer # <<>>
    PROVE  WithAllBlocks(x) \subseteq Outcomes
<1>1. Len(BlockOrder) \in Nat /\ Len(BlockOrder) \in 0 .. Len(BlockOrder)
  BY BlockOrderType
<1>2. SUFFICES ASSUME NEW o \in WithAllBlocks(x) PROVE o \in Outcomes
  OBVIOUS
<1>3. CASE o = Ok(Reset(WithBlocks(x, Len(BlockOrder), Len(BlockOrder))))
  <2>1. WithBlocks(x, Len(BlockOrder), Len(BlockOrder)) \in Writers
    BY <1>1, WithBlocksFrame
  <2>2. QED BY <1>3, <2>1, ResetType, OutcomesType
<1>4. ASSUME NEW i \in 1 .. Len(BlockOrder), NEW s \in Stray,
             o = Failed([WithBlocks(x, i, i - 1) EXCEPT !.out = @ \o s])
      PROVE  o \in Outcomes
  <2>1. i \in Nat /\ i - 1 \in 0 .. Len(BlockOrder)
    BY <1>1
  <2>2. WithBlocks(x, i, i - 1) \in Writers
    BY <2>1, WithBlocksFrame
  <2>3. WithBlocks(x, i, i - 1).out \o s \in Seq(Cell)
    BY <2>2, Cells, ConcatProperties DEF Writers
  <2>4. [WithBlocks(x, i, i - 1) EXCEPT !.out = @ \o s] \in Writers
    BY <2>2, <2>3 DEF Writers
  <2>5. QED BY <1>4, <2>4, OutcomesType
<1> DEFINE cut(i, s) == Failed([WithBlocks(x, i, i - 1) EXCEPT !.out = @ \o s])
           whole == Ok(Reset(WithBlocks(x, Len(BlockOrder), Len(BlockOrder))))
<1>5. o = whole \/ \E i \in 1 .. Len(BlockOrder), s \in Stray : o = cut(i, s)
  <2>1. WithAllBlocks(x) = {whole} \cup {cut(i, s) : i \in 1 .. Len(BlockOrder), s \in Stray}
    BY DEF WithAllBlocks
  <2> HIDE DEF cut, whole
  <2>2. QED BY <1>2, <2>1
<1>6. QED BY <1>3, <1>4, <1>5

\* What a flush leaves in the output before the blocks.
LEMMA WrittenGroupOutcomes ==
    ASSUME NEW x \in Writers, NEW o \in WrittenGroup(x)
    PROVE  /\ o \in Outcomes
           /\ o.ok => \E y \in Finalizations(x, Cols) :
                          o.w = Recorded(Emit(y, Len(GroupData(y))))
<1>1. CASE \E y \in Finalizations(x, Cols) : o = Ok(Recorded(Emit(y, Len(GroupData(y)))))
  <2>1. PICK y \in Finalizations(x, Cols) : o = Ok(Recorded(Emit(y, Len(GroupData(y)))))
    BY <1>1
  <2>2. y \in Writers
    BY FinalizedType
  <2>3. Len(GroupData(y)) \in 0 .. Len(GroupData(y))
    BY <2>2, BufferType
  <2>4. Recorded(Emit(y, Len(GroupData(y)))) \in Writers
    BY <2>2, <2>3, EmitType, RecordedType
  <2>5. QED BY <2>1, <2>4, OutcomesType
<1>2. CASE o \in GroupFailures(x)
  <2>1. PICK done, y, n : /\ done \in SUBSET Cols /\ y \in Finalizations(x, done)
                          /\ n \in Cuts(y, done) /\ o = Failed(Emit(y, n))
    <3>1. \A i \in 0 .. NumCols : 1 .. i \in SUBSET Cols
      BY DEF Cols
    <3>2. QED BY <1>2, <3>1 DEF GroupFailures
  <2>2. y \in Writers
    BY <2>1, FinalizedType
  <2>3. n \in 0 .. Len(GroupData(y))
    BY <2>1, <2>2, CutsType
  <2>4. Emit(y, n) \in Writers
    BY <2>2, <2>3, EmitType
  <2>5. QED BY <2>1, <2>4, OutcomesType
<1>3. QED BY <1>1, <1>2 DEF WrittenGroup

LEMMA FlushOutcomes ==
    ASSUME NEW x \in Writers, NEW o \in FlushRowGroup(x)
    PROVE  /\ o \in Outcomes
           /\ o.ok => \/ ~HasRows(x) /\ o.w = x
                      \/ HasRows(x) /\ \E y \in Finalizations(x, Cols) :
                            LET r == Recorded(Emit(y, Len(GroupData(y))))
                            IN  o.w = Reset(WithBlocks(r, Len(BlockOrder), Len(BlockOrder)))
<1>1. CASE ~HasRows(x)
  BY <1>1, OutcomesType DEF FlushRowGroup
<1>2. CASE HasRows(x)
  <2>1. PICK p \in WrittenGroup(x) : o \in IF p.ok THEN WithAllBlocks(p.w) ELSE {p}
    BY <1>2 DEF FlushRowGroup, Then
  <2>2. CASE ~p.ok
    BY <2>1, <2>2, WrittenGroupOutcomes
  <2>3. CASE p.ok
    <3>1. PICK y \in Finalizations(x, Cols) : p.w = Recorded(Emit(y, Len(GroupData(y))))
      BY <2>3, WrittenGroupOutcomes
    <3>2. p.w \in Writers /\ o \in WithAllBlocks(p.w)
      BY <2>1, <2>3, WrittenGroupOutcomes DEF Outcomes
    <3>3. p.w.footer # <<>>
      <4>1. y \in Writers
        BY FinalizedType
      <4>2. Len(GroupData(y)) \in 0 .. Len(GroupData(y))
        BY <4>1, BufferType
      <4>3. Emit(y, Len(GroupData(y))) \in Writers
        BY <4>1, <4>2, EmitType
      <4>4. QED BY <3>1, <4>3, RecordedType
    <3>4. o \in Outcomes
      BY <3>2, <3>3, WithAllBlocksType
    <3>5. o.ok => o = Ok(Reset(WithBlocks(p.w, Len(BlockOrder), Len(BlockOrder))))
      BY <3>2 DEF WithAllBlocks, Failed
    <3>6. o.ok => o.w = Reset(WithBlocks(p.w, Len(BlockOrder), Len(BlockOrder)))
      BY <3>5 DEF Ok
    <3>7. QED BY <1>2, <3>1, <3>4, <3>6
  <2>4. QED BY <2>2, <2>3
<1>3. QED BY <1>1, <1>2

LEMMA SaturatingAddType ==
    ASSUME NEW a \in 0 .. Int64Max, NEW b \in Nat
    PROVE  SaturatingAdd(a, b) \in 0 .. Int64Max
BY DEF SaturatingAdd

\* n more values, in the order of the column.
NewValues(c, n) == [i \in 1 .. n |-> Value(c, accepted[c] + i)]

LEMMA NewValuesType ==
    ASSUME Types, NEW c \in Cols, NEW n \in Nat, accepted[c] + n <= MaxRows
    PROVE  NewValues(c, n) \in Seq(Cell) /\ Len(NewValues(c, n)) = n
<1>1. accepted[c] \in 0 .. MaxRows
  BY DEF Types
<1>2. \A i \in 1 .. n : accepted[c] + i \in 1 .. MaxRows
  BY <1>1
<1>3. \A i \in 1 .. n : Value(c, accepted[c] + i) \in Cell
  BY <1>2, Cells
<1>4. QED BY <1>3 DEF NewValues

\* Accept, with the values it reads written out.
AcceptedInto(x, c, n, bytes) ==
    [x EXCEPT !.staged = [x.staged EXCEPT ![c] = x.staged[c] \o NewValues(c, n)],
              !.values = [x.values EXCEPT ![c] = x.values[c] + n],
              !.written = [x.written EXCEPT ![c] = x.written[c] + n],
              !.rows = IF n > x.rows THEN n ELSE x.rows,
              !.est = SaturatingAdd(x.est, bytes)]

LEMMA AcceptFrame ==
    ASSUME Types, NEW c \in Cols, NEW n \in Nat, NEW bytes \in Nat, NEW x \in Writers,
           accepted[c] + n <= MaxRows
    PROVE  /\ Accept(x, c, n, bytes) \in Writers
           /\ Accept(x, c, n, bytes) = AcceptedInto(x, c, n, bytes)
<1> DEFINE st == [x.staged EXCEPT ![c] = x.staged[c] \o NewValues(c, n)]
           va == [x.values EXCEPT ![c] = x.values[c] + n]
           wr == [x.written EXCEPT ![c] = x.written[c] + n]
           ro == IF n > x.rows THEN n ELSE x.rows
           es == SaturatingAdd(x.est, bytes)
<1>1. Accept(x, c, n, bytes) = [x EXCEPT !.staged = st, !.values = va, !.written = wr,
                                         !.rows = ro, !.est = es]
  BY DEF Accept, NewValues, Writers
<1>2. st \in [Cols -> Seq(Cell)]
  <2>1. x.staged \in [Cols -> Seq(Cell)] /\ x.staged[c] \o NewValues(c, n) \in Seq(Cell)
    BY NewValuesType, ConcatProperties DEF Writers
  <2>2. QED BY <2>1
<1>3. va \in [Cols -> Nat] /\ wr \in [Cols -> Nat] /\ ro \in Nat
  <2>1. x.values \in [Cols -> Nat] /\ x.written \in [Cols -> Nat] /\ x.rows \in Nat
    BY DEF Writers
  <2> HIDE DEF Writers
  <2>2. QED BY <2>1
<1>4. es \in 0 .. Int64Max
  BY SaturatingAddType DEF Writers
<1> HIDE DEF st, va, wr, ro, es
<1>5. Accept(x, c, n, bytes) \in Writers
  <2>1. [x EXCEPT !.staged = st, !.values = va, !.written = wr] \in Writers
    BY <1>2, <1>3 DEF Writers
  <2>2. \A y \in Writers : [y EXCEPT !.rows = ro, !.est = es] \in Writers
    BY <1>3, <1>4 DEF Writers
  <2>3. QED BY <1>1, <2>1, <2>2
<1>6. QED BY <1>1, <1>5 DEF st, va, wr, ro, es, AcceptedInto

LEMMA StagedOutcomes ==
    ASSUME Types, NEW c \in Cols, NEW n \in Nat, NEW bytes \in Nat, NEW x \in Writers,
           accepted[c] + n <= MaxRows, NEW o \in Staged(x, c, n, bytes)
    PROVE  /\ o \in Outcomes
           /\ o.ok => o.w = Accept(x, c, n, bytes)
<1> DEFINE half(k) == [x EXCEPT !.staged[c] = @ \o NewValues(c, k), !.values[c] = @ + k]
<1>1. Staged(x, c, n, bytes)
        = {Ok(Accept(x, c, n, bytes))}
          \cup {Failed(half(k)) : k \in IF x.dict[c] THEN {0} ELSE 0 .. n - 1}
  BY DEF Staged, NewValues
<1>2. ASSUME NEW k \in Nat, k <= n PROVE half(k) \in Writers
  <2>1. accepted[c] + k <= MaxRows
    BY <1>2 DEF Types
  <2> DEFINE st == [x.staged EXCEPT ![c] = x.staged[c] \o NewValues(c, k)]
             va == [x.values EXCEPT ![c] = x.values[c] + k]
  <2>2. half(k) = [x EXCEPT !.staged = st, !.values = va]
    BY DEF Writers
  <2>3. st \in [Cols -> Seq(Cell)]
    <3>1. x.staged \in [Cols -> Seq(Cell)] /\ x.staged[c] \o NewValues(c, k) \in Seq(Cell)
      BY <2>1, NewValuesType, ConcatProperties DEF Writers
    <3>2. QED BY <3>1
  <2>4. va \in [Cols -> Nat]
    <3>1. x.values \in [Cols -> Nat]
      BY DEF Writers
    <3>2. QED BY <3>1
  <2> HIDE DEF st, va
  <2>5. QED BY <2>2, <2>3, <2>4 DEF Writers
<1>3. CASE o = Ok(Accept(x, c, n, bytes))
  BY <1>3, AcceptFrame, OutcomesType
<1> HIDE DEF half
<1>4. CASE \E k \in Nat : k <= n /\ o = Failed(half(k))
  BY <1>2, <1>4, OutcomesType
<1>5. QED BY <1>1, <1>3, <1>4

LEMMA AutoFlushOutcomes ==
    ASSUME NEW x \in Writers, NEW o \in AutoFlush(x)
    PROVE  /\ o \in Outcomes
           /\ o.ok => \/ ~(x.est > Limit /\ Aligned(x)) /\ o.w = x
                      \/ x.est > Limit /\ Aligned(x) /\ o \in FlushRowGroup(x)
<1>1. CASE x.est > Limit /\ Aligned(x)
  BY <1>1, FlushOutcomes DEF AutoFlush
<1>2. CASE ~(x.est > Limit /\ Aligned(x))
  <2>1. o = Ok(x)
    BY <1>2 DEF AutoFlush
  <2>2. QED BY <1>2, <2>1, OutcomesType
<1>3. QED BY <1>1, <1>2

\* The writer with a header, and with a row group.
Headed(x) == IF x.header THEN x
             ELSE [x EXCEPT !.header = TRUE, !.offset = 1, !.out = Append(@, Magic)]
Grouped(x) == IF x.group THEN x
              ELSE [x EXCEPT !.group = TRUE, !.base = x.offset, !.rows = 0, !.est = 0,
                             !.written = [c \in Cols |-> 0]]

LEMMA HeadedGrouped ==
    ASSUME NEW x \in Writers
    PROVE  /\ Headed(x) \in Writers /\ Grouped(x) \in Writers
           /\ \A o \in EnsureHeader(x) : o.ok => o.w = Headed(x)
           /\ \A o \in EnsureGroup(x) : o.ok => o.w = Grouped(x)
<1>1. ASSUME NEW o \in EnsureHeader(x), o.ok PROVE o.w = Headed(x)
  BY <1>1 DEF EnsureHeader, Headed, Ok, Failed
<1>2. ASSUME NEW o \in EnsureGroup(x), o.ok PROVE o.w = Grouped(x)
  BY <1>2 DEF EnsureGroup, Grouped, Ok, Failed
<1>3. Ok(Headed(x)) \in EnsureHeader(x) /\ Ok(Grouped(x)) \in EnsureGroup(x)
  BY DEF EnsureHeader, EnsureGroup, Headed, Grouped
<1>4. Headed(x) \in Writers /\ Grouped(x) \in Writers
  <2>1. Ok(Headed(x)) \in Outcomes /\ Ok(Grouped(x)) \in Outcomes
    BY <1>3, EnsureHeaderType, EnsureGroupType
  <2>2. QED BY <2>1 DEF Ok, Outcomes
<1>5. QED BY <1>1, <1>2, <1>4

\* The outcomes of the operations, step by step.
BatchSteps(c, n, bytes) ==
    Then(Then(Then(EnsureHeader(w), EnsureGroup), LAMBDA x : Staged(x, c, n, bytes)), AutoFlush)

LEMMA WriteBatchOutcomes ==
    ASSUME Types, NEW c \in Cols, NEW n \in Nat, NEW bytes \in Nat,
           accepted[c] + n <= MaxRows,
           NEW o \in BatchSteps(c, n, bytes)
    PROVE  /\ o \in Outcomes
           /\ o.ok => o \in AutoFlush(Accept(Grouped(Headed(w)), c, n, bytes))
<1> DEFINE A == Then(EnsureHeader(w), EnsureGroup)
           B == Then(A, LAMBDA x : Staged(x, c, n, bytes))
<1>t. w \in Writers
  BY DEF Types
<1>1. PICK p \in B : o \in IF p.ok THEN AutoFlush(p.w) ELSE {p}
  BY DEF Then, BatchSteps
<1>2. PICK q \in A : p \in IF q.ok THEN Staged(q.w, c, n, bytes) ELSE {q}
  BY DEF Then
<1>3. PICK r \in EnsureHeader(w) : q \in IF r.ok THEN EnsureGroup(r.w) ELSE {r}
  BY DEF Then
<1> HIDE DEF A, B
<1>4. r \in Outcomes /\ (r.ok => r.w = Headed(w))
  BY <1>t, EnsureHeaderType, HeadedGrouped
<1>5. q \in Outcomes /\ (q.ok => q.w = Grouped(Headed(w)))
  <2>1. CASE r.ok
    <3>1. Headed(w) \in Writers /\ q \in EnsureGroup(Headed(w))
      BY <1>t, <1>3, <1>4, <2>1, HeadedGrouped
    <3>2. QED BY <3>1, EnsureGroupType, HeadedGrouped
  <2>2. CASE ~r.ok
    BY <1>3, <1>4, <2>2
  <2>3. QED BY <2>1, <2>2
<1>6. p \in Outcomes /\ (p.ok => p.w = Accept(Grouped(Headed(w)), c, n, bytes))
  <2>1. CASE q.ok
    <3>1. q.w \in Writers /\ p \in Staged(q.w, c, n, bytes)
      BY <1>2, <1>5, <2>1 DEF Outcomes
    <3>2. QED BY <1>5, <2>1, <3>1, StagedOutcomes
  <2>2. CASE ~q.ok
    BY <1>2, <1>5, <2>2
  <2>3. QED BY <2>1, <2>2
<1>7. CASE p.ok
  <2>1. p.w \in Writers /\ o \in AutoFlush(p.w)
    BY <1>1, <1>6, <1>7 DEF Outcomes
  <2>2. QED BY <1>6, <1>7, <2>1, AutoFlushOutcomes
<1>8. CASE ~p.ok
  BY <1>1, <1>6, <1>8
<1>9. QED BY <1>7, <1>8

LEMMA NewRowGroupOutcomes ==
    ASSUME Types, NEW o \in Then(EnsureHeader(w), FlushRowGroup)
    PROVE  /\ o \in Outcomes
           /\ o.ok => o \in FlushRowGroup(Headed(w))
<1>t. w \in Writers
  BY DEF Types
<1>1. PICK p \in EnsureHeader(w) : o \in IF p.ok THEN FlushRowGroup(p.w) ELSE {p}
  BY DEF Then
<1>2. p \in Outcomes /\ (p.ok => p.w = Headed(w))
  BY <1>t, EnsureHeaderType, HeadedGrouped
<1>3. CASE p.ok
  <2>1. Headed(w) \in Writers /\ o \in FlushRowGroup(Headed(w))
    BY <1>t, <1>1, <1>2, <1>3, HeadedGrouped
  <2>2. QED BY <2>1, FlushOutcomes
<1>4. CASE ~p.ok
  BY <1>1, <1>2, <1>4
<1>5. QED BY <1>3, <1>4

\* The writer with its footer written.
Finished(x) == [x EXCEPT !.out = Append(@, Footer)]

LEMMA WriteFooterOutcomes ==
    ASSUME NEW x \in Writers
    PROVE  /\ Finished(x) \in Writers
           /\ WriteFooter(x) \subseteq Outcomes
           /\ \A o \in WriteFooter(x) : o.ok => o.w = Finished(x)
<1>1. Append(x.out, Footer) \in Seq(Cell) /\ \A s \in Stray : x.out \o s \in Seq(Cell)
  BY Cells, ConcatProperties, AppendProperties DEF Writers
<1>2. Finished(x) \in Writers
  BY <1>1 DEF Finished, Writers
<1>3. \A s \in Stray : [x EXCEPT !.out = @ \o s] \in Writers
  BY <1>1 DEF Writers
<1>4. ASSUME NEW o \in WriteFooter(x) PROVE o \in Outcomes /\ (o.ok => o.w = Finished(x))
  <2>1. o = Ok(Finished(x)) \/ \E s \in Stray : o = Failed([x EXCEPT !.out = @ \o s])
    BY DEF WriteFooter, Finished
  <2>2. QED BY <1>2, <1>3, <2>1, OutcomesType
<1>5. QED BY <1>2, <1>4

LEMMA CloseOutcomes ==
    ASSUME Types,
           NEW o \in Then(Then(EnsureHeader(w), FlushRowGroup), WriteFooter)
    PROVE  /\ o \in Outcomes
           /\ o.ok => \E p \in FlushRowGroup(Headed(w)) : p.ok /\ o.w = Finished(p.w)
<1> DEFINE A == Then(EnsureHeader(w), FlushRowGroup)
<1>1. PICK p \in A : o \in IF p.ok THEN WriteFooter(p.w) ELSE {p}
  BY DEF Then
<1>2. p \in Outcomes /\ (p.ok => p \in FlushRowGroup(Headed(w)))
  BY NewRowGroupOutcomes
<1> HIDE DEF A
<1>3. CASE p.ok
  <2>1. p.w \in Writers /\ o \in WriteFooter(p.w)
    BY <1>1, <1>2, <1>3 DEF Outcomes
  <2>2. QED BY <1>2, <1>3, <2>1, WriteFooterOutcomes
<1>4. CASE ~p.ok
  BY <1>1, <1>2, <1>4
<1>5. QED BY <1>3, <1>4

LEMMA TypesInit == Init => Types
<1> SUFFICES ASSUME Init PROVE Types
  OBVIOUS
<1>1. PICK dict \in [Cols -> BOOLEAN] : w = NewWriter(dict)
  BY DEF Init
<1>2. /\ [c \in Cols |-> 0] \in [Cols -> Nat] /\ [c \in Cols |-> 0] \in [Cols -> 0 .. MaxRows]
      /\ [c \in Cols |-> <<>>] \in [Cols -> Seq(Cell)] /\ <<>> \in Seq(Cell)
      /\ <<>> \in Seq(Groups) /\ 0 \in 0 .. Int64Max
  <2>1. <<>> \in Seq(Cell) /\ <<>> \in Seq(Groups)
    OBVIOUS
  <2>2. QED BY <2>1
<1>3. w \in Writers
  BY <1>1, <1>2 DEF NewWriter, Writers
<1>4. accepted \in [Cols -> 0 .. MaxRows] /\ faults \in 0 .. MaxFaults /\ freed \in Nat
  BY <1>2 DEF Init
<1>5. /\ mode \in {"file", "buffer"} /\ blocks \in BlockSets /\ phase = "open"
      /\ reported = FALSE /\ lost = FALSE
  BY DEF Init
<1>6. QED BY <1>3, <1>4, <1>5 DEF Types

LEMMA WritersKept == blocks' = blocks => Writers' = Writers
<1> SUFFICES ASSUME blocks' = blocks PROVE Writers' = Writers
  OBVIOUS
<1>1. Cell' = Cell
  BY DEF Cell
<1> HIDE DEF Cell
<1>2. QED BY <1>1 DEF Writers

LEMMA TypesStep == Types /\ [Next]_vars => Types'
<1> SUFFICES ASSUME Types, [Next]_vars PROVE Types'
  OBVIOUS
<1>t. /\ blocks' = blocks /\ mode' = mode
  BY DEF Next, vars, WriteBatch, NewRowGroup, Close, Abort, GetBuffer
<1>w. Writers' = Writers
  BY <1>t, WritersKept
<1> HIDE DEF Writers
<1>1. ASSUME NEW c \in Cols, NEW n \in 1 .. MaxBatch, NEW bytes \in {0, n, Int64Max - 1},
             WriteBatch(c, n, bytes)
      PROVE  Types'
  <2>1. n \in Nat /\ bytes \in Nat /\ accepted[c] + n <= MaxRows
    BY <1>1 DEF WriteBatch
  <2>2. PICK o \in BatchSteps(c, n, bytes) :
            /\ Returns(o)
            /\ accepted' = IF o.ok THEN [accepted EXCEPT ![c] = @ + n] ELSE accepted
            /\ faults' = IF o.ok THEN faults ELSE faults + 1
    BY <1>1 DEF WriteBatch, BatchSteps
  <2>3. o \in Outcomes
    BY <2>1, <2>2, WriteBatchOutcomes
  <2>4. w' \in Writers /\ reported' \in BOOLEAN /\ faults' \in 0 .. MaxFaults
    BY <2>2, <2>3 DEF Returns, Outcomes, Types
  <2>5. accepted' \in [Cols -> 0 .. MaxRows]
    BY <2>1, <2>2 DEF Types
  <2>6. UNCHANGED <<phase, lost, freed>>
    BY <1>1 DEF WriteBatch
  <2>7. QED BY <1>t, <1>w, <2>4, <2>5, <2>6 DEF Types
<1>2. CASE NewRowGroup
  <2>1. PICK o \in Then(EnsureHeader(w), FlushRowGroup) :
            Returns(o) /\ faults' = IF o.ok THEN faults ELSE faults + 1
    BY <1>2 DEF NewRowGroup
  <2>2. o \in Outcomes
    BY NewRowGroupOutcomes
  <2>3. w' \in Writers /\ reported' \in BOOLEAN /\ faults' \in 0 .. MaxFaults
    BY <2>1, <2>2 DEF Returns, Outcomes, Types
  <2>4. UNCHANGED <<phase, accepted, lost, freed>>
    BY <1>2 DEF NewRowGroup
  <2>5. QED BY <1>t, <1>w, <2>3, <2>4 DEF Types
<1>3. CASE Close
  <2>1. PICK o \in Then(Then(EnsureHeader(w), FlushRowGroup), WriteFooter) :
          \/ /\ Returns(o) /\ lost' = lost
             /\ faults' = IF o.ok THEN faults ELSE faults + 1
          \/ /\ faults < MaxFaults
             /\ \E n \in 0 .. Len(o.w.out) - 1 : w' = [o.w EXCEPT !.out = SubSeq(@, 1, n)]
             /\ lost' = TRUE /\ faults' = faults + 1 /\ UNCHANGED reported
    BY <1>3 DEF Close
  <2>2. o \in Outcomes
    BY CloseOutcomes
  <2>3. ASSUME NEW n \in 0 .. Len(o.w.out) - 1 PROVE [o.w EXCEPT !.out = SubSeq(@, 1, n)] \in Writers
    <3>1. o.w \in Writers /\ o.w.out \in Seq(Cell)
      BY <2>2 DEF Outcomes, Writers
    <3>2. \A i \in 1 .. n : o.w.out[i] \in Cell
      BY <3>1, ElementOfSeq
    <3>3. SubSeq(o.w.out, 1, n) \in Seq(Cell)
      BY <3>1, <3>2, SubSeqProperties
    <3>4. QED BY <3>1, <3>3 DEF Writers
  <2>4. w' \in Writers /\ reported' \in BOOLEAN /\ faults' \in 0 .. MaxFaults /\ lost' \in BOOLEAN
    <3>1. CASE /\ Returns(o) /\ lost' = lost
               /\ faults' = IF o.ok THEN faults ELSE faults + 1
      BY <2>2, <3>1 DEF Returns, Outcomes, Types
    <3>2. CASE /\ faults < MaxFaults
               /\ \E n \in 0 .. Len(o.w.out) - 1 : w' = [o.w EXCEPT !.out = SubSeq(@, 1, n)]
               /\ lost' = TRUE /\ faults' = faults + 1 /\ UNCHANGED reported
      BY <2>3, <3>2 DEF Types
    <3>3. QED BY <2>1, <3>1, <3>2
  <2>5. phase' = "closed" /\ freed' = freed + 1 /\ UNCHANGED accepted
    BY <1>3 DEF Close
  <2>6. QED BY <1>t, <1>w, <2>4, <2>5 DEF Types
<1>4. CASE Abort
  <2>1. [w EXCEPT !.out = <<>>] \in Writers
    <3>1. <<>> \in Seq(Cell)
      OBVIOUS
    <3>2. QED BY <3>1 DEF Types, Writers
  <2>2. QED BY <1>4, <1>w, <2>1 DEF Abort, Types
<1>5. CASE GetBuffer
  BY <1>5, <1>w DEF GetBuffer, Types
<1>6. CASE UNCHANGED vars
  BY <1>6, <1>w DEF vars, Types
<1>7. QED BY <1>1, <1>2, <1>3, <1>4, <1>5, <1>6 DEF Next

LEMMA Typing == Spec => []Types
BY TypesInit, TypesStep, PTL DEF Spec

\* The fields of carquet_writer keep their types, in every mode, through
\* failures and aborts; the byte estimate stays within int64_t.
THEOREM TypeCorrect == Spec => []TypeOK
<1>1. Types => TypeOK
  <2> SUFFICES ASSUME Types PROVE TypeOK
    OBVIOUS
  <2>1. w \in Writers
    BY DEF Types
  <2>2. \A g \in DOMAIN w.footer : w.footer[g] \in Groups
    BY <2>1 DEF Writers
  <2>3. /\ w.out \in Seq(Cell)
        /\ w.header \in BOOLEAN /\ w.group \in BOOLEAN
        /\ w.offset \in Nat /\ w.base \in Nat /\ w.rows \in Nat /\ w.total \in Nat
        /\ w.est \in 0 .. Int64Max
        /\ w.written \in [Cols -> Nat] /\ w.values \in [Cols -> Nat]
        /\ w.dict \in [Cols -> BOOLEAN]
        /\ w.staged \in [Cols -> Seq(Cell)] /\ w.buffer \in [Cols -> Seq(Cell)]
    BY <2>1 DEF Writers
  <2>4. QED BY <2>2, <2>3 DEF Types, TypeOK, Groups, Chunks
<1>2. QED BY Typing, <1>1, PTL

-------------------------------------------------------------------------------
(* The inductive invariant of a writer without failures.                   *)

\* The bytes of a chunk, and what the chunks of a column hold together.
Piece(out, k) == SubSeq(out, k.at + 1, k.at + k.size)
Pieces(x, c) == [g \in DOMAIN x.footer |-> Piece(x.out, x.footer[g].chunks[c])]
DecodedIn(x, c) == FlattenSeq(Pieces(x, c))

\* Between operations no finished pages are left, the counts of a column are
\* those of what it has staged, and nothing is staged without rows.
Tidy(x) ==
    /\ \A c \in Cols :
           /\ x.buffer[c] = <<>>
           /\ x.written[c] = Len(x.staged[c]) /\ x.values[c] = Len(x.staged[c])
           /\ x.rows = 0 => x.staged[c] = <<>>
    /\ ~x.group => x.rows = 0
    /\ x.header => x.out # <<>> /\ x.out[1] = Magic
    /\ ~x.header => x.out = <<>> /\ x.offset = 0 /\ x.footer = <<>> /\ ~x.group

\* While the writer is open its offsets are the end of the output.
Placed(x) ==
    /\ x.offset = Len(x.out)
    /\ x.group => x.base = x.offset

\* Chunks and blocks lie in the output, and the blocks are the right ones.
HasChunks(out, e) ==
    \A c \in Cols : /\ e.chunks[c].at + e.chunks[c].size <= Len(out)
                    /\ e.chunks[c].values = e.chunks[c].size
HasBlocks(out, e) ==
    /\ Len(e.blocks) = Len(BlockOrder)
    /\ \A i \in 1 .. Len(BlockOrder) :
          e.blocks[i] < Len(out) /\ out[e.blocks[i] + 1] = BlockOrder[i]
Located(x) ==
    \A g \in DOMAIN x.footer : HasChunks(x.out, x.footer[g]) /\ HasBlocks(x.out, x.footer[g])

\* a values of column c were accepted: they are in chunks or staged, in order.
Kept(x, a) ==
    \A c \in Cols : DecodedIn(x, c) \o x.staged[c] = [i \in 1 .. a[c] |-> Value(c, i)]

GroupRows(x) == [g \in DOMAIN x.footer |-> x.footer[g].rows]
Summed(x) == x.total = SumAlong(GroupRows(x))

\* A writer that was closed has nothing staged and a footer at the end.
Ended(x) ==
    /\ x.header /\ x.out[Len(x.out)] = Footer
    /\ \A c \in Cols : x.staged[c] = <<>>

Good(x, a) == Tidy(x) /\ Located(x) /\ Kept(x, a) /\ Summed(x)

Intact ==
    Sound =>
        /\ Good(w, accepted)
        /\ phase = "open" => Placed(w)
        /\ phase # "open" => Ended(w)

-------------------------------------------------------------------------------
(* A flush that succeeds.                                                  *)

Data(x) == UpTo(x.staged, NumCols)
Entry(x) ==
    [rows |-> x.rows,
     blocks |-> [i \in 1 .. Len(BlockOrder) |-> x.offset + Len(Data(x)) + i - 1],
     chunks |-> [c \in Cols |-> [at |-> x.base + Len(UpTo(x.staged, c - 1)),
                                 size |-> Len(x.staged[c]), values |-> x.values[c]]]]

Flushed(x, z) ==
    /\ z.out = (x.out \o Data(x)) \o BlockOrder
    /\ z.offset = x.offset + Len(Data(x)) + Len(BlockOrder) /\ z.base = z.offset
    /\ z.group = x.group /\ z.header = x.header
    /\ z.footer = Append(x.footer, Entry(x)) /\ z.total = x.total + x.rows
    /\ z.rows = 0 /\ z.est = 0
    /\ \A c \in Cols : /\ z.written[c] = 0 /\ z.values[c] = 0
                       /\ z.staged[c] = <<>> /\ z.buffer[c] = <<>>

\* The staged values are a sequence of sequences.
LEMMA StagedType ==
    ASSUME NEW x \in Writers
    PROVE  /\ x.staged \in Seq(Seq(Cell)) /\ Len(x.staged) = NumCols
           /\ Data(x) \in Seq(Cell)
           /\ \A c \in Cols : UpTo(x.staged, c - 1) \in Seq(Cell) /\ x.staged[c] \in Seq(Cell)
<1>1. x.staged \in [1 .. NumCols -> Seq(Cell)]
  BY DEF Writers, Cols
<1>2. x.staged \in Seq(Seq(Cell)) /\ Len(x.staged) = NumCols
  BY <1>1
<1>3. NumCols \in 0 .. NumCols /\ \A c \in Cols : c - 1 \in 0 .. NumCols
  BY DEF Cols
<1>4. \A n \in 0 .. NumCols : UpTo(x.staged, n) \in Seq(Cell)
  BY <1>2, FlattenUpTo
<1>5. QED BY <1>1, <1>2, <1>3, <1>4 DEF Data, Cols

\* Finalizing every column moves what is staged to the buffers.
LEMMA FinalizedFrame ==
    ASSUME NEW x \in Writers, \A c \in Cols : x.buffer[c] = <<>>,
           NEW y \in Finalizations(x, Cols)
    PROVE  /\ y \in Writers /\ y.buffer = x.staged
           /\ y.out = x.out /\ y.offset = x.offset /\ y.base = x.base /\ y.rows = x.rows
           /\ y.values = x.values /\ y.footer = x.footer /\ y.total = x.total
           /\ y.group = x.group /\ y.header = x.header
<1>1. PICK keep : y = Finalized(x, Cols, keep)
  BY FinalizedType
<1>2. y.buffer = [c \in Cols |-> IF c \in Cols THEN x.buffer[c] \o x.staged[c] ELSE x.buffer[c]]
  BY <1>1 DEF Finalized, Writers
<1>3. ASSUME NEW c \in Cols PROVE x.buffer[c] \o x.staged[c] = x.staged[c]
  <2>1. x.staged[c] \in Seq(Cell) /\ x.buffer[c] = <<>>
    BY DEF Writers
  <2>2. QED BY <2>1, ConcatEmptySeq
<1>4. y.buffer = x.staged
  BY <1>2, <1>3 DEF Writers
<1>5. QED BY <1>1, <1>4, FinalizedType DEF Finalized, Writers

LEMMA ChunkOf ==
    ASSUME NEW x \in Writers
    PROVE  \A c \in Cols : /\ x.base + Len(UpTo(x.staged, c - 1)) \in Nat
                           /\ Len(x.staged[c]) \in Nat /\ x.values[c] \in Nat
<1>1. ASSUME NEW c \in Cols
      PROVE  Len(UpTo(x.staged, c - 1)) \in Nat /\ Len(x.staged[c]) \in Nat
  <2>1. UpTo(x.staged, c - 1) \in Seq(Cell) /\ x.staged[c] \in Seq(Cell)
    BY StagedType
  <2>2. QED BY <2>1
<1>2. QED BY <1>1 DEF Writers

\* Writing blocks completes the last entry, field by field.
LEMMA BlocksFields ==
    ASSUME NEW x \in Writers, NEW f \in Seq(Groups), NEW e \in Groups,
           x.footer = Append(f, e)
    PROVE  LET z == WithBlocks(x, Len(BlockOrder), Len(BlockOrder))
               bs == [i \in 1 .. Len(BlockOrder) |-> x.offset + i - 1]
           IN  /\ z \in Writers
               /\ z.out = x.out \o BlockOrder /\ z.offset = x.offset + Len(BlockOrder)
               /\ z.footer = Append(f, [e EXCEPT !.blocks = bs])
               /\ z.total = x.total /\ z.group = x.group /\ z.header = x.header
<1> DEFINE N == Len(BlockOrder)
           z == WithBlocks(x, N, N)
           bs == [i \in 1 .. N |-> x.offset + i - 1]
           L == Len(x.footer)
           d == [e EXCEPT !.blocks = bs]
           g == [x.footer EXCEPT ![L] = [x.footer[L] EXCEPT !.blocks = bs]]
           o == x.out \o SubSeq(BlockOrder, 1, N)
<1>1. N \in Nat /\ N \in 0 .. N /\ SubSeq(BlockOrder, 1, N) = BlockOrder
  BY BlockOrderType, SubSeqFull
<1>2. /\ x.footer # <<>> /\ L = Len(f) + 1 /\ L \in 1 .. L /\ x.footer[L] = e
      /\ Len(x.footer) = L
      /\ \A i \in 1 .. Len(f) : x.footer[i] = f[i]
      /\ Len(f) \in Nat /\ x.footer \in Seq(Groups)
  BY AppendProperties DEF Writers
<1>3. /\ z \in Writers /\ bs \in Seq(Nat) /\ Len(bs) = N
      /\ z = [x EXCEPT !.out = o, !.footer = g, !.offset = x.offset + N]
  <2>1. x.footer # <<>> /\ N \in Nat /\ N \in 0 .. Len(BlockOrder)
    BY <1>1, <1>2
  <2>2. QED BY <2>1, WithBlocksFrame, Zenon
<1>4. d \in Groups
  <2> HIDE DEF bs
  <2>1. QED BY <1>3 DEF Groups
<1>5. g = [x.footer EXCEPT ![L] = d]
  BY <1>2
<1> HIDE DEF d, g, L
<1>6. g = Append(f, d)
  <2>1. /\ g \in Seq(Groups) /\ Len(g) = L
        /\ \A i \in 1 .. L : g[i] = IF i = L THEN d ELSE x.footer[i]
    <3>1. x.footer \in Seq(Groups) /\ L \in 1 .. Len(x.footer) /\ d \in Groups
      BY <1>2, <1>4
    <3>2. g \in Seq(Groups) /\ Len(g) = Len(x.footer)
      BY <1>5, <3>1, ExceptSeq
    <3>3. ASSUME NEW i \in 1 .. L PROVE g[i] = IF i = L THEN d ELSE x.footer[i]
      <4>1. DOMAIN x.footer = 1 .. L
        BY <1>2
      <4>2. QED BY <1>5, <4>1
    <3>4. QED BY <1>2, <3>2, <3>3
  <2>2. /\ Append(f, d) \in Seq(Groups) /\ Len(Append(f, d)) = L
        /\ \A i \in 1 .. Len(f) : Append(f, d)[i] = f[i]
        /\ Append(f, d)[L] = d
    BY <1>2, <1>4, AppendProperties
  <2>3. \A i \in 1 .. L : g[i] = Append(f, d)[i]
    BY <1>2, <2>1, <2>2
  <2>4. QED BY <2>1, <2>2, <2>3, SeqEqual
<1>7. x.offset + N \in Nat
  BY <1>1 DEF Writers
<1> HIDE DEF z, N, bs, o
<1>8. /\ z.out = o /\ z.footer = g /\ z.offset = x.offset + N
      /\ z.total = x.total /\ z.group = x.group /\ z.header = x.header
  BY <1>3 DEF Writers
<1>9. QED BY <1>1, <1>3, <1>6, <1>8 DEF z, N, bs, o, d

LEMMA FlushFrame ==
    ASSUME NEW x \in Writers, \A c \in Cols : x.buffer[c] = <<>>, HasRows(x),
           NEW o \in FlushRowGroup(x), o.ok
    PROVE  o.w \in Writers /\ Flushed(x, o.w)
<1>1. PICK y \in Finalizations(x, Cols) :
          o.w = Reset(WithBlocks(Recorded(Emit(y, Len(GroupData(y)))),
                                 Len(BlockOrder), Len(BlockOrder)))
  BY FlushOutcomes
<1>2. /\ y \in Writers /\ y.buffer = x.staged
      /\ y.out = x.out /\ y.offset = x.offset /\ y.base = x.base /\ y.rows = x.rows
      /\ y.values = x.values /\ y.footer = x.footer /\ y.total = x.total
      /\ y.group = x.group /\ y.header = x.header
  BY FinalizedFrame
<1>3. GroupData(y) = Data(x) /\ \A c : Through(y, c) = UpTo(x.staged, c)
  BY <1>2, BufferType DEF GroupData, Data
<1>4. Data(x) \in Seq(Cell) /\ Len(Data(x)) \in 0 .. Len(Data(x))
  BY StagedType
<1> DEFINE e == Emit(y, Len(GroupData(y)))
<1>5. e \in Writers
  BY <1>2, <1>3, <1>4, EmitType
<1>6. e = [y EXCEPT !.out = x.out \o Data(x)]
  <2>1. SubSeq(Data(x), 1, Len(Data(x))) = Data(x)
    BY <1>4, SubSeqFull
  <2>2. QED BY <1>2, <1>3, <2>1 DEF Emit
<1>7. /\ e.buffer = x.staged /\ e.out = x.out \o Data(x) /\ e.offset = x.offset
      /\ e.base = x.base /\ e.rows = x.rows /\ e.values = x.values /\ e.footer = x.footer
      /\ e.total = x.total /\ e.group = x.group /\ e.header = x.header
  BY <1>2, <1>6 DEF Writers
<1> HIDE DEF e
<1>8. GroupData(e) = Data(x) /\ \A c : Through(e, c) = UpTo(x.staged, c)
  BY <1>5, <1>7, BufferType DEF GroupData, Data
<1> DEFINE r == Recorded(e)
           k0 == [c \in Cols |-> [at |-> x.base + Len(UpTo(x.staged, c - 1)),
                                  size |-> Len(x.staged[c]), values |-> x.values[c]]]
           e0 == [rows |-> x.rows, blocks |-> <<>>, chunks |-> k0]
<1>9. /\ r \in Writers /\ r.footer # <<>>
      /\ r = [e EXCEPT !.footer = Append(x.footer, e0), !.offset = x.offset + Len(Data(x)),
                       !.total = x.total + x.rows]
  <2>1. \A c \in Cols : Chunk(e, c) = k0[c]
    BY <1>7, <1>8 DEF Chunk
  <2>2. [c \in Cols |-> Chunk(e, c)] = k0
    BY <2>1
  <2>3. QED BY <1>5, <1>7, <1>8, <2>2, RecordedType DEF Recorded
<1>10. /\ r.out = x.out \o Data(x) /\ r.offset = x.offset + Len(Data(x))
       /\ r.footer = Append(x.footer, e0) /\ r.total = x.total + x.rows
       /\ r.group = x.group /\ r.header = x.header
  <2> DEFINE f == Append(x.footer, e0)
             p == x.offset + Len(Data(x))
             s == x.total + x.rows
  <2>1. r = [e EXCEPT !.footer = f, !.offset = p, !.total = s]
    BY <1>9
  <2> HIDE DEF r, f, p, s
  <2>2. /\ r.out = e.out /\ r.offset = p /\ r.footer = f /\ r.total = s
        /\ r.group = e.group /\ r.header = e.header
    BY <1>5, <2>1 DEF Writers
  <2>3. QED BY <1>7, <2>2 DEF f, p, s
<1> HIDE DEF r
<1> DEFINE z == WithBlocks(r, Len(BlockOrder), Len(BlockOrder))
           bs == [i \in 1 .. Len(BlockOrder) |-> r.offset + i - 1]
<1>11. x.footer \in Seq(Groups) /\ e0 \in Groups
  <2>1. \A c \in Cols : k0[c] \in Chunks
    BY <1>9, ChunkOf DEF Chunks
  <2>2. k0 \in [Cols -> Chunks]
    BY <2>1
  <2> HIDE DEF k0
  <2>3. <<>> \in Seq(Nat)
    OBVIOUS
  <2>4. QED BY <2>2, <2>3 DEF Groups, Writers
<1> HIDE DEF e0
<1>12. /\ z \in Writers
       /\ z.out = r.out \o BlockOrder /\ z.offset = r.offset + Len(BlockOrder)
       /\ z.footer = Append(x.footer, [e0 EXCEPT !.blocks = bs])
       /\ z.total = r.total /\ z.group = r.group /\ z.header = r.header
  BY <1>9, <1>10, <1>11, BlocksFields
<1> HIDE DEF z
<1>13. [e0 EXCEPT !.blocks = bs] = Entry(x)
  <2> DEFINE cs == [i \in 1 .. Len(BlockOrder) |-> x.offset + Len(Data(x)) + i - 1]
  <2>1. bs = cs
    BY <1>10
  <2>2. Entry(x) = [rows |-> x.rows, blocks |-> cs, chunks |-> k0]
    BY DEF Entry
  <2> HIDE DEF k0, bs, cs
  <2>3. [e0 EXCEPT !.blocks = bs] = [rows |-> x.rows, blocks |-> bs, chunks |-> k0]
    BY DEF e0
  <2>4. QED BY <2>1, <2>2, <2>3
<1>14. z.footer = Append(x.footer, Entry(x))
  BY <1>12, <1>13
<1>15. o.w = Reset(z)
  BY <1>1 DEF z, r, e
<1>16. o.w \in Writers
  BY <1>12, <1>15, ResetType
<1>17. /\ o.w.out = z.out /\ o.w.offset = z.offset /\ o.w.base = z.offset
       /\ o.w.group = z.group /\ o.w.header = z.header
       /\ o.w.footer = z.footer /\ o.w.total = z.total /\ o.w.rows = 0 /\ o.w.est = 0
       /\ o.w.written = [c \in Cols |-> 0] /\ o.w.values = [c \in Cols |-> 0]
       /\ o.w.staged = [c \in Cols |-> <<>>] /\ o.w.buffer = [c \in Cols |-> <<>>]
  BY <1>12, <1>15 DEF Reset, Writers
<1>18. QED BY <1>10, <1>12, <1>14, <1>16, <1>17 DEF Flushed

-------------------------------------------------------------------------------
(* The invariant and the steps.                                            *)

\* What a footer entry leads to stays where it is when the output grows.
LEMMA EntryKept ==
    ASSUME NEW o \in Seq(Cell), NEW d \in Seq(Cell), NEW e \in Groups,
           HasChunks(o, e), HasBlocks(o, e)
    PROVE  /\ HasChunks(o \o d, e) /\ HasBlocks(o \o d, e)
           /\ \A c \in Cols : /\ Piece(o \o d, e.chunks[c]) = Piece(o, e.chunks[c])
                              /\ Piece(o, e.chunks[c]) \in Seq(Cell)
<1>1. /\ Len(o \o d) = Len(o) + Len(d) /\ Len(o) \in Nat /\ Len(d) \in Nat
      /\ \A i \in 1 .. Len(o) : (o \o d)[i] = o[i]
  BY ConcatProperties
<1>2. ASSUME NEW c \in Cols
      PROVE  /\ e.chunks[c].at + e.chunks[c].size <= Len(o \o d)
             /\ Piece(o \o d, e.chunks[c]) = Piece(o, e.chunks[c])
             /\ Piece(o, e.chunks[c]) \in Seq(Cell)
  <2>1. e.chunks[c] \in Chunks
    BY DEF Groups
  <2>2. PICK m \in Nat, n \in Nat : m = e.chunks[c].at /\ n = e.chunks[c].size
    BY <2>1 DEF Chunks
  <2>3. m + n <= Len(o)
    BY <2>2 DEF HasChunks
  <2>4. m + n <= Len(o \o d)
    BY <1>1, <2>3
  <2>5. /\ SubSeq(o \o d, m + 1, m + n) = SubSeq(o, m + 1, m + n)
        /\ SubSeq(o, m + 1, m + n) \in Seq(Cell)
    BY <2>3, WindowKept
  <2>6. QED BY <2>2, <2>4, <2>5 DEF Piece
<1>3. HasChunks(o \o d, e)
  BY <1>2 DEF HasChunks
<1>4. ASSUME NEW i \in 1 .. Len(BlockOrder)
      PROVE  e.blocks[i] < Len(o \o d) /\ (o \o d)[e.blocks[i] + 1] = BlockOrder[i]
  <2>1. e.blocks \in Seq(Nat) /\ Len(e.blocks) = Len(BlockOrder)
    BY DEF Groups, HasBlocks
  <2>2. PICK b \in Nat : b = e.blocks[i]
    BY <2>1, ElementOfSeq
  <2>3. b < Len(o) /\ o[b + 1] = BlockOrder[i]
    BY <2>2 DEF HasBlocks
  <2>4. b + 1 \in 1 .. Len(o) /\ b < Len(o \o d)
    BY <1>1, <2>3
  <2>5. (o \o d)[b + 1] = BlockOrder[i]
    BY <1>1, <2>3, <2>4
  <2>6. QED BY <2>2, <2>4, <2>5
<1>5. HasBlocks(o \o d, e)
  BY <1>4 DEF HasBlocks
<1>6. QED BY <1>2, <1>3, <1>5

LEMMA PiecesType ==
    ASSUME NEW x \in Writers, Located(x), NEW c \in Cols
    PROVE  /\ Pieces(x, c) \in Seq(Seq(Cell)) /\ Len(Pieces(x, c)) = Len(x.footer)
           /\ DecodedIn(x, c) \in Seq(Cell)
<1>1. x.footer \in Seq(Groups) /\ x.out \in Seq(Cell) /\ <<>> \in Seq(Cell)
  BY DEF Writers
<1>2. ASSUME NEW g \in 1 .. Len(x.footer)
      PROVE  Piece(x.out, x.footer[g].chunks[c]) \in Seq(Cell)
  <2>1. g \in DOMAIN x.footer /\ x.footer[g] \in Groups
    BY <1>1
  <2>2. HasChunks(x.out, x.footer[g]) /\ HasBlocks(x.out, x.footer[g])
    BY <2>1 DEF Located
  <2>3. QED BY <1>1, <2>1, <2>2, EntryKept
<1>3. DOMAIN x.footer = 1 .. Len(x.footer) /\ Len(x.footer) \in Nat
  BY <1>1
<1>4. Pieces(x, c) \in [1 .. Len(x.footer) -> Seq(Cell)]
  BY <1>2, <1>3 DEF Pieces
<1>5. Pieces(x, c) \in Seq(Seq(Cell)) /\ Len(Pieces(x, c)) = Len(x.footer)
  BY <1>3, <1>4
<1>6. QED BY <1>5, FlattenType DEF DecodedIn

\* Bytes added behind the last row group disturb none.
LEMMA OutputGrows ==
    ASSUME NEW x \in Writers, NEW z \in Writers, NEW d \in Seq(Cell),
           z.out = x.out \o d, z.footer = x.footer, Located(x)
    PROVE  Located(z) /\ \A c \in Cols : DecodedIn(z, c) = DecodedIn(x, c)
<1>1. x.footer \in Seq(Groups) /\ x.out \in Seq(Cell)
  BY DEF Writers
<1>2. ASSUME NEW g \in DOMAIN x.footer
      PROVE  /\ HasChunks(z.out, x.footer[g]) /\ HasBlocks(z.out, x.footer[g])
             /\ \A c \in Cols : Piece(z.out, x.footer[g].chunks[c])
                                  = Piece(x.out, x.footer[g].chunks[c])
  <2>1. x.footer[g] \in Groups
    BY <1>1
  <2>2. HasChunks(x.out, x.footer[g]) /\ HasBlocks(x.out, x.footer[g])
    BY DEF Located
  <2>3. QED BY <1>1, <2>1, <2>2, EntryKept
<1>3. \A c \in Cols : Pieces(z, c) = Pieces(x, c)
  BY <1>2 DEF Pieces
<1>4. QED BY <1>2, <1>3 DEF Located, DecodedIn

\* The entry of the group being flushed leads to what was staged.
LEMMA EntryLocated ==
    ASSUME NEW x \in Writers, Tidy(x), Placed(x), x.group
    PROVE  LET out == (x.out \o Data(x)) \o BlockOrder
           IN  /\ Entry(x) \in Groups
               /\ HasChunks(out, Entry(x)) /\ HasBlocks(out, Entry(x))
               /\ \A c \in Cols : Piece(out, Entry(x).chunks[c]) = x.staged[c]
<1> DEFINE u == x.out \o Data(x)
           out == u \o BlockOrder
           N == Len(BlockOrder)
           E == Entry(x)
<1>1. x.out \in Seq(Cell) /\ Data(x) \in Seq(Cell) /\ BlockOrder \in Seq(Cell)
  BY StagedType, BlockOrderType DEF Writers
<1>2. u \in Seq(Cell) /\ Len(u) = Len(x.out) + Len(Data(x))
  BY <1>1, ConcatProperties
<1>3. out \in Seq(Cell) /\ Len(out) = Len(u) + N
      /\ \A i \in 1 .. N : Len(u) + i \in 1 .. Len(u) + N /\ out[Len(u) + i] = BlockOrder[i]
  <2> HIDE DEF u
  <2>1. /\ out \in Seq(Cell) /\ Len(out) = Len(u) + N /\ Len(u) \in Nat /\ N \in Nat
        /\ \A i \in 1 .. Len(u) + N : out[i] = IF i <= Len(u) THEN u[i] ELSE BlockOrder[i - Len(u)]
    <3>1. Len(u) \in Nat /\ N \in Nat
      BY <1>1, <1>2
    <3> DEFINE b == BlockOrder
    <3>2. b \in Seq(Cell) /\ u \in Seq(Cell)
      BY <1>1, <1>2
    <3> HIDE DEF b
    <3>3. /\ u \o b \in Seq(Cell) /\ Len(u \o b) = Len(u) + Len(b)
          /\ \A i \in 1 .. Len(u) + Len(b) : (u \o b)[i] = IF i <= Len(u) THEN u[i] ELSE b[i - Len(u)]
      BY <3>2, ConcatProperties
    <3>4. QED BY <3>1, <3>3 DEF b
  <2> HIDE DEF out, N
  <2>2. ASSUME NEW i \in 1 .. N
        PROVE  Len(u) + i \in 1 .. Len(u) + N /\ out[Len(u) + i] = BlockOrder[i]
    <3>1. Len(u) + i \in 1 .. Len(u) + N /\ ~(Len(u) + i <= Len(u)) /\ (Len(u) + i) - Len(u) = i
      BY <2>1
    <3>2. QED BY <2>1, <3>1
  <2>3. QED BY <2>1, <2>2
<1>4. x.offset = Len(x.out) /\ x.base = Len(x.out) /\ Len(x.out) \in Nat
      /\ Len(Data(x)) \in Nat /\ N \in Nat
  BY <1>1 DEF Placed
<1>5. /\ E.rows = x.rows
      /\ E.blocks = [i \in 1 .. N |-> Len(u) + i - 1]
      /\ E.chunks = [c \in Cols |-> [at |-> Len(x.out) + Len(UpTo(x.staged, c - 1)),
                                     size |-> Len(x.staged[c]), values |-> x.values[c]]]
      /\ E = [rows |-> E.rows, blocks |-> E.blocks, chunks |-> E.chunks]
  BY <1>2, <1>4 DEF Entry
<1>6. ASSUME NEW c \in Cols
      PROVE  /\ E.chunks[c] \in Chunks /\ Piece(out, E.chunks[c]) = x.staged[c]
             /\ E.chunks[c].at + E.chunks[c].size <= Len(out)
             /\ E.chunks[c].values = E.chunks[c].size
  <2> DEFINE m == Len(UpTo(x.staged, c - 1))
             n == Len(x.staged[c])
             b == Len(x.out)
  <2>1. m \in Nat /\ n \in Nat /\ b \in Nat
    BY <1>4, ChunkOf
  <2> HIDE DEF E
  <2>0. x.values[c] = n
    BY DEF Tidy
  <2>2. E.chunks[c] = [at |-> b + m, size |-> n, values |-> n]
    BY <1>5, <2>0
  <2>3. FoundIn(x.staged, c, NumCols, m, n)
    <3>1. c \in 1 .. NumCols /\ NumCols \in c .. NumCols
      BY DEF Cols
    <3>2. x.staged \in Seq(Seq(Cell)) /\ Len(x.staged) = NumCols
      BY StagedType
    <3>3. QED BY <3>1, <3>2, FlattenPart
  <2>4. m + n <= Len(Data(x)) /\ SubSeq(Data(x), m + 1, m + n) = x.staged[c]
    BY <2>3 DEF FoundIn, Data
  <2> HIDE DEF m, n
  <2>5. SubSeq(u, b + m + 1, b + m + n) = SubSeq(Data(x), m + 1, m + n)
    <3> DEFINE p == x.out
               q == Data(x)
    <3>1. p \in Seq(Cell) /\ q \in Seq(Cell) /\ m + n <= Len(q)
      BY <1>1, <2>4
    <3> HIDE DEF p, q
    <3>2. SubSeq(p \o q, Len(p) + m + 1, Len(p) + m + n) = SubSeq(q, m + 1, m + n)
      BY <2>1, <3>1, WindowShifted
    <3>3. QED BY <3>2 DEF p, q
  <2> HIDE DEF b
  <2>6. b + m \in Nat /\ (b + m) + n <= Len(u)
    <3>1. PICK l \in Nat : l = Len(Data(x))
      BY <1>4
    <3>2. Len(u) = b + l
      BY <1>2, <3>1 DEF b
    <3>3. QED BY <2>1, <2>4, <3>1, <3>2
  <2> HIDE DEF u
  <2>7. SubSeq(out, (b + m) + 1, (b + m) + n) = SubSeq(u, (b + m) + 1, (b + m) + n)
    BY <1>1, <1>2, <2>1, <2>6, WindowKept
  <2> HIDE DEF out
  <2>8. (b + m) + n <= Len(out)
    <3>1. PICK l \in Nat, k \in Nat : l = Len(u) /\ k = N
      BY <1>2, <1>4
    <3>2. QED BY <1>3, <2>1, <2>6, <3>1
  <2>9. SubSeq(out, (b + m) + 1, (b + m) + n) = x.staged[c]
    BY <2>4, <2>5, <2>7
  <2>10. QED BY <2>1, <2>2, <2>6, <2>8, <2>9 DEF Piece, Chunks
<1>7. ASSUME NEW i \in 1 .. N
      PROVE  /\ E.blocks[i] \in Nat /\ E.blocks[i] < Len(out)
             /\ out[E.blocks[i] + 1] = BlockOrder[i]
  <2>1. PICK l \in Nat : l = Len(u)
    BY <1>2
  <2>2. E.blocks[i] = l + i - 1
    BY <1>5, <2>1
  <2>3. PICK k \in Nat : k = N
    BY <1>4
  <2>4. Len(out) = l + k
    BY <1>3, <2>1, <2>3
  <2>5. l + i - 1 \in Nat /\ l + i - 1 < l + k /\ (l + i - 1) + 1 = l + i
    BY <2>3
  <2>6. out[l + i] = BlockOrder[i]
    BY <1>3, <2>1
  <2> HIDE DEF E, out, u
  <2>7. QED BY <2>2, <2>4, <2>5, <2>6
<1>8. E \in Groups
  <2>1. E.blocks \in Seq(Nat)
    <3>1. DOMAIN E.blocks = 1 .. N /\ E.blocks = [i \in 1 .. N |-> E.blocks[i]]
      BY <1>5
    <3> HIDE DEF E, N
    <3>2. E.blocks \in [1 .. N -> Nat]
      BY <1>7, <3>1
    <3>3. QED BY <1>4, <3>2
  <2>2. E.chunks \in [Cols -> Chunks]
    <3>1. DOMAIN E.chunks = Cols /\ E.chunks = [c \in Cols |-> E.chunks[c]]
      BY <1>5
    <3> HIDE DEF E
    <3>2. QED BY <1>6, <3>1
  <2>3. E.rows \in Nat
    BY <1>5 DEF Writers
  <2> HIDE DEF E
  <2>4. QED BY <1>5, <2>1, <2>2, <2>3 DEF Groups
<1>9. Len(E.blocks) = N
  BY <1>4, <1>5
<1> HIDE DEF E, out
<1>10. HasChunks(out, E) /\ HasBlocks(out, E)
  BY <1>6, <1>7, <1>9 DEF HasChunks, HasBlocks
<1>11. QED BY <1>6, <1>8, <1>10 DEF E, out

\* A flush that succeeds leaves everything staged in the row group it wrote.
LEMMA FlushedGood ==
    ASSUME NEW x \in Writers, NEW a, Good(x, a), Placed(x), x.group,
           NEW z \in Writers, Flushed(x, z)
    PROVE  Good(z, a) /\ Placed(z)
<1> DEFINE d == Data(x) \o BlockOrder
           E == Entry(x)
           n == Len(x.footer)
<1>1. /\ x.out \in Seq(Cell) /\ Data(x) \in Seq(Cell) /\ BlockOrder \in Seq(Cell)
      /\ d \in Seq(Cell)
  BY StagedType, BlockOrderType, ConcatProperties DEF Writers
<1>2. z.out = x.out \o d /\ z.out = (x.out \o Data(x)) \o BlockOrder
  <2>1. (x.out \o Data(x)) \o BlockOrder = x.out \o (Data(x) \o BlockOrder)
    <3> DEFINE p == x.out
               q == Data(x)
               b == BlockOrder
    <3>1. p \in Seq(Cell) /\ q \in Seq(Cell) /\ b \in Seq(Cell)
      BY <1>1
    <3> HIDE DEF p, q, b
    <3>2. (p \o q) \o b = p \o (q \o b)
      BY <3>1, ConcatAssociative
    <3>3. QED BY <3>2 DEF p, q, b
  <2>2. QED BY <2>1 DEF Flushed
<1>3. Tidy(x) /\ Located(x) /\ Kept(x, a) /\ Summed(x)
  BY DEF Good
<1>4. /\ E \in Groups /\ HasChunks(z.out, E) /\ HasBlocks(z.out, E)
      /\ \A c \in Cols : Piece(z.out, E.chunks[c]) = x.staged[c]
  BY <1>2, <1>3, EntryLocated
<1> HIDE DEF d, E
<1>5. /\ x.footer \in Seq(Groups) /\ n \in Nat /\ z.footer = Append(x.footer, E)
      /\ DOMAIN x.footer = 1 .. n /\ DOMAIN z.footer = 1 .. n + 1
      /\ z.footer[n + 1] = E /\ \A g \in 1 .. n : z.footer[g] = x.footer[g]
      /\ z.footer # <<>>
  <2>1. x.footer \in Seq(Groups) /\ z.footer = Append(x.footer, E)
    BY DEF Writers, Flushed, E
  <2>2. QED BY <1>4, <2>1, AppendProperties
<1>6. ASSUME NEW g \in 1 .. n
      PROVE  /\ HasChunks(z.out, z.footer[g]) /\ HasBlocks(z.out, z.footer[g])
             /\ \A c \in Cols : Piece(z.out, z.footer[g].chunks[c])
                                  = Piece(x.out, x.footer[g].chunks[c])
  <2>1. x.footer[g] \in Groups /\ z.footer[g] = x.footer[g]
    BY <1>5
  <2>2. HasChunks(x.out, x.footer[g]) /\ HasBlocks(x.out, x.footer[g])
    BY <1>3, <1>5 DEF Located
  <2>3. PICK e \in Groups : e = x.footer[g]
    BY <2>1
  <2>4. /\ HasChunks(x.out \o d, e) /\ HasBlocks(x.out \o d, e)
        /\ \A c \in Cols : Piece(x.out \o d, e.chunks[c]) = Piece(x.out, e.chunks[c])
    BY <1>1, <2>2, <2>3, EntryKept
  <2>5. QED BY <1>2, <2>1, <2>3, <2>4
<1>7. Located(z)
  <2>1. \A g \in 1 .. n + 1 : g \in 1 .. n \/ g = n + 1
    BY <1>5
  <2>2. QED BY <1>4, <1>5, <1>6, <2>1 DEF Located
<1>8. ASSUME NEW c \in Cols PROVE Pieces(z, c) = Append(Pieces(x, c), x.staged[c])
  <2> DEFINE p == Pieces(x, c)
             q == Pieces(z, c)
             s == x.staged[c]
  <2>1. p \in Seq(Seq(Cell)) /\ Len(p) = n /\ q \in Seq(Seq(Cell)) /\ Len(q) = n + 1
    BY <1>3, <1>5, <1>7, PiecesType
  <2>2. s \in Seq(Cell)
    BY DEF Writers
  <2>3. ASSUME NEW g \in 1 .. n PROVE q[g] = p[g]
    <3>1. g \in DOMAIN x.footer /\ g \in DOMAIN z.footer
      BY <1>5
    <3>2. QED BY <1>6, <3>1 DEF Pieces
  <2>4. q[n + 1] = s
    <3>1. n + 1 \in DOMAIN z.footer
      BY <1>5
    <3>2. QED BY <1>4, <1>5, <3>1 DEF Pieces
  <2> HIDE DEF p, q, s
  <2>5. /\ Append(p, s) \in Seq(Seq(Cell)) /\ Len(Append(p, s)) = n + 1
        /\ \A g \in 1 .. n : Append(p, s)[g] = p[g]
        /\ Append(p, s)[n + 1] = s
    BY <2>1, <2>2, AppendProperties
  <2>6. \A g \in 1 .. n + 1 : q[g] = Append(p, s)[g]
    BY <1>5, <2>3, <2>4, <2>5
  <2> HIDE DEF n
  <2>7. q = Append(p, s)
    BY <2>1, <2>5, <2>6, SeqEqual
  <2>8. QED BY <2>7 DEF p, q, s
<1>9. Kept(z, a)
  <2>1. ASSUME NEW c \in Cols
        PROVE  DecodedIn(z, c) \o z.staged[c] = DecodedIn(x, c) \o x.staged[c]
    <3>1. Pieces(x, c) \in Seq(Seq(Cell)) /\ DecodedIn(z, c) \in Seq(Cell)
      BY <1>3, <1>7, PiecesType
    <3>2. x.staged[c] \in Seq(Cell) /\ z.staged[c] = <<>>
      BY DEF Writers, Flushed
    <3>3. DecodedIn(z, c) = DecodedIn(x, c) \o x.staged[c]
      <4> DEFINE p == Pieces(x, c)
                 s == x.staged[c]
      <4>1. p \in Seq(Seq(Cell)) /\ s \in Seq(Cell) /\ Pieces(z, c) = Append(p, s)
        BY <1>8, <3>1, <3>2
      <4> HIDE DEF p, s
      <4>2. FlattenSeq(Append(p, s)) = FlattenSeq(p) \o s
        BY <4>1, FlattenAppend
      <4>3. QED BY <4>1, <4>2 DEF DecodedIn, p, s
    <3>4. QED BY <3>1, <3>2, <3>3, ConcatEmptySeq
  <2>2. QED BY <1>3, <2>1 DEF Kept
<1>10. Summed(z)
  <2>1. GroupRows(x) \in Seq(Nat) /\ Len(GroupRows(x)) = n
    <3>0. \A g \in 1 .. n : x.footer[g] \in Groups
      BY <1>5
    <3>1. \A g \in 1 .. n : x.footer[g].rows \in Nat
      BY <3>0 DEF Groups
    <3>2. GroupRows(x) \in [1 .. n -> Nat]
      BY <1>5, <3>1 DEF GroupRows
    <3> HIDE DEF n
    <3>3. QED BY <1>5, <3>2
  <2>2. x.rows \in Nat /\ E.rows = x.rows
    BY DEF Writers, E, Entry
  <2>3. GroupRows(z) = Append(GroupRows(x), x.rows)
    <3> DEFINE p == GroupRows(x)
               q == GroupRows(z)
    <3>1. DOMAIN q = 1 .. n + 1 /\ q[n + 1] = x.rows /\ \A g \in 1 .. n : q[g] = p[g]
      BY <1>5, <2>2 DEF GroupRows
    <3>2. q \in [1 .. n + 1 -> Nat]
      <4>1. q = [g \in 1 .. n + 1 |-> q[g]]
        BY <1>5 DEF GroupRows
      <4>2. \A g \in 1 .. n + 1 : q[g] \in Nat
        <5>1. \A g \in 1 .. n : p[g] \in Nat
          BY <2>1
        <5> HIDE DEF p, q
        <5>2. QED BY <1>5, <2>2, <3>1, <5>1
      <4> HIDE DEF q
      <4>3. QED BY <4>1, <4>2
    <3> HIDE DEF p, q
    <3>3. q \in Seq(Nat) /\ Len(q) = n + 1
      <4>1. n + 1 \in Nat
        BY <1>5
      <4> HIDE DEF n
      <4>2. QED BY <3>2, <4>1
    <3>4. /\ Append(p, x.rows) \in Seq(Nat) /\ Len(Append(p, x.rows)) = n + 1
          /\ \A g \in 1 .. n : Append(p, x.rows)[g] = p[g]
          /\ Append(p, x.rows)[n + 1] = x.rows
      BY <2>1, <2>2, AppendProperties DEF p
    <3>5. \A g \in 1 .. n + 1 : q[g] = Append(p, x.rows)[g]
      BY <1>5, <3>1, <3>4
    <3>6. QED BY <3>3, <3>4, <3>5, SeqEqual DEF p, q
  <2>4. SumAlong(GroupRows(z)) = SumAlong(GroupRows(x)) + x.rows
    BY <2>1, <2>2, <2>3, SumAlongAppend
  <2>5. QED BY <1>3, <2>4 DEF Summed, Flushed
<1>11. Len(z.out) = Len(x.out) + Len(Data(x)) + Len(BlockOrder)
       /\ Len(x.out) \in Nat /\ (x.out # <<>> => z.out # <<>> /\ z.out[1] = x.out[1])
  <2>1. /\ x.out \o Data(x) \in Seq(Cell)
        /\ Len(x.out \o Data(x)) = Len(x.out) + Len(Data(x))
        /\ Len((x.out \o Data(x)) \o BlockOrder)
             = Len(x.out) + Len(Data(x)) + Len(BlockOrder)
    BY <1>1, ConcatProperties
  <2>2. /\ Len(x.out) \in Nat /\ Len(d) \in Nat /\ Len(x.out \o d) = Len(x.out) + Len(d)
        /\ \A i \in 1 .. Len(x.out) : (x.out \o d)[i] = x.out[i]
    BY <1>1, ConcatProperties
  <2>3. ASSUME x.out # <<>> PROVE z.out # <<>> /\ z.out[1] = x.out[1]
    <3>1. Len(x.out) # 0
      BY <1>1, <2>3, EmptySeq
    <3>2. 1 \in 1 .. Len(x.out) /\ Len(x.out \o d) # 0
      BY <2>2, <3>1
    <3>3. x.out \o d # <<>>
      BY <3>2
    <3>4. QED BY <1>2, <2>2, <3>2, <3>3
  <2>4. QED BY <1>2, <2>1, <2>2, <2>3
<1>12. Tidy(z)
  <2>1. x.header /\ x.out # <<>> /\ x.out[1] = Magic
    BY <1>3 DEF Tidy
  <2>2. z.header /\ z.group /\ z.rows = 0
    BY <2>1 DEF Flushed
  <2>3. \A c \in Cols : /\ z.buffer[c] = <<>> /\ z.staged[c] = <<>>
                        /\ z.written[c] = 0 /\ z.values[c] = 0
    BY DEF Flushed
  <2>4. Len(<<>>) = 0
    OBVIOUS
  <2>5. QED BY <1>11, <2>1, <2>2, <2>3, <2>4 DEF Tidy
<1>13. Placed(z)
  BY <1>11 DEF Placed, Flushed
<1>14. QED BY <1>7, <1>9, <1>10, <1>12, <1>13 DEF Good

LEMMA HeadedGood ==
    ASSUME NEW x \in Writers, NEW a, Good(x, a), Placed(x)
    PROVE  Good(Headed(x), a) /\ Placed(Headed(x)) /\ Headed(x).header
<1>1. CASE x.header
  BY <1>1 DEF Headed
<1>2. CASE ~x.header
  <2> DEFINE z == Headed(x)
  <2>1. z = [x EXCEPT !.header = TRUE, !.offset = 1, !.out = Append(x.out, Magic)]
    BY <1>2 DEF Headed
  <2>2. z \in Writers
    BY HeadedGrouped
  <2> HIDE DEF z
  <2>3. /\ z.header /\ z.offset = 1 /\ z.out = Append(x.out, Magic)
        /\ z.group = x.group /\ z.base = x.base /\ z.rows = x.rows /\ z.written = x.written
        /\ z.staged = x.staged /\ z.buffer = x.buffer /\ z.values = x.values
        /\ z.footer = x.footer /\ z.total = x.total
    BY <2>1 DEF Writers
  <2>4. x.out = <<>> /\ ~x.group
    BY <1>2 DEF Good, Tidy
  <2>5. z.out = <<Magic>> /\ z.out # <<>> /\ z.out[1] = Magic /\ Len(z.out) = 1
        /\ z.out = x.out \o <<Magic>>
    <3> HIDE DEF Magic
    <3>1. z.out = <<Magic>>
      BY <2>3, <2>4
    <3>2. QED BY <2>4, <3>1
  <2>6. <<Magic>> \in Seq(Cell)
    <3>1. Magic \in Cell
      BY Cells
    <3> HIDE DEF Cell, Magic
    <3>2. QED BY <3>1
  <2>7. Located(z) /\ \A c \in Cols : DecodedIn(z, c) = DecodedIn(x, c)
    BY <2>2, <2>3, <2>5, <2>6, OutputGrows DEF Good
  <2>8. Kept(z, a)
    BY <2>3, <2>7 DEF Kept, Good
  <2>9. Summed(z)
    BY <2>3 DEF Summed, GroupRows, Good
  <2>10. Tidy(z)
    BY <2>3, <2>5 DEF Good, Tidy
  <2>11. Placed(z)
    BY <2>3, <2>4, <2>5 DEF Placed
  <2>12. QED BY <2>3, <2>7, <2>8, <2>9, <2>10, <2>11 DEF Good, z
<1>3. QED BY <1>1, <1>2

LEMMA GroupedGood ==
    ASSUME NEW x \in Writers, NEW a, Good(x, a), Placed(x), x.header
    PROVE  /\ Good(Grouped(x), a) /\ Placed(Grouped(x))
           /\ Grouped(x).header /\ Grouped(x).group
<1>1. CASE x.group
  BY <1>1 DEF Grouped
<1>2. CASE ~x.group
  <2> DEFINE z == Grouped(x)
  <2>1. z = [x EXCEPT !.group = TRUE, !.base = x.offset, !.rows = 0, !.est = 0,
                      !.written = [c \in Cols |-> 0]]
    BY <1>2 DEF Grouped
  <2>2. z \in Writers
    BY HeadedGrouped
  <2> HIDE DEF z
  <2>3. /\ z.header = x.header /\ z.offset = x.offset /\ z.out = x.out
        /\ z.group /\ z.base = x.offset /\ z.rows = 0 /\ z.written = [c \in Cols |-> 0]
        /\ z.staged = x.staged /\ z.buffer = x.buffer /\ z.values = x.values
        /\ z.footer = x.footer /\ z.total = x.total
    BY <2>1 DEF Writers
  <2>4. \A c \in Cols : x.staged[c] = <<>> /\ z.written[c] = 0
    BY <1>2, <2>3 DEF Good, Tidy
  <2>5. Len(<<>>) = 0
    OBVIOUS
  <2>6. Tidy(z)
    BY <2>3, <2>4, <2>5 DEF Good, Tidy
  <2>7. Located(z) /\ \A c \in Cols : DecodedIn(z, c) = DecodedIn(x, c)
    BY <2>3 DEF Good, Located, DecodedIn, Pieces
  <2>8. Kept(z, a)
    BY <2>3, <2>7 DEF Kept, Good
  <2>9. Summed(z)
    BY <2>3 DEF Summed, GroupRows, Good
  <2>10. Placed(z)
    BY <2>3 DEF Placed
  <2>11. QED BY <1>2, <2>3, <2>6, <2>7, <2>8, <2>9, <2>10 DEF Good, z
<1>3. QED BY <1>1, <1>2

\* The values 1 .. n of a column, in order.
UpToValue(c, n) == [i \in 1 .. n |-> Value(c, i)]

LEMMA ValuesExtended ==
    ASSUME Types, NEW c \in Cols, NEW n \in Nat, accepted[c] + n <= MaxRows
    PROVE  UpToValue(c, accepted[c]) \o NewValues(c, n) = UpToValue(c, accepted[c] + n)
<1>1. accepted[c] \in Nat /\ MaxRows \in Nat /\ accepted[c] <= MaxRows
  BY DEF Types
<1> DEFINE m == accepted[c]
           p == UpToValue(c, m)
           q == NewValues(c, n)
           r == UpToValue(c, m + n)
<1>2. /\ p \in Seq(Cell) /\ Len(p) = m /\ \A i \in 1 .. m : p[i] = Value(c, i)
  <2>1. \A i \in 1 .. m : Value(c, i) \in Cell
    <3>1. \A i \in 1 .. m : i \in 1 .. MaxRows
      BY <1>1
    <3>2. QED BY <3>1, Cells
  <2> HIDE DEF m
  <2>2. QED BY <1>1, <2>1 DEF m, UpToValue
<1>3. q \in Seq(Cell) /\ Len(q) = n /\ \A i \in 1 .. n : q[i] = Value(c, m + i)
  BY NewValuesType DEF NewValues
<1>4. r \in Seq(Cell) /\ Len(r) = m + n /\ \A i \in 1 .. m + n : r[i] = Value(c, i)
  <2>1. \A i \in 1 .. m + n : Value(c, i) \in Cell
    <3>1. \A i \in 1 .. m + n : i \in 1 .. MaxRows
      BY <1>1
    <3>2. QED BY <3>1, Cells
  <2>2. m + n \in Nat
    BY <1>1
  <2> HIDE DEF m
  <2>3. QED BY <2>1, <2>2 DEF UpToValue
<1>5. m \in Nat
  BY <1>1
<1> HIDE DEF m, p, q, r
<1>6. /\ p \o q \in Seq(Cell) /\ Len(p \o q) = m + n
      /\ \A i \in 1 .. m + n : (p \o q)[i] = IF i <= m THEN p[i] ELSE q[i - m]
  BY <1>2, <1>3, <1>5, ConcatProperties
<1>7. ASSUME NEW i \in 1 .. m + n PROVE (p \o q)[i] = r[i]
  <2>1. CASE i <= m
    BY <1>2, <1>4, <1>5, <1>6, <2>1
  <2>2. CASE ~(i <= m)
    <3>1. i - m \in 1 .. n /\ m + (i - m) = i
      BY <1>5, <2>2
    <3>2. q[i - m] = Value(c, i)
      BY <1>3, <3>1
    <3>3. QED BY <1>4, <1>6, <2>2, <3>2
  <2>3. QED BY <2>1, <2>2
<1>8. p \o q = r
  BY <1>4, <1>6, <1>7, SeqEqual
<1>9. QED BY <1>8 DEF m, p, q, r

\* A batch stages its values behind those of its column.
LEMMA AcceptGood ==
    ASSUME Types, NEW c \in Cols, NEW n \in Nat \ {0}, NEW bytes \in Nat, NEW x \in Writers,
           accepted[c] + n <= MaxRows,
           Good(x, accepted), Placed(x), x.header, x.group
    PROVE  LET z == Accept(x, c, n, bytes)
               a == [accepted EXCEPT ![c] = @ + n]
           IN  /\ z \in Writers /\ Good(z, a) /\ Placed(z) /\ z.group
               /\ z.footer = x.footer
<1> DEFINE z == Accept(x, c, n, bytes)
           a == [accepted EXCEPT ![c] = @ + n]
           st == [x.staged EXCEPT ![c] = x.staged[c] \o NewValues(c, n)]
           va == [x.values EXCEPT ![c] = x.values[c] + n]
           wr == [x.written EXCEPT ![c] = x.written[c] + n]
           ro == IF n > x.rows THEN n ELSE x.rows
           es == SaturatingAdd(x.est, bytes)
<1>1. /\ z \in Writers
      /\ z = [x EXCEPT !.staged = st, !.values = va, !.written = wr, !.rows = ro, !.est = es]
  <2>1. n \in Nat
    OBVIOUS
  <2>2. z \in Writers /\ z = AcceptedInto(x, c, n, bytes)
    BY <2>1, AcceptFrame
  <2>3. QED BY <2>2 DEF AcceptedInto
<1>2. /\ x.staged \in [Cols -> Seq(Cell)] /\ x.values \in [Cols -> Nat]
      /\ x.written \in [Cols -> Nat] /\ x.rows \in Nat
  BY DEF Writers
<1>3. NewValues(c, n) \in Seq(Cell) /\ Len(NewValues(c, n)) = n
  BY NewValuesType
<1>4. \A d \in Cols : /\ st[d] = IF d = c THEN x.staged[c] \o NewValues(c, n) ELSE x.staged[d]
                      /\ va[d] = IF d = c THEN x.values[c] + n ELSE x.values[d]
                      /\ wr[d] = IF d = c THEN x.written[c] + n ELSE x.written[d]
  BY <1>2
<1>5. ro \in Nat \ {0}
  BY <1>2
<1> HIDE DEF z, st, va, wr, ro, es
<1>6. /\ z.staged = st /\ z.values = va /\ z.written = wr /\ z.rows = ro
      /\ z.header = x.header /\ z.offset = x.offset /\ z.out = x.out
      /\ z.group = x.group /\ z.base = x.base /\ z.buffer = x.buffer
      /\ z.footer = x.footer /\ z.total = x.total
  BY <1>1 DEF Writers
<1>7. Tidy(x) /\ Located(x) /\ Kept(x, accepted) /\ Summed(x)
  BY DEF Good
<1>8. Tidy(z)
  <2>1. ASSUME NEW d \in Cols PROVE wr[d] = Len(st[d]) /\ va[d] = Len(st[d])
    <3>1. x.written[d] = Len(x.staged[d]) /\ x.values[d] = Len(x.staged[d])
      BY <1>7 DEF Tidy
    <3>2. CASE d = c
      <4>1. x.staged[c] \in Seq(Cell)
        BY <1>2
      <4>2. Len(x.staged[c] \o NewValues(c, n)) = Len(x.staged[c]) + n
        <5> DEFINE p == x.staged[c]
                   q == NewValues(c, n)
        <5>1. p \in Seq(Cell) /\ q \in Seq(Cell) /\ Len(q) = n
          BY <1>3, <4>1
        <5> HIDE DEF p, q
        <5>2. Len(p \o q) = Len(p) + Len(q)
          BY <5>1, ConcatProperties
        <5>3. QED BY <5>1, <5>2 DEF p, q
      <4>3. QED BY <1>4, <3>1, <3>2, <4>2
    <3>3. CASE d # c
      BY <1>4, <3>1, <3>3
    <3>4. QED BY <3>2, <3>3
  <2>2. QED BY <1>5, <1>6, <1>7, <2>1 DEF Tidy
<1>9. Located(z) /\ \A d \in Cols : DecodedIn(z, d) = DecodedIn(x, d)
  BY <1>6, <1>7 DEF Located, DecodedIn, Pieces
<1>10. Kept(z, a)
  <2>1. ASSUME NEW d \in Cols
        PROVE  DecodedIn(z, d) \o z.staged[d] = [i \in 1 .. a[d] |-> Value(d, i)]
    <3>1. DecodedIn(x, d) \o x.staged[d] = UpToValue(d, accepted[d])
      BY <1>7 DEF Kept, UpToValue
    <3>2. accepted \in [Cols -> 0 .. MaxRows]
      BY DEF Types
    <3>3. CASE d = c
      <4> DEFINE p == DecodedIn(x, c)
                 q == x.staged[c]
                 r == NewValues(c, n)
      <4>1. p \in Seq(Cell) /\ q \in Seq(Cell) /\ r \in Seq(Cell)
        BY <1>2, <1>3, <1>7, PiecesType
      <4> HIDE DEF p, q, r
      <4>2. (p \o q) \o r = p \o (q \o r)
        BY <4>1, ConcatAssociative
      <4>3. (p \o q) \o r = UpToValue(c, accepted[c] + n)
        BY <3>1, <3>3, ValuesExtended DEF p, q, r
      <4>4. z.staged[d] = q \o r /\ DecodedIn(z, d) = p
        BY <1>4, <1>6, <1>9, <3>3 DEF p, q, r
      <4>5. a[d] = accepted[c] + n
        BY <3>2, <3>3
      <4>6. QED BY <3>3, <4>2, <4>3, <4>4, <4>5 DEF UpToValue
    <3>4. CASE d # c
      <4>1. z.staged[d] = x.staged[d] /\ a[d] = accepted[d]
        BY <1>4, <1>6, <3>2, <3>4
      <4>2. QED BY <1>9, <3>1, <4>1 DEF UpToValue
    <3>5. QED BY <3>3, <3>4
  <2>2. QED BY <2>1 DEF Kept
<1>11. Summed(z)
  BY <1>6, <1>7 DEF Summed, GroupRows
<1>12. Placed(z)
  BY <1>6 DEF Placed
<1>13. QED BY <1>1, <1>6, <1>8, <1>9, <1>10, <1>11, <1>12 DEF Good, z

\* A flush that returned CARQUET_OK, with or without a row group to write.
LEMMA FlushGood ==
    ASSUME NEW x \in Writers, NEW a, Good(x, a), Placed(x),
           NEW o \in FlushRowGroup(x), o.ok
    PROVE  /\ o.w \in Writers /\ Good(o.w, a) /\ Placed(o.w) /\ o.w.header = x.header
           /\ \A c \in Cols : o.w.staged[c] = <<>>
<1>1. CASE ~HasRows(x)
  <2>1. o.w = x
    BY <1>1, FlushOutcomes
  <2>2. x.rows = 0
    BY <1>1 DEF HasRows, Good, Tidy, Writers
  <2>3. QED BY <2>1, <2>2 DEF Good, Tidy
<1>2. CASE HasRows(x)
  <2>1. \A c \in Cols : x.buffer[c] = <<>>
    BY DEF Good, Tidy
  <2>2. o.w \in Writers /\ Flushed(x, o.w)
    BY <1>2, <2>1, FlushFrame
  <2>3. Good(o.w, a) /\ Placed(o.w)
    BY <1>2, <2>2, FlushedGood DEF HasRows
  <2>4. QED BY <2>2, <2>3 DEF Flushed
<1>3. QED BY <1>1, <1>2

\* The footer closes the file behind everything else.
LEMMA FinishedGood ==
    ASSUME NEW x \in Writers, NEW a, Good(x, a), x.header,
           \A c \in Cols : x.staged[c] = <<>>
    PROVE  Good(Finished(x), a) /\ Ended(Finished(x))
<1> DEFINE z == Finished(x)
<1>1. z = [x EXCEPT !.out = Append(x.out, Footer)] /\ z \in Writers
  BY WriteFooterOutcomes DEF Finished
<1> HIDE DEF z
<1>2. /\ z.out = Append(x.out, Footer)
      /\ z.header = x.header /\ z.offset = x.offset
      /\ z.group = x.group /\ z.base = x.base /\ z.rows = x.rows /\ z.written = x.written
      /\ z.staged = x.staged /\ z.buffer = x.buffer /\ z.values = x.values
      /\ z.footer = x.footer /\ z.total = x.total
  BY <1>1 DEF Writers
<1>3. x.out \in Seq(Cell) /\ Footer \in Cell
  BY Cells DEF Writers
<1>4. Tidy(x) /\ Located(x) /\ Kept(x, a) /\ Summed(x)
  BY DEF Good
<1>5. x.out # <<>> /\ x.out[1] = Magic
  BY <1>4 DEF Tidy
<1> HIDE DEF Footer, Magic, Cell
<1>6. z.out # <<>> /\ z.out[1] = Magic /\ z.out[Len(z.out)] = Footer
      /\ z.out = x.out \o <<Footer>> /\ <<Footer>> \in Seq(Cell)
  <2>1. Len(x.out) # 0
    BY <1>3, <1>5, EmptySeq
  <2>2. 1 \in 1 .. Len(x.out)
    BY <1>3, <2>1
  <2>3. QED BY <1>2, <1>3, <1>5, <2>2, AppendProperties, AppendIsConcat
<1>7. Located(z) /\ \A c \in Cols : DecodedIn(z, c) = DecodedIn(x, c)
  BY <1>1, <1>2, <1>4, <1>6, OutputGrows
<1>8. Kept(z, a)
  BY <1>2, <1>4, <1>7 DEF Kept
<1>9. Summed(z)
  BY <1>2, <1>4 DEF Summed, GroupRows
<1>10. Tidy(z)
  BY <1>2, <1>4, <1>6 DEF Tidy
<1>11. Ended(z)
  BY <1>2, <1>6 DEF Ended
<1>12. QED BY <1>7, <1>8, <1>9, <1>10, <1>11 DEF Good, z

LEMMA IntactInit == Init => Intact
<1> SUFFICES ASSUME Init PROVE Intact
  OBVIOUS
<1>1. PICK dict \in [Cols -> BOOLEAN] : w = NewWriter(dict)
  BY DEF Init
<1>2. /\ w.out = <<>> /\ ~w.header /\ w.offset = 0 /\ ~w.group /\ w.base = 0 /\ w.rows = 0
      /\ w.written = [c \in Cols |-> 0] /\ w.staged = [c \in Cols |-> <<>>]
      /\ w.buffer = [c \in Cols |-> <<>>] /\ w.values = [c \in Cols |-> 0]
      /\ w.footer = <<>> /\ w.total = 0
  BY <1>1 DEF NewWriter
<1>3. Len(<<>>) = 0 /\ DOMAIN <<>> = {}
  OBVIOUS
<1>4. Tidy(w) /\ Located(w) /\ Placed(w)
  BY <1>2, <1>3 DEF Tidy, Located, Placed
<1>5. Kept(w, accepted)
  <2>1. ASSUME NEW c \in Cols
        PROVE  DecodedIn(w, c) \o w.staged[c] = [i \in 1 .. accepted[c] |-> Value(c, i)]
    <3>1. Pieces(w, c) = <<>>
      <4>1. Pieces(w, c) = [g \in {} |-> Piece(w.out, w.footer[g].chunks[c])]
        BY <1>2, <1>3 DEF Pieces
      <4>2. QED BY <4>1
    <3>2. DecodedIn(w, c) = <<>> /\ w.staged[c] = <<>> /\ accepted[c] = 0
      BY <1>2, <3>1, FlattenEmpty DEF DecodedIn, Init
    <3>3. <<>> \o <<>> = <<>>
      OBVIOUS
    <3>4. [i \in 1 .. 0 |-> Value(c, i)] = <<>>
      OBVIOUS
    <3>5. QED BY <3>2, <3>3, <3>4
  <2>2. QED BY <2>1 DEF Kept
<1>6. Summed(w)
  <2>1. GroupRows(w) = <<>>
    <3>1. GroupRows(w) = [g \in {} |-> w.footer[g].rows]
      BY <1>2, <1>3 DEF GroupRows
    <3>2. QED BY <3>1
  <2>2. QED BY <1>2, <2>1, SumAlongEmpty DEF Summed
<1>7. phase = "open"
  BY DEF Init
<1>8. QED BY <1>4, <1>5, <1>6, <1>7 DEF Intact, Good

\* The invariant speaks of the blocks, which no operation changes.
LEMMA FixedBlocks ==
    ASSUME blocks' = blocks
    PROVE  BlockOrder' = BlockOrder
BY DEF BlockOrder

LEMMA IntactStep == Types /\ Intact /\ [Next]_vars => Intact'
<1> SUFFICES ASSUME Types, Intact, [Next]_vars PROVE Intact'
  OBVIOUS
<1>b. blocks' = blocks /\ BlockOrder' = BlockOrder
  BY FixedBlocks DEF Next, vars, WriteBatch, NewRowGroup, Close, Abort, GetBuffer
<1>g. (Good(w, accepted))' = Good(w', accepted')
  BY <1>b DEF Good, Tidy, Located, HasBlocks, HasChunks, Kept, Summed, GroupRows,
              DecodedIn, Pieces, Piece
<1>p. (Placed(w))' = Placed(w') /\ (Ended(w))' = Ended(w')
  BY DEF Placed, Ended
<1>i. (Intact)' = (Sound' => /\ Good(w', accepted')
                             /\ phase' = "open" => Placed(w')
                             /\ phase' # "open" => Ended(w'))
  BY <1>g, <1>p DEF Intact
<1>s. SUFFICES ASSUME Sound'
               PROVE  /\ Good(w', accepted')
                      /\ phase' = "open" => Placed(w')
                      /\ phase' # "open" => Ended(w')
  BY <1>i
<1>w. w \in Writers
  BY DEF Types
<1>1. ASSUME NEW c \in Cols, NEW n \in 1 .. MaxBatch, NEW bytes \in {0, n, Int64Max - 1},
             WriteBatch(c, n, bytes)
      PROVE  Good(w', accepted') /\ Placed(w') /\ phase' = "open"
  <2>1. n \in Nat \ {0} /\ n \in Nat /\ bytes \in Nat /\ accepted[c] + n <= MaxRows
    BY <1>1 DEF WriteBatch
  <2>2. PICK o \in BatchSteps(c, n, bytes) :
            Returns(o) /\ accepted' = IF o.ok THEN [accepted EXCEPT ![c] = @ + n] ELSE accepted
    BY <1>1 DEF WriteBatch, BatchSteps
  <2>3. o \in Outcomes /\ (o.ok => o \in AutoFlush(Accept(Grouped(Headed(w)), c, n, bytes)))
    BY <2>1, <2>2, WriteBatchOutcomes
  <2>4. o.ok /\ w' = o.w /\ ~reported
    BY <1>s, <2>2, <2>3 DEF Sound, Returns, Types, Outcomes
  <2>5. phase = "open" /\ phase' = "open" /\ lost' = lost
    BY <1>1 DEF WriteBatch
  <2>6. Good(w, accepted) /\ Placed(w)
    BY <1>s, <2>4, <2>5 DEF Intact, Sound
  <2> DEFINE h == Headed(w)
             g == Grouped(h)
             a == [accepted EXCEPT ![c] = @ + n]
             z == Accept(g, c, n, bytes)
  <2>7. h \in Writers /\ Good(h, accepted) /\ Placed(h) /\ h.header
    BY <1>w, <2>6, HeadedGood, HeadedGrouped
  <2> HIDE DEF h
  <2>8. g \in Writers /\ Good(g, accepted) /\ Placed(g) /\ g.header /\ g.group
    BY <2>7, GroupedGood, HeadedGrouped
  <2> HIDE DEF g
  <2>9. z \in Writers /\ Good(z, a) /\ Placed(z)
    BY <2>1, <2>8, AcceptGood
  <2>10. o \in AutoFlush(z) /\ accepted' = a
    BY <2>2, <2>3, <2>4 DEF h, g
  <2> HIDE DEF z, a
  <2>11. CASE o.w = z
    BY <2>4, <2>5, <2>9, <2>10, <2>11
  <2>12. CASE o \in FlushRowGroup(z)
    BY <2>4, <2>5, <2>9, <2>10, <2>12, FlushGood
  <2>13. QED BY <2>4, <2>9, <2>10, <2>11, <2>12, AutoFlushOutcomes
<1>2. CASE NewRowGroup
  <2>1. PICK o \in Then(EnsureHeader(w), FlushRowGroup) : Returns(o)
    BY <1>2 DEF NewRowGroup
  <2>2. o \in Outcomes /\ (o.ok => o \in FlushRowGroup(Headed(w)))
    BY <2>1, NewRowGroupOutcomes
  <2>3. o.ok /\ w' = o.w /\ ~reported
    BY <1>s, <2>1, <2>2 DEF Sound, Returns, Types, Outcomes
  <2>4. phase = "open" /\ phase' = "open" /\ lost' = lost /\ accepted' = accepted
    BY <1>2 DEF NewRowGroup
  <2>5. Good(w, accepted) /\ Placed(w)
    BY <1>s, <2>3, <2>4 DEF Intact, Sound
  <2>6. /\ Headed(w) \in Writers /\ Good(Headed(w), accepted) /\ Placed(Headed(w))
    BY <1>w, <2>5, HeadedGood, HeadedGrouped
  <2>7. Good(o.w, accepted) /\ Placed(o.w)
    BY <2>2, <2>3, <2>6, FlushGood
  <2>8. QED BY <2>3, <2>4, <2>7
<1>3. CASE Close
  <2>1. PICK o \in Then(Then(EnsureHeader(w), FlushRowGroup), WriteFooter) :
           \/ Returns(o) /\ lost' = lost
           \/ lost' = TRUE
    BY <1>3 DEF Close
  <2>2. /\ o \in Outcomes
        /\ o.ok => \E p \in FlushRowGroup(Headed(w)) : p.ok /\ o.w = Finished(p.w)
    BY <2>1, CloseOutcomes
  <2>3. o.ok /\ w' = o.w /\ ~reported /\ lost' = lost
    BY <1>s, <2>1, <2>2 DEF Sound, Returns, Types, Outcomes
  <2>4. PICK p \in FlushRowGroup(Headed(w)) : p.ok /\ o.w = Finished(p.w)
    BY <2>2, <2>3
  <2>5. phase = "open" /\ phase' = "closed" /\ accepted' = accepted
    BY <1>3 DEF Close
  <2>6. Good(w, accepted) /\ Placed(w)
    BY <1>s, <2>3, <2>5 DEF Intact, Sound
  <2>7. /\ Headed(w) \in Writers /\ Good(Headed(w), accepted) /\ Placed(Headed(w))
        /\ Headed(w).header
    BY <1>w, <2>6, HeadedGood, HeadedGrouped
  <2>8. /\ p.w \in Writers /\ Good(p.w, accepted) /\ p.w.header
        /\ \A c \in Cols : p.w.staged[c] = <<>>
    BY <2>4, <2>7, FlushGood
  <2>9. Good(o.w, accepted) /\ Ended(o.w)
    BY <2>4, <2>8, FinishedGood
  <2>10. QED BY <2>3, <2>5, <2>9
<1>4. CASE Abort
  BY <1>4, <1>s DEF Abort, Sound
<1>5. CASE GetBuffer
  <2>1. /\ w' = w /\ accepted' = accepted /\ phase = "closed" /\ phase' = "taken"
        /\ reported' = reported /\ lost' = lost
    BY <1>5 DEF GetBuffer
  <2>2. Good(w, accepted) /\ Ended(w)
    BY <1>s, <2>1 DEF Intact, Sound
  <2>3. QED BY <2>1, <2>2
<1>6. CASE UNCHANGED vars
  <2>1. /\ w' = w /\ accepted' = accepted /\ phase' = phase
        /\ reported' = reported /\ lost' = lost
    BY <1>6 DEF vars
  <2>2. Sound
    BY <1>s, <2>1 DEF Sound
  <2>3. QED BY <2>1, <2>2 DEF Intact
<1>7. QED BY <1>1, <1>2, <1>3, <1>4, <1>5, <1>6 DEF Next

LEMMA Invariant == Spec => [](Types /\ Intact)
BY TypesInit, TypesStep, IntactInit, IntactStep, PTL DEF Spec

\* Every value write_batch accepted is in a chunk the footer leads to or still
\* staged, once and in order, whatever was flushed when.
THEOREM EveryValueOnceHolds == Spec => []EveryValueOnce
<1>1. Types /\ Intact => EveryValueOnce
  <2> SUFFICES ASSUME Types, Intact, Sound, NEW c \in Cols
               PROVE  Decoded(c) \o w.buffer[c] \o w.staged[c]
                        = [i \in 1 .. accepted[c] |-> Value(c, i)]
    BY DEF EveryValueOnce
  <2>1. Tidy(w) /\ Located(w) /\ Kept(w, accepted)
    BY DEF Intact, Good
  <2>2. Decoded(c) = DecodedIn(w, c)
    BY DEF Decoded, DecodedIn, Pieces, Piece
  <2>3. DecodedIn(w, c) \in Seq(Cell) /\ w.buffer[c] = <<>>
    BY <2>1, PiecesType DEF Types, Tidy
  <2>4. Decoded(c) \o w.buffer[c] = DecodedIn(w, c)
    BY <2>2, <2>3, ConcatEmptySeq
  <2>5. QED BY <2>1, <2>4 DEF Kept
<1>2. QED BY Invariant, <1>1, PTL

\* bloom_filter_offset, column_index_offset and offset_index_offset lead to the
\* column's own block in every row group of every file.
THEOREM BlocksWhereRecordedHolds == Spec => []BlocksWhereRecorded
<1>1. Intact => BlocksWhereRecorded
  BY DEF Intact, Good, Located, HasBlocks, BlocksWhereRecorded
<1>2. QED BY Invariant, <1>1, PTL

\* file_offset, computed ahead of the writes, is the length of the file.
THEOREM OffsetIsLengthHolds == Spec => []OffsetIsLength
<1>1. Intact => OffsetIsLength
  BY DEF Intact, Placed, OffsetIsLength
<1>2. QED BY Invariant, <1>1, PTL

\* A file closed without an error starts with the magic, ends with the footer,
\* and the footer leads to every value that was accepted.
THEOREM ClosedFileIsWholeHolds == Spec => []ClosedFileIsWhole
<1>1. Types /\ Intact => ClosedFileIsWhole
  <2> SUFFICES ASSUME Types, Intact, Sound, phase \in {"closed", "taken"}
               PROVE  /\ w.out[1] = Magic /\ Last(w.out) = Footer
                      /\ \A c \in Cols :
                            Decoded(c) = [i \in 1 .. accepted[c] |-> Value(c, i)]
    BY DEF ClosedFileIsWhole
  <2>1. Tidy(w) /\ Located(w) /\ Kept(w, accepted) /\ Ended(w)
    BY DEF Intact, Good
  <2>2. w.out[1] = Magic /\ Last(w.out) = Footer
    BY <2>1 DEF Ended, Tidy, Last
  <2>3. ASSUME NEW c \in Cols
        PROVE  Decoded(c) = [i \in 1 .. accepted[c] |-> Value(c, i)]
    <3>1. Decoded(c) = DecodedIn(w, c)
      BY DEF Decoded, DecodedIn, Pieces, Piece
    <3>2. DecodedIn(w, c) \in Seq(Cell) /\ w.staged[c] = <<>>
      BY <2>1, PiecesType DEF Types, Ended
    <3>3. DecodedIn(w, c) \o w.staged[c] = DecodedIn(w, c)
      BY <3>2, ConcatEmptySeq
    <3>4. QED BY <2>1, <3>1, <3>3 DEF Kept
  <2>4. QED BY <2>2, <2>3
<1>2. QED BY Invariant, <1>1, PTL

-------------------------------------------------------------------------------
(* Callers that give a row group one batch per column.                     *)

\* The open group is as long as each of the columns written so far, an aligned
\* one is within the limit, and a group in the footer is a rectangle.
Aligning(x) ==
    /\ \A c \in Cols : x.written[c] \in {0, x.rows}
    /\ x.rows > 0 => \E c \in Cols : x.written[c] = x.rows
    /\ Aligned(x) => x.est <= Limit
Rectangles(x) ==
    \A g \in DOMAIN x.footer : \A c \in Cols :
        x.footer[g].chunks[c].size = x.footer[g].rows
Uniform == Sound => Aligning(w) /\ Rectangles(w)

\* The sum over the footer is the sum along its row counts.
FoldRows(f) == FoldSeq(LAMBDA g, n : g.rows + n, 0, f)
LEMMA FoldOfRows ==
    ASSUME NEW f
    PROVE  FoldRows(f) = SumAlong([g \in DOMAIN f |-> f[g].rows])
<1> DEFINE S == DOMAIN f
           r == [g \in S |-> f[g].rows]
           F(sum) == [s \in SUBSET S |-> IF s = {} THEN 0
                                         ELSE f[Some(s)].rows + sum[s \ {Some(s)}]]
           G(sum) == [s \in SUBSET S |-> IF s = {} THEN 0
                                         ELSE r[Some(s)] + sum[s \ {Some(s)}]]
<1>1. FoldRows(f) = (CHOOSE sum : sum = F(sum))[S]
  BY DEF FoldRows, FoldSeq, FoldFunction, FoldFunctionOnSet, MapThenFoldSet, Some
<1>2. ASSUME NEW sum PROVE F(sum) = G(sum)
  <2>1. \A s \in SUBSET S : s # {} => Some(s) \in S
    BY DEF Some
  <2>2. QED BY <2>1
<1>3. SumAlong(r) = (CHOOSE sum : sum = G(sum))[S]
  BY DEF SumAlong, SumOver, Summing, IsSumming
<1> HIDE DEF F, G, S, r
<1>4. \A sum : (sum = F(sum)) <=> (sum = G(sum))
  BY <1>2
<1>5. (CHOOSE sum : sum = F(sum)) = (CHOOSE sum : sum = G(sum))
  BY <1>4
<1>6. QED BY <1>1, <1>3, <1>5 DEF r, S

\* A flush of a group whose columns are all there adds a rectangle.
LEMMA FlushUniform ==
    ASSUME NEW x \in Writers, NEW a, Good(x, a), Placed(x),
           Rectangles(x), ~HasRows(x) => Aligning(x),
           \A c \in Cols : HasRows(x) => x.written[c] = x.rows,
           NEW o \in FlushRowGroup(x), o.ok
    PROVE  Aligning(o.w) /\ Rectangles(o.w)
<1>1. CASE ~HasRows(x)
  BY <1>1, FlushOutcomes
<1>2. CASE HasRows(x)
  <2> DEFINE z == o.w
             n == Len(x.footer)
             E == Entry(x)
  <2>1. \A c \in Cols : x.buffer[c] = <<>> /\ x.written[c] = Len(x.staged[c])
    BY DEF Good, Tidy
  <2>2. Flushed(x, z)
    BY <1>2, <2>1, FlushFrame
  <2>3. E \in Groups
    BY <1>2, EntryLocated DEF Good, HasRows
  <2>4. \A c \in Cols : E.chunks[c].size = E.rows
    BY <1>2, <2>1 DEF Entry
  <2>5. x.footer \in Seq(Groups) /\ z.footer = Append(x.footer, E)
    BY <2>2 DEF Writers, Flushed
  <2> HIDE DEF z, E
  <2>6. /\ n \in Nat /\ DOMAIN x.footer = 1 .. n /\ DOMAIN z.footer = 1 .. n + 1
        /\ z.footer[n + 1] = E /\ \A g \in 1 .. n : z.footer[g] = x.footer[g]
    BY <2>3, <2>5, AppendProperties
  <2>7. ASSUME NEW g \in DOMAIN z.footer, NEW c \in Cols
        PROVE  z.footer[g].chunks[c].size = z.footer[g].rows
    <3>1. g \in 1 .. n \/ g = n + 1
      BY <2>6
    <3>2. CASE g \in 1 .. n
      BY <2>6, <3>2 DEF Rectangles
    <3>3. CASE g = n + 1
      BY <2>4, <2>6, <3>3
    <3>4. QED BY <3>1, <3>2, <3>3
  <2>8. z.rows = 0 /\ \A c \in Cols : z.written[c] = 0
    BY <2>2 DEF Flushed
  <2>9. Aligning(z)
    BY <2>8 DEF Aligning, Aligned
  <2>10. QED BY <2>7, <2>9 DEF Rectangles, z
<1>3. QED BY <1>1, <1>2

LEMMA UniformFrame ==
    ASSUME NEW x, NEW z, Aligning(x), Rectangles(x), z.written = x.written,
           z.rows = x.rows, z.est = x.est, z.footer = x.footer
    PROVE  Aligning(z) /\ Rectangles(z)
BY DEF Aligning, Aligned, Rectangles

LEMMA UniformInit == Init => Uniform
<1> SUFFICES ASSUME Init PROVE Uniform
  OBVIOUS
<1>1. PICK dict \in [Cols -> BOOLEAN] : w = NewWriter(dict)
  BY DEF Init
<1>2. w.rows = 0 /\ w.written = [c \in Cols |-> 0] /\ w.footer = <<>>
  BY <1>1 DEF NewWriter
<1>3. DOMAIN <<>> = {}
  OBVIOUS
<1>4. QED BY <1>2, <1>3 DEF Uniform, Aligning, Aligned, Rectangles

LEMMA HeadedFrame ==
    ASSUME NEW x \in Writers
    PROVE  /\ Headed(x).written = x.written /\ Headed(x).rows = x.rows
           /\ Headed(x).est = x.est /\ Headed(x).footer = x.footer
           /\ Headed(x).group = x.group
BY DEF Headed, Writers

\* Columns of equal length are all as long as the row group.
LEMMA SameRowsAligned ==
    ASSUME NEW x \in Writers, Aligning(x),
           \A c, d \in Cols : x.written[c] = x.written[d]
    PROVE  \A c \in Cols : HasRows(x) => x.written[c] = x.rows
BY DEF Aligning, HasRows

\* Without failures: a batch, a row group asked for, the end of the file.
LEMMA UniformStep ==
    ASSUME ~SplitBatches
    PROVE  Types /\ Intact /\ Uniform /\ [Next]_vars => Uniform'
<1> SUFFICES ASSUME Types, Intact, Uniform, [Next]_vars, Sound'
             PROVE  Aligning(w') /\ Rectangles(w')
  <2>1. (Aligning(w))' = Aligning(w') /\ (Rectangles(w))' = Rectangles(w')
    BY DEF Aligning, Aligned, Rectangles
  <2>2. QED BY <2>1 DEF Uniform
<1>w. w \in Writers
  BY DEF Types
<1>1. ASSUME NEW c \in Cols, NEW n \in 1 .. MaxBatch, NEW bytes \in {0, n, Int64Max - 1},
             WriteBatch(c, n, bytes)
      PROVE  Aligning(w') /\ Rectangles(w')
  <2>1. n \in Nat \ {0} /\ n \in Nat /\ bytes \in Nat /\ accepted[c] + n <= MaxRows
    BY <1>1 DEF WriteBatch
  <2>2. PICK o \in BatchSteps(c, n, bytes) : Returns(o)
    BY <1>1 DEF WriteBatch, BatchSteps
  <2>3. o \in Outcomes /\ (o.ok => o \in AutoFlush(Accept(Grouped(Headed(w)), c, n, bytes)))
    BY <2>1, <2>2, WriteBatchOutcomes
  <2>4. o.ok /\ w' = o.w /\ ~reported
    BY <2>2, <2>3 DEF Sound, Returns, Types, Outcomes
  <2>5. phase = "open" /\ phase' = "open" /\ lost' = lost
    BY <1>1 DEF WriteBatch
  <2>6. Good(w, accepted) /\ Placed(w) /\ Aligning(w) /\ Rectangles(w)
    BY <2>4, <2>5 DEF Intact, Uniform, Sound
  <2>7. w.written[c] = 0 /\ \A d \in Cols : w.written[d] \in {0, n}
    BY <1>1 DEF WriteBatch
  <2> DEFINE h == Headed(w)
             g == Grouped(h)
             a == [accepted EXCEPT ![c] = @ + n]
             z == Accept(g, c, n, bytes)
  <2>8. /\ h \in Writers /\ Good(h, accepted) /\ Placed(h) /\ h.header
        /\ h.written = w.written /\ h.rows = w.rows /\ h.est = w.est /\ h.footer = w.footer
    BY <1>w, <2>6, HeadedGood, HeadedGrouped, HeadedFrame
  <2> HIDE DEF h
  <2>9. Aligning(h) /\ Rectangles(h)
    BY <2>6, <2>8, UniformFrame
  <2>10. g \in Writers /\ Good(g, accepted) /\ Placed(g) /\ g.header /\ g.group
    BY <2>8, GroupedGood, HeadedGrouped
  <2>11. /\ g.footer = h.footer /\ g.rows \in {0, n} /\ g.written[c] = 0
         /\ \A d \in Cols : g.written[d] \in {0, n}
         /\ \A d \in Cols : g.written[d] \in {0, g.rows}
    <3>1. CASE h.group
      <4>1. g = h
        BY <3>1 DEF Grouped
      <4>2. h.rows \in Nat
        BY <2>8 DEF Writers
      <4>3. h.rows \in {0, n}
        <5>1. CASE h.rows = 0
          BY <5>1
        <5>2. CASE h.rows > 0
          BY <2>7, <2>8, <2>9, <5>2 DEF Aligning
        <5>3. QED BY <4>2, <5>1, <5>2
      <4>4. QED BY <2>7, <2>8, <2>9, <4>1, <4>3 DEF Aligning
    <3>2. CASE ~h.group
      BY <2>8, <3>2 DEF Grouped, Writers
    <3>3. QED BY <3>1, <3>2
  <2> HIDE DEF g
  <2>12. z \in Writers /\ Good(z, a) /\ Placed(z) /\ z.group /\ z.footer = g.footer
    BY <2>1, <2>10, AcceptGood
  <2>13. /\ z.rows = n /\ z.written[c] = n
         /\ \A d \in Cols : z.written[d] \in {0, n}
    <3>1. z = AcceptedInto(g, c, n, bytes)
      BY <2>1, <2>10, AcceptFrame
    <3>2. /\ z.written = [g.written EXCEPT ![c] = g.written[c] + n]
          /\ z.rows = IF n > g.rows THEN n ELSE g.rows
      <4>1. DOMAIN g = DOMAIN h
        BY <2>8, <2>10 DEF Writers
      <4>2. QED BY <2>10, <3>1 DEF AcceptedInto, Writers
    <3>3. g.written \in [Cols -> Nat] /\ g.rows \in Nat
      BY <2>10 DEF Writers
    <3> HIDE DEF z
    <3>4. QED BY <2>1, <2>11, <3>2, <3>3
  <2>14. Rectangles(z)
    BY <2>9, <2>11, <2>12 DEF Rectangles
  <2>15. o \in AutoFlush(z)
    BY <2>3, <2>4 DEF h, g
  <2> HIDE DEF z, a
  <2>16. CASE ~(z.est > Limit /\ Aligned(z)) /\ o.w = z
    <3>1. z.est \in Nat /\ Limit \in Nat
      BY <2>12 DEF Writers
    <3>2. Aligned(z) => z.est <= Limit
      BY <2>16, <3>1
    <3>3. Aligning(z)
      BY <2>13, <3>2 DEF Aligning
    <3>4. QED BY <2>4, <2>14, <2>16, <3>3
  <2>17. CASE Aligned(z) /\ o \in FlushRowGroup(z)
    <3>1. \A d \in Cols : z.written[d] = z.rows
      BY <2>17 DEF Aligned
    <3>2. HasRows(z)
      BY <2>1, <2>12, <2>13 DEF HasRows
    <3>3. QED BY <2>4, <2>12, <2>14, <2>17, <3>1, <3>2, FlushUniform
  <2>18. QED BY <2>4, <2>12, <2>15, <2>16, <2>17, AutoFlushOutcomes
<1> DEFINE h == Headed(w)
<1>h. ASSUME Sound, phase = "open", SameRows
      PROVE  /\ h \in Writers /\ Good(h, accepted) /\ Placed(h)
             /\ \A o \in FlushRowGroup(h) : o.ok => Aligning(o.w) /\ Rectangles(o.w)
  <2>1. Good(w, accepted) /\ Placed(w) /\ Aligning(w) /\ Rectangles(w)
    BY <1>h DEF Intact, Uniform
  <2>2. /\ h \in Writers /\ Good(h, accepted) /\ Placed(h)
        /\ h.written = w.written /\ h.rows = w.rows /\ h.est = w.est /\ h.footer = w.footer
    BY <1>w, <2>1, HeadedGood, HeadedGrouped, HeadedFrame
  <2> HIDE DEF h
  <2>3. Aligning(h) /\ Rectangles(h)
    BY <2>1, <2>2, UniformFrame
  <2>4. \A c, d \in Cols : h.written[c] = h.written[d]
    BY <1>h, <2>2 DEF SameRows
  <2>5. \A c \in Cols : HasRows(h) => h.written[c] = h.rows
    BY <2>2, <2>3, <2>4, SameRowsAligned
  <2>6. QED BY <2>2, <2>3, <2>5, FlushUniform
<1> HIDE DEF h
<1>2. CASE NewRowGroup
  <2>1. PICK o \in Then(EnsureHeader(w), FlushRowGroup) : Returns(o)
    BY <1>2 DEF NewRowGroup
  <2>2. o \in Outcomes /\ (o.ok => o \in FlushRowGroup(h))
    BY <2>1, NewRowGroupOutcomes DEF h
  <2>3. o.ok /\ w' = o.w /\ ~reported
    BY <2>1, <2>2 DEF Sound, Returns, Types, Outcomes
  <2>4. phase = "open" /\ phase' = "open" /\ lost' = lost /\ SameRows
    BY <1>2 DEF NewRowGroup
  <2>5. Sound
    BY <2>3, <2>4 DEF Sound
  <2>6. QED BY <1>h, <2>2, <2>3, <2>4, <2>5
<1>3. CASE Close
  <2>1. PICK o \in Then(Then(EnsureHeader(w), FlushRowGroup), WriteFooter) :
           \/ Returns(o) /\ lost' = lost
           \/ lost' = TRUE
    BY <1>3 DEF Close
  <2>2. /\ o \in Outcomes
        /\ o.ok => \E p \in FlushRowGroup(h) : p.ok /\ o.w = Finished(p.w)
    BY <2>1, CloseOutcomes DEF h
  <2>3. o.ok /\ w' = o.w /\ ~reported /\ lost' = lost
    BY <2>1, <2>2 DEF Sound, Returns, Types, Outcomes
  <2>4. PICK p \in FlushRowGroup(h) : p.ok /\ o.w = Finished(p.w)
    BY <2>2, <2>3
  <2>5. phase = "open" /\ SameRows
    BY <1>3 DEF Close
  <2>6. Sound
    BY <2>3, <2>5 DEF Sound
  <2>7. Aligning(p.w) /\ Rectangles(p.w) /\ p.w \in Writers
    <3>1. p \in Outcomes
      BY <1>h, <2>4, <2>5, <2>6, FlushOutcomes
    <3>2. QED BY <1>h, <2>4, <2>5, <2>6, <3>1 DEF Outcomes
  <2>8. /\ o.w.written = p.w.written /\ o.w.rows = p.w.rows
        /\ o.w.est = p.w.est /\ o.w.footer = p.w.footer
    BY <2>4, <2>7 DEF Finished, Writers
  <2>9. Aligning(o.w) /\ Rectangles(o.w)
    BY <2>7, <2>8, UniformFrame
  <2>10. QED BY <2>3, <2>9
<1>4. CASE Abort
  BY <1>4 DEF Abort, Sound
<1>5. CASE GetBuffer
  BY <1>5 DEF GetBuffer, Uniform, Sound
<1>6. CASE UNCHANGED vars
  BY <1>6 DEF vars, Uniform, Sound
<1>7. QED BY <1>1, <1>2, <1>3, <1>4, <1>5, <1>6 DEF Next

LEMMA UniformInvariant ==
    ASSUME ~SplitBatches
    PROVE  Spec => [](Types /\ Intact /\ Uniform)
<1>1. Types /\ Intact /\ Uniform /\ [Next]_vars => Uniform'
  BY UniformStep
<1>2. QED BY TypesInit, TypesStep, IntactInit, IntactStep, UniformInit, <1>1, PTL DEF Spec

\* Between two rounds of batches the open group is within row_group_size.
THEOREM AlignedGroupWithinLimitHolds ==
    ASSUME ~SplitBatches
    PROVE  Spec => []AlignedGroupWithinLimit
<1>1. Types /\ Uniform => AlignedGroupWithinLimit
  <2> SUFFICES ASSUME Types, Aligning(w), SameRows, w.written[1] > 0
               PROVE  w.est <= Limit
    BY DEF AlignedGroupWithinLimit, Uniform
  <2>1. 1 \in Cols
    BY DEF Cols
  <2>2. w.rows > 0 /\ \A c \in Cols : w.written[c] = w.rows
    <3>1. w.written \in [Cols -> Nat] /\ w.rows \in Nat
      BY DEF Types, Writers
    <3>2. \A c \in Cols : w.written[c] \in {0, w.rows} /\ w.written[c] = w.written[1]
      BY <2>1 DEF Aligning, SameRows
    <3>3. w.written[1] = w.rows /\ w.rows > 0
      BY <2>1, <3>1, <3>2
    <3>4. QED BY <3>2, <3>3
  <2>3. QED BY <2>2 DEF Aligning, Aligned
<1>2. QED BY UniformInvariant, <1>1, PTL

\* num_rows of every row group is the number of values of each of its chunks,
\* and num_rows of the file is their sum.
THEOREM GroupsAreRectangularHolds ==
    ASSUME ~SplitBatches
    PROVE  Spec => []GroupsAreRectangular
<1>1. Types /\ Intact /\ Uniform => GroupsAreRectangular
  <2> SUFFICES ASSUME Types, Good(w, accepted), Rectangles(w)
               PROVE  /\ \A g \in DOMAIN w.footer : \A c \in Cols :
                            /\ w.footer[g].chunks[c].values = w.footer[g].rows
                            /\ w.footer[g].chunks[c].size = w.footer[g].rows
                      /\ w.total = FoldRows(w.footer)
    BY DEF GroupsAreRectangular, Uniform, Intact, FoldRows
  <2>1. \A g \in DOMAIN w.footer : \A c \in Cols :
            w.footer[g].chunks[c].values = w.footer[g].chunks[c].size
    BY DEF Good, Located, HasChunks
  <2>2. w.total = FoldRows(w.footer)
    BY FoldOfRows DEF Good, Summed, GroupRows
  <2>3. QED BY <2>1, <2>2 DEF Rectangles
<1>2. QED BY UniformInvariant, <1>1, PTL
===============================================================================
