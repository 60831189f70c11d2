-------------------------------- MODULE Snappy --------------------------------
(***************************************************************************)
(* compression/snappy.c: a block of bytes as literals and copies of what   *)
(* was produced before.                                                    *)
(*                                                                         *)
(* A compressed block is a head, the bytes of the length it announces, and *)
(* a sequence of elements: [lit |-> bytes] or [off |-> distance, len |->   *)
(* length]; how many bytes an element's own header takes is left out.  An  *)
(* element cut short is [cut |-> TRUE].                                    *)
(***************************************************************************)
EXTENDS DeltaEncoding

CONSTANTS Hash(_),      \* snappy_hash of the bytes at a position: any function
          Load,         \* bytes a match is found by: 4 (load32)
          Margin,       \* bytes at the end that are not searched: 15
          Start,        \* positions tried one by one at the start: 16
          SkipStep,     \* failed positions before the search speeds up: 32
          CopyMax,      \* longest copy element: 64
          CopyRest,     \* what a copy just longer than that is split by: 60
          SnappyBlock,  \* SNAPPY_BLOCK_SIZE
          OffsetMax     \* SNAPPY_MAX_OFFSET

ASSUME SnappyAssumption ==
    /\ Load \in Nat \ {0} /\ Margin >= Load /\ SkipStep \in Nat \ {0} /\ Start \in Nat
    /\ CopyRest < CopyMax /\ SnappyBlock \in Nat \ {0} /\ OffsetMax < SnappyBlock

Least(a, b) == IF a <= b THEN a ELSE b
IsLiteral(e) == "lit" \in DOMAIN e
IsCopy(e) == "off" \in DOMAIN e

-------------------------------------------------------------------------------
(* Compression of a block.  Positions count from 0.  c.table is hash_table *)
(* where it has been written, 0 elsewhere.                                 *)

At(src, pos) == SubSeq(src, pos + 1, pos + Load)
Slot(c, h) == IF h \in DOMAIN c.table THEN c.table[h] ELSE 0
Stored(c, h, pos) == (h :> pos) @@ c.table

\* snappy_emit_literal, snappy_emit_copy
Literal(src, from, to) == IF from < to THEN << [lit |-> SubSeq(src, from + 1, to)] >> ELSE <<>>
Copy(offset, len) ==
    LET long  == IF len >= CopyMax + 4 THEN (len - 4) \div CopyMax ELSE 0
        rest  == len - long * CopyMax
        full  == [i \in 1 .. long |-> [off |-> offset, len |-> CopyMax]]
    IN  IF rest > CopyMax
        THEN full \o << [off |-> offset, len |-> CopyRest],
                        [off |-> offset, len |-> rest - CopyRest] >>
        ELSE full \o << [off |-> offset, len |-> rest] >>

\* fast_match_length, from the first byte on
MatchLength(src, p, q) ==
    LET differ == {k \in 0 .. Len(src) - p - 1 : src[p + k + 1] # src[q + k + 1]}
    IN  IF differ = {} THEN Len(src) - p ELSE CHOOSE k \in differ : \A j \in differ : k <= j

Limit(src) == Len(src) - Margin
Matches(src, p, q) == At(src, p) = At(src, q)
Remainder(src, c) == [c EXCEPT !.out = @ \o Literal(src, c.anchor, Len(src)), !.mode = "done"]

\* The first positions are tried one by one, when there are enough of them.
TryStart(src, c) ==
    LET h == Hash(At(src, c.ip))
        q == Slot(c, h)
        d == [c EXCEPT !.table = Stored(c, h, c.ip), !.tries = @ - 1]
    IN  IF Matches(src, c.ip, q)
        THEN [d EXCEPT !.out = Literal(src, c.anchor, c.ip), !.mode = "match", !.candidate = q]
        ELSE [d EXCEPT !.ip = @ + 1, !.mode = IF c.tries = 1 THEN "search" ELSE @]

\* The search, ever faster while nothing matches.
TrySearch(src, c) ==
    LET h    == Hash(At(src, c.ip))
        q    == Slot(c, h)
        next == c.ip + c.skip \div SkipStep
        d    == [c EXCEPT !.table = Stored(c, h, c.ip), !.skip = @ + @ \div SkipStep]
    IN  IF next > Limit(src) THEN Remainder(src, c)
        ELSE IF Matches(src, c.ip, q)
        THEN [d EXCEPT !.out = @ \o Literal(src, c.anchor, c.ip), !.mode = "match",
                       !.candidate = q]
        ELSE [d EXCEPT !.ip = next]

\* A match is copied; the next may begin where it ends.
TakeMatch(src, c) ==
    LET len  == MatchLength(src, c.ip, c.candidate)
        end  == c.ip + len
        d    == [c EXCEPT !.out = @ \o Copy(c.ip - c.candidate, len), !.ip = end,
                          !.anchor = end, !.skip = SkipStep]
        seen == Stored(d, Hash(At(src, end - 1)), end - 1)
        h    == Hash(At(src, end))
        e    == [d EXCEPT !.table = (h :> end) @@ seen]
        q    == Slot([d EXCEPT !.table = seen], h)
    IN  IF end >= Limit(src) THEN Remainder(src, d)
        ELSE IF Matches(src, end, q) /\ end - q <= OffsetMax
        THEN [e EXCEPT !.candidate = q]
        ELSE [e EXCEPT !.ip = @ + 1, !.mode = "search"]

CompressStep(src, c) ==
    CASE c.mode = "start"  -> TryStart(src, c)
      [] c.mode = "search" -> TrySearch(src, c)
      [] c.mode = "match"  -> TakeMatch(src, c)
      [] c.mode = "done"   -> c

\* snappy_compress_block; every two steps advance by a byte at least.
CompressBlock(src) ==
    LET start == [ip |-> 1, anchor |-> 0, table |-> (Hash(At(src, 0)) :> 0), out |-> <<>>,
                  candidate |-> 0, skip |-> SkipStep, tries |-> Start,
                  mode |-> IF Limit(src) - 1 >= Start THEN "start" ELSE "search"]
    IN  IF Len(src) < Margin THEN Literal(src, 0, Len(src))
        ELSE FoldLeft(LAMBDA c, i : CompressStep(src, c), start,
                      [i \in 1 .. 2 * Len(src) |-> i]).out

-------------------------------------------------------------------------------
(* The announced length, a uint32_t as a varint.  The last byte that it    *)
(* may have has room only for the bits that are left.                      *)

LastByte == CeilDiv(IntBits, ByteBits - 1)
LengthEnds(head) ==
    {k \in 1 .. Least(LastByte, Len(head)) :
       head[k] < IF k < LastByte THEN More ELSE 2^(IntBits - (LastByte - 1) * (ByteBits - 1))}
Announced(head) == VarintValue(head, 0, Min(LengthEnds(head)))

\* carquet_snappy_compress
BlockOf(src, b) ==
    SubSeq(src, (b - 1) * SnappyBlock + 1, Least(b * SnappyBlock, Len(src)))
Compress(src) ==
    [head |-> Varint(Len(src)),
     elements |-> FlattenSeq([b \in 1 .. (Len(src) + SnappyBlock - 1) \div SnappyBlock |->
                                CompressBlock(BlockOf(src, b))])]

-------------------------------------------------------------------------------
(* carquet_snappy_decompress: no more is produced than announced, a copy   *)
(* reads what is there, and at the end both sides have come out even.  No  *)
(* input at all is no bytes, and no error.                                 *)

\* incremental_copy: a copy may overlap what it produces.  CopiedAtOnce would
\* take the bytes before they are there.
CopiedAtOnce(out, e) ==
    [i \in 1 .. e.len |-> IF i <= e.off THEN out[Len(out) - e.off + i] ELSE 0]
Copied(out, e) == [i \in 1 .. e.len |-> out[Len(out) - e.off + ((i - 1) % e.off) + 1]]
Expand(d, e, length) ==
    IF ~d.ok THEN d
    ELSE IF Len(d.out) = length THEN [d EXCEPT !.ok = FALSE]   \* input left over
    ELSE IF IsLiteral(e) /\ Len(d.out) + Len(e.lit) <= length
    THEN [d EXCEPT !.out = @ \o e.lit]
    ELSE IF /\ IsCopy(e) /\ Len(d.out) + e.len <= length
            /\ e.off \in 1 .. Len(d.out)
    THEN [d EXCEPT !.out = @ \o Copied(@, e)]
    ELSE [d EXCEPT !.ok = FALSE]
ExpandAll(elements, length) ==
    FoldLeft(LAMBDA acc, e : Expand(acc, e, length), [ok |-> TRUE, out |-> <<>>], elements)
NoOutput == [ok |-> FALSE, out |-> <<>>]
EvenOrShort(d, length) == d   \* the comparison at the end left out
Even(d, length) == IF d.ok /\ Len(d.out) = length THEN d ELSE NoOutput
Decompress(z, capacity) ==
    IF z.head = <<>> THEN [ok |-> TRUE, out |-> <<>>]
    ELSE IF LengthEnds(z.head) = {} \/ Announced(z.head) > capacity THEN NoOutput
    ELSE Even(ExpandAll(z.elements, Announced(z.head)), Announced(z.head))
===============================================================================
