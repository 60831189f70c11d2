------------------------------ MODULE BitPacking ------------------------------
(***************************************************************************)
(* core/bitpack.c: numbers of a few bits packed into bytes, low bits       *)
(* first, in groups of as many numbers as a byte has bits; the levels of   *)
(* old writers, packed high bits first; and the stream of single bits with *)
(* its reader and writer.                                                  *)
(*                                                                         *)
(* A byte is a number below 2^ByteBits, a sequence of bits has its lowest  *)
(* bit first.                                                              *)
(***************************************************************************)
EXTENDS Integers, Sequences, FiniteSets, SequencesExt

CONSTANTS ByteBits,   \* bits of a byte: 8
          BufferBytes \* bytes of the bit stream's buffer: 8

ASSUME BitPackingAssumption ==
    /\ ByteBits \in Nat \ {0, 1} /\ BufferBytes \in Nat \ {0, 1}

CeilDiv(a, b) == (a + b - 1) \div b
ToBits(v, width) == [i \in 1 .. width |-> (v \div 2^(i - 1)) % 2]
FromBits(bits) == FoldLeft(LAMBDA n, i : n + bits[i] * 2^(i - 1), 0, [i \in DOMAIN bits |-> i])
BytesOf(bits) ==
    [k \in 1 .. CeilDiv(Len(bits), ByteBits) |->
       FromBits(SubSeq(bits, (k - 1) * ByteBits + 1,
                       IF k * ByteBits < Len(bits) THEN k * ByteBits ELSE Len(bits)))]
BitsOf(bytes) == FlattenSeq([k \in DOMAIN bytes |-> ToBits(bytes[k], ByteBits)])

\* carquet_packed_size
PackedSize(count, width) == CeilDiv(count * width, ByteBits)

\* carquet_bitpack8_32: a group of numbers, of which the low bits count.
PackGroup(group, width) ==
    BytesOf(FlattenSeq([i \in DOMAIN group |-> ToBits(group[i], width)]))
GroupAt(values, g) ==
    SubSeq(values, (g - 1) * ByteBits + 1,
           IF g * ByteBits < Len(values) THEN g * ByteBits ELSE Len(values))
Groups(count) == CeilDiv(count, ByteBits)

\* carquet_bitpack_32: the last group may be short.
BitPack(values, width) ==
    FlattenSeq([g \in 1 .. Groups(Len(values)) |-> PackGroup(GroupAt(values, g), width)])

\* carquet_bitunpack_32: a group takes width bytes, a short one is padded with
\* zero bytes before it is unpacked like the others.
Zeroes(n) == [i \in 1 .. n |-> 0]
UnpackGroup(bytes, width) ==
    [i \in 1 .. ByteBits |-> FromBits(SubSeq(BitsOf(bytes), (i - 1) * width + 1, i * width))]
BitUnpack(bytes, count, width) ==
    LET padded == bytes \o Zeroes(width)
        group(g) == UnpackGroup(SubSeq(padded, (g - 1) * width + 1, g * width), width)
        all == FlattenSeq([g \in 1 .. Groups(count) |-> group(g)])
    IN  IF width = 0 THEN Zeroes(count) ELSE SubSeq(all, 1, count)

-------------------------------------------------------------------------------
(* carquet_decode_bitpacked_levels: high bits first, across bytes.         *)

HighFirst(bytes) ==
    FlattenSeq([k \in DOMAIN bytes |-> Reverse(ToBits(bytes[k], ByteBits))])
BitpackedLevels(bytes, width, count) ==
    IF PackedSize(count, width) > Len(bytes) THEN [ok |-> FALSE, levels |-> <<>>]
    ELSE [ok |-> TRUE,
          levels |-> [i \in 1 .. count |->
                        FromBits(Reverse(SubSeq(HighFirst(bytes), (i - 1) * width + 1,
                                                i * width)))]]

-------------------------------------------------------------------------------
(* The bit stream.  The buffer is a word: bits shifted past its end are    *)
(* lost.  It is emptied when less than a byte of it is free.               *)

BufferBits == BufferBytes * ByteBits
NewWriter == [data |-> <<>>, buffer |-> <<>>, count |-> 0]

\* flush_buffer: whole bytes leave; count is buffer_bits, also of lost bits.
\* The caller's memory is taken to be large enough.
FlushBuffer(w) ==
    LET whole == w.count \div ByteBits
        bits  == w.buffer \o Zeroes(w.count - Len(w.buffer))
    IN  [data |-> w.data \o BytesOf(SubSeq(bits, 1, whole * ByteBits)),
         buffer |-> SubSeq(bits, whole * ByteBits + 1, w.count),
         count |-> w.count % ByteBits]
Within(bits) == SubSeq(bits, 1, IF Len(bits) > BufferBits THEN BufferBits ELSE Len(bits))

\* carquet_bit_writer_write_bits, also for one bit.
WriteBits(w, value, width) ==
    LET full == [w EXCEPT !.buffer = Within(@ \o ToBits(value, width)), !.count = @ + width]
    IN  IF full.count >= BufferBits - ByteBits THEN FlushBuffer(full) ELSE full

\* carquet_bit_writer_flush
FinishBits(w) ==
    LET f == FlushBuffer(w)
    IN  IF f.count > 0 THEN f.data \o BytesOf(f.buffer) ELSE f.data

\* carquet_bit_reader: refilled with whole bytes while a byte fits.
NewReader(bytes) == [rest |-> bytes, buffer |-> <<>>]
Refill(r) ==
    LET room == (BufferBits - Len(r.buffer)) \div ByteBits
        n    == IF room < Len(r.rest) THEN room ELSE Len(r.rest)
    IN  [rest |-> SubSeq(r.rest, n + 1, Len(r.rest)),
         buffer |-> r.buffer \o BitsOf(SubSeq(r.rest, 1, n))]
ReadBits(r, width) ==
    LET f == IF Len(r.buffer) < width THEN Refill(r) ELSE r
    IN  [value |-> FromBits(SubSeq(f.buffer, 1, width)),
         r |-> [f EXCEPT !.buffer = SubSeq(@, width + 1, Len(@))]]

\* A sequence of numbers and widths, written one after the other and read back.
WrittenBits(items) ==
    FinishBits(FoldLeft(LAMBDA w, x : WriteBits(w, x.value, x.width), NewWriter, items))
ReadBack(bytes, items) ==
    FoldLeft(LAMBDA acc, x : [r |-> ReadBits(acc.r, x.width).r,
                              out |-> Append(acc.out, ReadBits(acc.r, x.width).value)],
             [r |-> NewReader(bytes), out |-> <<>>], items).out
===============================================================================
