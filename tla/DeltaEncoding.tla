------------------------------ MODULE DeltaEncoding ------------------------------
(***************************************************************************)
(* DELTA_BINARY_PACKED (encoding/delta.c) and the two string encodings     *)
(* built on it (delta_length.c, delta_strings.c), byte by byte: varints,   *)
(* blocks of deltas less their minimum, mini-blocks of their own width.    *)
(*                                                                         *)
(* Numbers are computed in words of WordBits (int64_t); a column's values  *)
(* have IntBits or WordBits.  A decoding gives ok, the values and the      *)
(* number of bytes it consumed.                                            *)
(***************************************************************************)
EXTENDS BitPacking

CONSTANTS IntBits,      \* bits of an int32_t: 32
          WordBits,     \* bits of an int64_t: 64
          BlockSize,    \* DELTA_BLOCK_SIZE: 128
          MiniBlocks,   \* DELTA_MINI_BLOCKS: 4
          HeaderRoom,   \* bytes the page writer adds for headers: 512
          LengthsRoom   \* bytes the string encodings add: 100

ASSUME DeltaAssumption ==
    /\ IntBits % ByteBits = 0 /\ WordBits % ByteBits = 0 /\ IntBits < WordBits
    /\ BlockSize % MiniBlocks = 0 /\ (BlockSize \div MiniBlocks) % ByteBits = 0

MiniSize == BlockSize \div MiniBlocks
Unsigned(n) == n % 2^WordBits
Signed(n, bits) == ((n + 2^(bits - 1)) % 2^bits) - 2^(bits - 1)

Decoded(values, used) == [ok |-> TRUE, values |-> values, used |-> used]
DecodeError == [ok |-> FALSE, values |-> <<>>, used |-> 0]

-------------------------------------------------------------------------------
(* Varints: all bits of a byte but the highest, which says that more follow. *)

More == 2^(ByteBits - 1)
MaxVarint == CeilDiv(WordBits, ByteBits - 1)

\* write_uleb128
VarintLen(v) == CHOOSE k \in 1 .. MaxVarint : v < More^k /\ (k > 1 => v >= More^(k - 1))
Varint(v) ==
    [i \in 1 .. VarintLen(v) |->
       ((v \div More^(i - 1)) % More) + (IF i < VarintLen(v) THEN More ELSE 0)]

\* read_uleb128 from position pos on (0 is the first byte): value and next
\* position; not ok when no byte ends it.
VarintEnds(data, pos) == {k \in 1 .. MaxVarint : pos + k <= Len(data) /\ data[pos + k] < More}
VarintValue(data, pos, n) ==
    FoldLeft(LAMBDA v, i : v + (data[pos + i] % More) * More^(i - 1), 0, [i \in 1 .. n |-> i])
VarintOf(data, pos, ends) ==
    IF ends = {} THEN [ok |-> FALSE, value |-> 0, pos |-> pos]
    ELSE [ok |-> TRUE, value |-> Unsigned(VarintValue(data, pos, Min(ends))),
          pos |-> pos + Min(ends)]
ReadVarint(data, pos) == VarintOf(data, pos, VarintEnds(data, pos))

\* zigzag_encode64, zigzag_decode64
ZigZag(n) == IF n >= 0 THEN 2 * n ELSE -2 * n - 1
UnZigZag(u) == IF u % 2 = 0 THEN u \div 2 ELSE -(u \div 2) - 1

-------------------------------------------------------------------------------
(* The encoder.                                                            *)

\* bit_width_required
BitWidth(v) == CHOOSE w \in 0 .. WordBits : v < 2^w /\ (w > 0 => v >= 2^(w - 1))

\* Differences wrap at the word; int32 values are widened first.
Deltas(values) ==
    [i \in 1 .. Len(values) - 1 |-> Signed(values[i + 1] - values[i], WordBits)]

\* delta_encoder_flush_block
MiniBlockOf(block, m) ==
    SubSeq(block, (m - 1) * MiniSize + 1, Min({m * MiniSize, Len(block)}))
Adjusted(mini, least) == [i \in DOMAIN mini |-> Unsigned(mini[i] - least)]
WidthOf(adjusted) == BitWidth(Max(Range(adjusted) \cup {0}))
ByteAligned(v, width) == BytesOf(ToBits(v, CeilDiv(width, ByteBits) * ByteBits))
PackMini(adjusted, width) ==
    LET padded == adjusted \o Zeroes(MiniSize - Len(adjusted))
    IN  IF width <= IntBits THEN BitPack(padded, width)
        ELSE FlattenSeq([i \in DOMAIN padded |-> ByteAligned(padded[i], width)])
MiniBytes(width) ==
    IF width <= IntBits THEN (MiniSize * width) \div ByteBits
    ELSE MiniSize * CeilDiv(width, ByteBits)
BlockBytes(block, least) ==
    LET mini(m)  == Adjusted(MiniBlockOf(block, m), least)
        width(m) == WidthOf(mini(m))
    IN  Varint(ZigZag(least)) \o [m \in 1 .. MiniBlocks |-> width(m)]
        \o FlattenSeq([m \in 1 .. MiniBlocks |->
                         IF width(m) = 0 THEN <<>> ELSE PackMini(mini(m), width(m))])
BlockNeeds(block, least) ==
    MaxVarint + MiniBlocks
    + FoldLeft(LAMBDA n, m : n + MiniBytes(WidthOf(Adjusted(MiniBlockOf(block, m), least))),
               0, [m \in 1 .. MiniBlocks |-> m])

\* A block that may not fit is an error, though it might have.
FlushBlock(acc, block, capacity) ==
    LET least == Min(Range(block))
    IN  IF ~acc.ok \/ Len(acc.data) + BlockNeeds(block, least) > capacity
        THEN [acc EXCEPT !.ok = FALSE]
        ELSE [acc EXCEPT !.data = @ \o BlockBytes(block, least)]

\* carquet_delta_encode_int32 and _int64
DeltaHeader(values) ==
    Varint(BlockSize) \o Varint(MiniBlocks) \o Varint(Len(values))
    \o Varint(ZigZag(IF values = <<>> THEN 0 ELSE values[1]))
BlocksOf(deltas) ==
    [b \in 1 .. CeilDiv(Len(deltas), BlockSize) |->
       SubSeq(deltas, (b - 1) * BlockSize + 1, Min({b * BlockSize, Len(deltas)}))]
DeltaEncode(values, capacity) ==
    IF capacity < 4 * MaxVarint THEN [ok |-> FALSE, data |-> <<>>]
    ELSE FoldLeft(LAMBDA acc, block : FlushBlock(acc, block, capacity),
                  [ok |-> TRUE, data |-> DeltaHeader(values)],
                  BlocksOf(IF values = <<>> THEN <<>> ELSE Deltas(values)))

\* The room page_writer.c gives a column of the given width, and delta_length.c
\* and delta_strings.c their lengths.
PageRoom(count, bits) == count * (bits \div ByteBits) + count + HeaderRoom
RoomForLengths(count) == count * MaxVarint + LengthsRoom

-------------------------------------------------------------------------------
(* The decoder.                                                            *)

\* delta_decoder_init: four varints, one behind the other.
FourVarints(data, at) ==
    FoldLeft(LAMBDA vs, i : Append(vs, ReadVarint(data, IF i = 1 THEN at ELSE vs[i - 1].pos)),
             <<>>, <<1, 2, 3, 4>>)
HeaderOf(v) ==
    LET minis == v[2].value
        sound == /\ minis \in 1 .. MiniBlocks /\ v[1].value \in 1 .. BlockSize
                 /\ v[1].value \div minis <= MiniSize
    IN  IF (\A i \in 1 .. 4 : v[i].ok) /\ sound
        THEN [ok |-> TRUE, first |-> UnZigZag(v[4].value),
              minis |-> minis, size |-> v[1].value \div minis, pos |-> v[4].pos]
        ELSE [ok |-> FALSE]
ReadHeader(data, at) == HeaderOf(FourVarints(data, at))

\* delta_decoder_read_block and delta_decoder_read_mini_block: d.left holds the
\* widths of the mini-blocks still to come of this block.
BlockBegun(data, h, d, v) ==
    IF d.pos >= Len(data) \/ ~v.ok \/ v.pos + h.minis > Len(data)
    THEN [d EXCEPT !.ok = FALSE]
    ELSE [d EXCEPT !.least = UnZigZag(v.value), !.pos = v.pos + h.minis,
                   !.left = SubSeq(data, v.pos + 1, v.pos + h.minis)]
ReadBlock(data, h, d) == BlockBegun(data, h, d, ReadVarint(data, d.pos))
MiniSpan(size, width) ==
    IF width <= IntBits THEN PackedSize(size, width) ELSE size * CeilDiv(width, ByteBits)
Unpacked(bytes, size, width) ==
    IF width <= IntBits THEN BitUnpack(bytes, size, width)
    ELSE LET n == CeilDiv(width, ByteBits)
         IN  [i \in 1 .. size |-> FromBits(BitsOf(SubSeq(bytes, (i - 1) * n + 1, i * n)))]
ReadMini(data, h, d) ==
    LET width == d.left[1]
        span  == MiniSpan(h.size, width)
        raw   == Unpacked(SubSeq(data, d.pos + 1, d.pos + span), h.size, width)
    IN  IF width > WordBits \/ d.pos + span > Len(data) THEN [d EXCEPT !.ok = FALSE]
        ELSE [d EXCEPT !.left = Tail(@), !.pos = @ + span,
                       !.out = @ \o [i \in 1 .. h.size |-> Signed(d.least + raw[i], WordBits)]]
NextMini(data, h, d) ==
    LET begun(b) == IF b.ok THEN ReadMini(data, h, b) ELSE b
    IN  begun(IF d.ok /\ d.left = <<>> THEN ReadBlock(data, h, d) ELSE d)

\* carquet_dispatch_prefix_sum: each delta becomes a value.
PrefixSum(first, deltas, bits) ==
    FoldLeft(LAMBDA acc, x : Append(acc, Signed(acc[Len(acc)] + x, bits)), <<first>>, deltas)

\* carquet_delta_decode_int32 and _int64, of the data from position at on: as
\* many mini-blocks as count deltas need.
MiniBlocksRead(data, h, count) ==
    FoldLeft(LAMBDA d, m : NextMini(data, h, d),
             [ok |-> TRUE, pos |-> h.pos, left |-> <<>>, least |-> 0, out |-> <<>>],
             [m \in 1 .. CeilDiv(count - 1, h.size) |-> m])
Summed(h, d, at, count, bits) ==
    IF d.ok
    THEN Decoded(PrefixSum(Signed(h.first, bits), SubSeq(d.out, 1, count - 1), bits), d.pos - at)
    ELSE DecodeError
DecodeWith(h, data, at, count, bits) ==
    IF ~h.ok THEN DecodeError
    ELSE IF count = 0 THEN Decoded(<<>>, h.pos - at)
    ELSE Summed(h, MiniBlocksRead(data, h, count), at, count, bits)
DeltaDecode(data, at, count, bits) == DecodeWith(ReadHeader(data, at), data, at, count, bits)

-------------------------------------------------------------------------------
(* Strings, as sequences of bytes.                                         *)

TotalLength(lengths) == FoldLeft(LAMBDA n, x : n + x, 0, lengths)
Negative(lengths) == \E i \in DOMAIN lengths : lengths[i] < 0
Lengths(strings) == [i \in DOMAIN strings |-> Len(strings[i])]
EncodedLengths(lengths) == DeltaEncode(lengths, RoomForLengths(Len(lengths)))

\* carquet_delta_length_encode
DeltaLengthEncode(strings) ==
    LET lengths == EncodedLengths(Lengths(strings))
    IN  [ok |-> lengths.ok, data |-> lengths.data \o FlattenSeq(strings)]

\* carquet_delta_length_decode
Slices(data, at, lengths) ==
    LET start(i) == at + TotalLength(SubSeq(lengths, 1, i - 1))
    IN  [i \in DOMAIN lengths |-> SubSeq(data, start(i) + 1, start(i) + lengths[i])]
BehindLengths(data, l) ==
    IF ~l.ok \/ Negative(l.values) \/ l.used + TotalLength(l.values) > Len(data) THEN DecodeError
    ELSE Decoded(Slices(data, l.used, l.values), l.used + TotalLength(l.values))
DeltaLengthDecode(data, count) == BehindLengths(data, DeltaDecode(data, 0, count, IntBits))

\* carquet_delta_strings_encode: what a string shares with the one before it is
\* left out.
CommonPrefix(a, b) ==
    LET same == {k \in 0 .. Min({Len(a), Len(b)}) : SubSeq(a, 1, k) = SubSeq(b, 1, k)}
    IN  Max(same)
SharedPrefixes(strings) ==
    [i \in DOMAIN strings |-> IF i = 1 THEN 0 ELSE CommonPrefix(strings[i - 1], strings[i])]
DeltaStringsEncode(strings) ==
    LET shared   == SharedPrefixes(strings)
        rest     == [i \in DOMAIN strings |->
                       SubSeq(strings[i], shared[i] + 1, Len(strings[i]))]
        prefixes == EncodedLengths(shared)
        suffixes == EncodedLengths(Lengths(rest))
    IN  [ok |-> prefixes.ok /\ suffixes.ok,
         data |-> prefixes.data \o suffixes.data \o FlattenSeq(rest)]

\* carquet_delta_strings_decoded_size and carquet_delta_strings_decode: strings
\* are put together one behind the other in the work buffer of that size.
Joined(shared, rest) ==
    FoldLeft(LAMBDA acc, i :
               IF ~acc.ok \/ shared[i] > Len(acc.last) THEN [acc EXCEPT !.ok = FALSE]
               ELSE LET s == SubSeq(acc.last, 1, shared[i]) \o rest[i]
                    IN  [ok |-> TRUE, last |-> s, out |-> Append(acc.out, s)],
             [ok |-> TRUE, last |-> <<>>, out |-> <<>>], [i \in DOMAIN rest |-> i])
BehindSuffixes(data, p, s, at) ==
    LET joined(j) == IF j.ok THEN Decoded(j.out, at + TotalLength(s.values)) ELSE DecodeError
    IN  IF ~s.ok \/ Negative(p.values) \/ Negative(s.values)
           \/ at + TotalLength(s.values) > Len(data)
        THEN DecodeError
        ELSE joined(Joined(p.values, Slices(data, at, s.values)))
BehindPrefixes(data, p, count) ==
    LET behind(s) == BehindSuffixes(data, p, s, p.used + s.used)
    IN  IF p.ok THEN behind(DeltaDecode(data, p.used, count, IntBits)) ELSE DecodeError
DeltaStringsDecode(data, count) ==
    BehindPrefixes(data, DeltaDecode(data, 0, count, IntBits), count)
===============================================================================
