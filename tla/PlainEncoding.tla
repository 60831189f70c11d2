------------------------------ MODULE PlainEncoding ------------------------------
(***************************************************************************)
(* PLAIN (encoding/plain.c) and BYTE_STREAM_SPLIT (byte_stream_split.c)    *)
(* with the scalar kernels of simd/dispatch.c they call.                   *)
(*                                                                         *)
(* A number of a fixed width is a sequence of that many bytes, a byte      *)
(* array a sequence of any length.  A decoding gives ok, the values and    *)
(* the bytes it consumed.                                                  *)
(***************************************************************************)
EXTENDS BitPacking

CONSTANTS LengthBytes,  \* bytes of a length: 4
          Tile          \* values of a tile: BSS_TILE_FLOAT, BSS_TILE_DOUBLE

ASSUME PlainAssumption == LengthBytes \in Nat \ {0} /\ Tile \in Nat \ {0}

Got(values, used) == [ok |-> TRUE, values |-> values, used |-> used]
Refused == [ok |-> FALSE, values |-> <<>>, used |-> 0]

\* carquet_encode_plain_boolean: a number other than 0 is true; one bit each,
\* the last byte filled with zeros (scalar_pack_bools).
PlainBooleans(values) ==
    BytesOf([i \in DOMAIN values |-> IF values[i] # 0 THEN 1 ELSE 0])

\* carquet_decode_plain_boolean (scalar_unpack_bools)
DecodePlainBooleans(bytes, count) ==
    LET needed == CeilDiv(count, ByteBits)
    IN  IF Len(bytes) < needed THEN Refused
        ELSE Got([i \in 1 .. count |->
                    ToBits(bytes[(i - 1) \div ByteBits + 1], ByteBits)[((i - 1) % ByteBits) + 1]],
                 needed)

\* The numbers: copied, whatever their width.
PlainFixed(values) == FlattenSeq(values)
DecodePlainFixed(bytes, count, width) ==
    IF Len(bytes) < count * width THEN Refused
    ELSE Got([i \in 1 .. count |-> SubSeq(bytes, (i - 1) * width + 1, i * width)],
             count * width)

\* carquet_encode_plain_byte_array: behind its length each.
LittleEndian(n) == BytesOf(ToBits(n, LengthBytes * ByteBits))
PlainByteArrays(values) ==
    FlattenSeq([i \in DOMAIN values |-> LittleEndian(Len(values[i])) \o values[i]])

\* carquet_decode_plain_byte_array; the length is signed.
LengthAt(bytes, pos) ==
    LET n == FromBits(BitsOf(SubSeq(bytes, pos + 1, pos + LengthBytes)))
        half == 2^(LengthBytes * ByteBits - 1)
    IN  IF n < half THEN n ELSE n - 2 * half
NextByteArray(bytes, d) ==
    LET start == d.pos + LengthBytes
        len   == LengthAt(bytes, d.pos)
    IN  IF ~d.ok \/ start > Len(bytes) THEN [d EXCEPT !.ok = FALSE]
        ELSE IF len < 0 \/ start + len > Len(bytes) THEN [d EXCEPT !.ok = FALSE]
        ELSE [ok |-> TRUE, pos |-> start + len,
              values |-> Append(d.values, SubSeq(bytes, start + 1, start + len))]
DecodePlainByteArrays(bytes, count) ==
    LET d == FoldLeft(LAMBDA acc, i : NextByteArray(bytes, acc),
                      [ok |-> TRUE, pos |-> 0, values |-> <<>>], [i \in 1 .. count |-> i])
    IN  IF d.ok THEN Got(d.values, d.pos) ELSE Refused

-------------------------------------------------------------------------------

\* carquet_byte_stream_split_encode: the first byte of all values, then the
\* second.
ByteStreamSplit(values, width) ==
    [k \in 1 .. Len(values) * width |->
       values[((k - 1) % Len(values)) + 1][(k - 1) \div Len(values) + 1]]

\* The kernel: count values whose streams lie count bytes apart.
Joins(bytes, count, width) ==
    [i \in 1 .. count |-> [b \in 1 .. width |-> bytes[(b - 1) * count + i]]]

\* carquet_bss_decode_float_tiled: of many values the streams' next parts are
\* gathered in a tile, which the kernel takes for streams of its own.
TileAt(bytes, count, width, offset, n) ==
    FlattenSeq([b \in 1 .. width |->
                  SubSeq(bytes, (b - 1) * count + offset + 1, (b - 1) * count + offset + n)])
TileSize(count, t) == IF t * Tile <= count THEN Tile ELSE count - (t - 1) * Tile
JoinTiles(bytes, count, width) ==
    FlattenSeq([t \in 1 .. CeilDiv(count, Tile) |->
                  Joins(TileAt(bytes, count, width, (t - 1) * Tile, TileSize(count, t)),
                        TileSize(count, t), width)])
ByteStreamJoin(bytes, count, width) ==
    IF Len(bytes) < count * width THEN Refused
    ELSE Got(IF count <= Tile THEN Joins(bytes, count, width)
             ELSE JoinTiles(bytes, count, width),
             count * width)
===============================================================================
