--------------------------------- MODULE Codec ---------------------------------
(***************************************************************************)
(* The life of a stream of encoded values: an encoder writes it, storage   *)
(* may lose its end, a decoder is asked for the values.  Every encoding    *)
(* other than the run-length hybrid (RleHybrid), and Snappy.               *)
(***************************************************************************)
EXTENDS PlainEncoding, Snappy

CONSTANTS Jobs   \* what is to be encoded: [codec, width, input]

VARIABLES job,     \* the codec and its input
          stage,   \* "given", "encoded", "cut", "decoded" or "off"
          coded,   \* what the encoder produced, what is left of it
          lost,    \* whether storage lost the end
          answer   \* what the decoder produced
codecVars == <<job, stage, coded, lost, answer>>

Codecs == {"bitpack", "bits", "delta", "lengths", "prefixes",
           "booleans", "fixed", "arrays", "split", "snappy"}
SizeOf(j, data) ==
    IF j.codec = "snappy" THEN Len(data.head) + Len(data.elements) ELSE Len(data)
NoAnswer == [ok |-> FALSE, values |-> <<>>, used |-> 0]
Done(data) == [ok |-> TRUE, data |-> data]

\* What the encoder of a codec makes of its input.  The writer gives the delta
\* encoder room by the number of values, and takes an error for an answer.
EncodingOf(j) ==
    CASE j.codec = "bitpack"  -> Done(BitPack(j.input, j.width))
      [] j.codec = "bits"     -> Done(WrittenBits(j.input))
      [] j.codec = "delta"    -> DeltaEncode(j.input, PageRoom(Len(j.input), j.width))
      [] j.codec = "lengths"  -> DeltaLengthEncode(j.input)
      [] j.codec = "prefixes" -> DeltaStringsEncode(j.input)
      [] j.codec = "booleans" -> Done(PlainBooleans(j.input))
      [] j.codec = "fixed"    -> Done(PlainFixed(j.input))
      [] j.codec = "arrays"   -> Done(PlainByteArrays(j.input))
      [] j.codec = "split"    -> Done(ByteStreamSplit(j.input, j.width))
      [] j.codec = "snappy"   -> Done(Compress(j.input))

\* What its decoder makes of a stream, asked for as many values as there were.
\* decode_phase3_values asks the decoder of prefixes for nothing but values.
DecodingOf(j, data) ==
    LET count == Len(j.input)
    IN  CASE j.codec = "bitpack"  -> Got(BitUnpack(data, count, j.width), Len(data))
          [] j.codec = "bits"     -> Got(ReadBack(data, j.input), Len(data))
          [] j.codec = "delta"    -> DeltaDecode(data, 0, count, j.width)
          [] j.codec = "lengths"  -> DeltaLengthDecode(data, count)
          [] j.codec = "prefixes" -> IF count = 0 THEN Got(<<>>, 0)
                                     ELSE DeltaStringsDecode(data, count)
          [] j.codec = "booleans" -> DecodePlainBooleans(data, count)
          [] j.codec = "fixed"    -> DecodePlainFixed(data, count, j.width)
          [] j.codec = "arrays"   -> DecodePlainByteArrays(data, count)
          [] j.codec = "split"    -> ByteStreamJoin(data, count, j.width)
          [] j.codec = "snappy"   -> LET d == Decompress(data, count)
                                     IN  [ok |-> d.ok, values |-> d.out, used |-> SizeOf(j, data)]

\* The first n bytes; of a Snappy block the first n of the head's bytes and its
\* elements and, behind the head, a part of the next element or not.
CutOff(j, data, n) ==
    IF j.codec # "snappy" THEN {SubSeq(data, 1, n)}
    ELSE IF n < Len(data.head) THEN {[head |-> SubSeq(data.head, 1, n), elements |-> <<>>]}
    ELSE {[data EXCEPT !.elements = SubSeq(@, 1, n - Len(data.head)) \o part] :
            part \in {<<>>, << [cut |-> TRUE] >>}}

-------------------------------------------------------------------------------
CodecInit ==
    /\ job \in Jobs
    /\ stage = "given" /\ coded = <<>> /\ lost = FALSE /\ answer = NoAnswer

\* A page writer encodes the values it was given, or fails.
Encode ==
    /\ stage = "given"
    /\ \E e \in {EncodingOf(job)} :
          /\ stage' = IF e.ok THEN "encoded" ELSE "refused"
          /\ coded' = IF e.ok THEN e.data ELSE <<>>
    /\ UNCHANGED <<job, lost, answer>>

\* The end of the stream is lost: the file was cut, or announces less.  The
\* unpacking of bits alone trusts its caller to have enough.
LoseEnd ==
    /\ stage = "encoded" /\ job.codec \notin {"bitpack", "bits"}
    /\ \E n \in 0 .. SizeOf(job, coded) - 1 : coded' \in CutOff(job, coded, n)
    /\ stage' = "cut" /\ lost' = TRUE
    /\ UNCHANGED <<job, answer>>

\* A page reader decodes as many values as the page's header counts.
Decode ==
    /\ stage \in {"encoded", "cut"}
    /\ answer' = DecodingOf(job, coded)
    /\ stage' = "decoded"
    /\ UNCHANGED <<job, coded, lost>>

CodecNext == Encode \/ LoseEnd \/ Decode

-------------------------------------------------------------------------------
(* Properties.                                                             *)

\* The values a decoder is to give back: a boolean is 0 or 1, a number written
\* to the stream of bits loses its width.
Expected(j) ==
    CASE j.codec = "booleans" -> [i \in DOMAIN j.input |-> IF j.input[i] # 0 THEN 1 ELSE 0]
      [] j.codec = "bits"     -> [i \in DOMAIN j.input |-> j.input[i].value]
      [] j.codec \notin {"booleans", "bits"} -> j.input

\* Differences that do not fit a value: only they may make an encoding larger
\* than its column.
IsWide(j) ==
    LET deltas == Range(Deltas(j.input))
    IN  j.codec = "delta" /\ \E a, b \in deltas : Unsigned(a - b) >= 2^IntBits

\* The two streams that nobody looks at: strings with prefixes of which none is
\* asked for (page_reader.c:897), and a Snappy block without a byte.
IsUnread(j) == j.codec = "prefixes" /\ j.input = <<>>
IsNothing(j, data) == j.codec = "snappy" /\ SizeOf(j, data) = 0

\* Whatever was encoded is decoded to the same values, and to the last byte
\* (the string encodings find their bytes behind their lengths this way), but
\* where it is unread; nothing is refused but a column with differences wider
\* than its values.
EncodingsRoundTrip ==
    /\ stage = "decoded" /\ ~lost =>
          /\ answer.ok /\ answer.values = Expected(job)
          /\ ~IsUnread(job) => answer.used = SizeOf(job, coded)
    /\ stage = "refused" => IsWide(job)

\* A stream that lost its end is refused, wherever it was cut: in a varint, in
\* a header, in a block, in an element, or between two of them.  Only the two
\* streams that nobody looks at are not, and no value comes of them.
CutStreamsAreRefused ==
    stage = "decoded" /\ lost =>
        \/ ~answer.ok
        \/ (IsUnread(job) \/ IsNothing(job, coded)) /\ answer.values = <<>>
===============================================================================
