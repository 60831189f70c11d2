------------------------------- MODULE RleHybrid -------------------------------
(***************************************************************************)
(* The RLE / bit-packing hybrid of encoding/rle.c, by which levels,        *)
(* dictionary indices and booleans are stored: the encoder that turns puts *)
(* into runs, and the decoder that serves gets, batches and skips from the *)
(* runs of any writer, cut short or not.                                   *)
(*                                                                         *)
(* A stream is a sequence of runs: a varint header and what of its data is *)
(* present.  An "rle" run of n repeats one value; a "packed" run of n has  *)
(* n groups; a run whose header is incomplete is "cut".                    *)
(***************************************************************************)
EXTENDS Integers, Sequences, FiniteSets, SequencesExt

CONSTANTS Values,     \* 0 .. 2^bit_width - 1
          Group,      \* values in a bit-packed group: 8
          LongestRun, \* what fits in a run's header: 2^31 - 1
          Streams,    \* streams of other writers to decode
          MaxValues,  \* bound: values put
          MaxRepeat   \* bound: count of put_repeat, get_batch and skip

\* What a stream can consist of: a run's value or groups are there as far as the
\* stream goes, and an empty run has none.
Runs ==
    {r \in [kind : {"rle"}, n : 0 .. LongestRun, data : Seq(Values)] :
        Len(r.data) <= 1 /\ Len(r.data) <= r.n}
    \cup {r \in [kind : {"packed"}, n : 0 .. LongestRun, data : Seq([1 .. Group -> Values])] :
            Len(r.data) <= r.n}
    \cup {[kind |-> "cut", n |-> 0, data |-> <<>>]}

ASSUME RleHybridAssumption ==
    /\ Values \subseteq Nat /\ 0 \in Values
    /\ Group \in Nat \ {0, 1}
    /\ Streams \subseteq Seq(Runs)
    /\ LongestRun \in Nat /\ MaxValues \in 0 .. LongestRun /\ MaxRepeat \in Nat

VARIABLES
    phase,   \* "encode" or "decode"
    enc,     \* the encoder: prev_value, repeat_count, has_prev, bitpack_buffer
    stream,  \* the buffer the encoder appends to and the decoder reads
    given,   \* history: the values put
    dec,     \* the decoder
    from,    \* history: values consumed before the last call
    result   \* history: what the last call did

vars == <<phase, enc, stream, given, dec, from, result>>

-------------------------------------------------------------------------------
(* Runs.                                                                   *)

Repeat(v, n) == [i \in 1 .. n |-> v]
RleRun(v, n) == [kind |-> "rle", n |-> n, data |-> <<v>>]
PackedRun(groups) == [kind |-> "packed", n |-> Len(groups), data |-> groups]

\* A header is there, but not all of the data it announces.
Incomplete(r) ==
    \/ r.kind = "cut"
    \/ r.kind = "rle" /\ r.n > 0 /\ r.data = <<>>
    \/ r.kind = "packed" /\ Len(r.data) < r.n

\* The Parquet format: the values a run stands for, and those of a stream up
\* to the first place where bytes are missing.
RunValues(r) ==
    CASE r.kind = "rle" /\ r.data # <<>> -> Repeat(r.data[1], r.n)
      [] r.kind = "packed"               -> FlattenSeq(r.data)
      [] OTHER                           -> <<>>
StreamValues(s) ==
    LET whole == SelectInSeq(s, Incomplete)
        upTo  == IF whole = 0 THEN Len(s) ELSE whole
    IN  FlattenSeq([i \in 1 .. upTo |-> RunValues(s[i])])
IsWhole(s) == \A i \in DOMAIN s : ~Incomplete(s[i])

-------------------------------------------------------------------------------
(* The encoder.                                                            *)

\* The runs of some values and one more value, which lengthens the last of them
\* or begins another.
WithNext(runs, v) ==
    IF runs # <<>> /\ runs[Len(runs)].data[1] = v
    THEN [runs EXCEPT ![Len(runs)] = RleRun(v, @.n + 1)]
    ELSE Append(runs, RleRun(v, 1))

\* flush_bitpack_as_rle: one run per stretch of equal values.
RunsOf(pack) ==
    LET runs[i \in 0 .. Len(pack)] == IF i = 0 THEN <<>> ELSE WithNext(runs[i - 1], pack[i])
    IN  runs[Len(pack)]

\* flush_bitpack: a partial group is never padded.
PackedOrRuns(pack) ==
    IF Len(pack) < Group THEN RunsOf(pack) ELSE << PackedRun(<<pack>>) >>

PackFullLate(pack) == Len(pack) > Group
PackFull(pack) == Len(pack) >= Group

\* The current run moves to the bit-pack buffer, which is flushed when full.
Buffered(e, s) ==
    LET all == e.pack \o Repeat(e.prev, e.count)
    IN  IF ~PackFull(all)
        THEN [enc |-> [e EXCEPT !.pack = all, !.count = 0], stream |-> s]
        ELSE [enc |-> [e EXCEPT !.pack = SubSeq(all, Group + 1, Len(all)), !.count = 0],
              stream |-> s \o PackedOrRuns(SubSeq(all, 1, Group))]

\* The current run is written, after what came before it.
RunBeforePack(e, s) ==
    [enc |-> [e EXCEPT !.pack = <<>>, !.count = 0],
     stream |-> Append(s, RleRun(e.prev, e.count)) \o PackedOrRuns(e.pack)]
RunWritten(e, s) ==
    [enc |-> [e EXCEPT !.pack = <<>>, !.count = 0],
     stream |-> Append(s \o PackedOrRuns(e.pack), RleRun(e.prev, e.count))]

RunEnds(e, s) == IF e.count >= Group THEN RunWritten(e, s) ELSE Buffered(e, s)

\* carquet_rle_encoder_put, and put_repeat, for n > 0 copies of v.
Extended(e, n) == [e EXCEPT !.count = @ + n]
Begun(e, v, n) == [e EXCEPT !.prev = v, !.count = n, !.has = TRUE]
EncodePut(v, n) ==
    /\ phase = "encode" /\ Len(given) + n <= MaxValues
    /\ given' = given \o Repeat(v, n)
    /\ IF ~enc.has
       THEN enc' = Begun(enc, v, n) /\ UNCHANGED stream
       ELSE IF v = enc.prev
       THEN enc' = Extended(enc, n) /\ UNCHANGED stream
       ELSE LET ended == RunEnds(enc, stream)
            IN  enc' = Begun(ended.enc, v, n) /\ stream' = ended.stream
    /\ UNCHANGED <<phase, dec, from, result>>

Put(v) == EncodePut(v, 1)
PutRepeat(v, n) == EncodePut(v, n)

\* carquet_rle_encoder_flush, after which the stream is read.
Flush ==
    LET ended == RunEnds(enc, stream)
    IN  /\ phase = "encode"
        /\ phase' = "decode"
        /\ stream' = IF enc.count = 0 THEN stream
                     ELSE ended.stream \o PackedOrRuns(ended.enc.pack)
        /\ enc' = IF enc.count = 0 THEN enc ELSE [ended.enc EXCEPT !.pack = <<>>]
        /\ UNCHANGED <<given, dec, from, result>>

-------------------------------------------------------------------------------
(* The decoder: at is the run that comes next in the stream, left is       *)
(* run_remaining, used is the number of groups taken from the current run. *)

Fresh == [at |-> 1, left |-> 0, used |-> 0, group |-> <<>>, ok |-> TRUE]
Bad(d) == [d EXCEPT !.ok = FALSE]

CurrentRun(d) == stream[d.at - 1]
InRleRun(d) == CurrentRun(d).kind = "rle"
HasNext(d) == d.ok /\ (d.left > 0 \/ d.at <= Len(stream))

Empty(r) == r.kind # "cut" /\ r.n = 0

\* start_new_run: pass empty runs, then begin the first that is not.
NextRun(d) ==
    LET begun == {i \in d.at .. Len(stream) : ~Empty(stream[i])}
        first == Min(begun)
        r     == stream[first]
        here  == [d EXCEPT !.at = first + 1, !.used = 0, !.group = <<>>]
    IN  IF begun = {} THEN [d EXCEPT !.at = Len(stream) + 1]
        ELSE IF r.kind = "cut" THEN Bad([d EXCEPT !.at = first])
        ELSE IF r.kind = "packed" THEN [here EXCEPT !.left = r.n * Group]
        ELSE IF r.data = <<>> THEN Bad([here EXCEPT !.left = r.n])
        ELSE [here EXCEPT !.left = r.n]
Started(d) == IF d.left <= 0 THEN NextRun(d) ELSE d

\* fill_bitpack_buffer
FilledSilently(d) ==
    IF d.group # <<>> THEN d
    ELSE IF d.used = Len(CurrentRun(d).data) THEN [d EXCEPT !.left = 0]
    ELSE [d EXCEPT !.group = CurrentRun(d).data[d.used + 1], !.used = @ + 1]
Filled(d) ==
    IF d.group # <<>> THEN d
    ELSE IF d.used = Len(CurrentRun(d).data) THEN Bad(d)
    ELSE [d EXCEPT !.group = CurrentRun(d).data[d.used + 1], !.used = @ + 1]

\* What the current run, or its current group, can still give.
Offered(d) == IF InRleRun(d) THEN Repeat(CurrentRun(d).data[1], d.left)
              ELSE SubSeq(d.group, 1, IF d.left < Len(d.group) THEN d.left ELSE Len(d.group))

TakenForgettingGroup(d, n) ==
    [d EXCEPT !.left = @ - n, !.group = IF InRleRun(d) THEN @ ELSE <<>>]

Taken(d, n) ==
    [d EXCEPT !.left = @ - n,
              !.group = IF InRleRun(d) THEN @ ELSE SubSeq(@, n + 1, Len(@))]

\* The loop of get_batch and skip: what is offered is taken, until n values are taken,
\* the stream ends or it turns out to be incomplete.
Smaller(a, b) == IF a <= b THEN a ELSE b
Begin(d) ==
    LET s == Started(d)
    IN  IF s.ok /\ s.left > 0 /\ ~InRleRun(s) THEN Filled(s) ELSE s
Round(t, n) ==
    LET b == Begin(t.d)
        m == Smaller(n - Len(t.out), Len(Offered(b)))
    IN  IF Len(t.out) = n \/ ~HasNext(t.d) THEN t
        ELSE IF ~b.ok \/ b.left = 0 THEN [t EXCEPT !.d = b]
        ELSE [d |-> Taken(b, m), out |-> t.out \o SubSeq(Offered(b), 1, m)]
Consume(d, n) ==
    LET turn[k \in 0 .. n] ==
            \* after at most k rounds of the loop
            IF k = 0 THEN [d |-> d, out |-> <<>>] ELSE Round(turn[k - 1], n)
    IN  turn[n]

Call(op, n, r) ==
    /\ phase = "decode"
    /\ dec' = r.d
    /\ from' = from + Len(result.out)
    /\ result' = [op |-> op, asked |-> n, out |-> r.out]
    /\ UNCHANGED <<phase, enc, stream, given>>

\* carquet_rle_decoder_get; a value it makes up (0) is not counted as taken.
Get == dec.ok /\ Call("get", 1, Consume(dec, 1))
GetBatch(n) == Call("batch", n, Consume(dec, n))
Skip(n) == Call("skip", n, Consume(dec, n))

(* The decoders of levels, which go over a stream in one sweep.            *)

\* carquet_rle_decode_levels: a run is stored as far as there is room, a
\* packed one group by group.
WithGroup(acc, group, max) ==
    IF Len(acc) >= max THEN acc
    ELSE acc \o SubSeq(group, 1, Smaller(Group, max - Len(acc)))
WholeRun(r, max, acc) == acc \o RunValues(r)
LevelsAfterRun(r, max, acc) ==
    LET after[g \in 0 .. Len(r.data)] ==
            IF g = 0 THEN acc ELSE WithGroup(after[g - 1], r.data[g], max)
    IN  IF r.kind = "rle" THEN acc \o Repeat(r.data[1], Smaller(r.n, max - Len(acc)))
        ELSE after[Len(r.data)]
WithRun(acc, r, max) ==
    IF Len(acc) >= max \/ r.n = 0 THEN acc ELSE LevelsAfterRun(r, max, acc)
DecodeLevels(s, max) ==
    LET swept[i \in 0 .. Len(s)] == IF i = 0 THEN <<>> ELSE WithRun(swept[i - 1], s[i], max)
    IN  swept[Len(s)]

\* carquet_rle_decode_to_bitmap: the places of the values present, how many
\* they are, and how many values there are.
Ones(levels) == {i \in DOMAIN levels : levels[i] = 1}
WithBits(acc, r, max) ==
    LET new == LevelsAfterRun(r, max - acc.count, <<>>)
    IN  IF acc.count >= max \/ r.n = 0 THEN acc
        ELSE [bits |-> acc.bits \cup {acc.count + i : i \in Ones(new)},
              present |-> acc.present + Cardinality(Ones(new)),
              count |-> acc.count + Len(new)]
DecodeToBitmap(s, max) ==
    LET swept[i \in 0 .. Len(s)] ==
            IF i = 0 THEN [bits |-> {}, present |-> 0, count |-> 0]
            ELSE WithBits(swept[i - 1], s[i], max)
    IN  swept[Len(s)]

-------------------------------------------------------------------------------
Nothing == [op |-> "none", asked |-> 0, out |-> <<>>]

Init ==
    /\ \/ phase = "encode" /\ stream = <<>> /\ given = <<>>
       \/ phase = "decode" /\ stream \in Streams /\ given = StreamValues(stream)
    /\ enc = [prev |-> 0, count |-> 0, has |-> FALSE, pack |-> <<>>]
    /\ dec = Fresh /\ from = 0 /\ result = Nothing

Next ==
    \/ \E v \in Values : Put(v)
    \/ \E v \in Values, n \in 2 .. MaxRepeat : PutRepeat(v, n)
    \/ Flush
    \/ Get
    \/ \E n \in 0 .. MaxRepeat : GetBatch(n) \/ Skip(n)

Spec == Init /\ [][Next]_vars

-------------------------------------------------------------------------------
(* Properties.                                                             *)

\* The encoder's and decoder's counters keep their types: the bit-pack buffer
\* of 8 values never overflows, and a run never gives more than it has.
TypeOK ==
    /\ phase \in {"encode", "decode"}
    /\ enc.prev \in Values /\ enc.count \in Nat /\ enc.has \in BOOLEAN
    /\ Len(enc.pack) < Group /\ \A i \in DOMAIN enc.pack : enc.pack[i] \in Values
    /\ dec.at \in 1 .. Len(stream) + 1 /\ dec.left \in Nat
    /\ dec.used \in Nat /\ Len(dec.group) <= Group /\ dec.ok \in BOOLEAN

\* At every point of the encoding the stream, the bit-pack buffer and the
\* current run are the values put, in order, and the stream is well formed:
\* runs are written in the order they began, and no group is padded
\* (rle.c, flush_bitpack: padding "corrupts the output").
EncodedIsGiven ==
    /\ StreamValues(stream) \o enc.pack \o Repeat(enc.prev, enc.count) = given
    /\ phase = "encode" => IsWhole(stream)

\* Whatever mix of get, get_batch and skip is called, on streams of any
\* writer, each call takes exactly the next values: skips count values, not
\* groups, and a group that was taken in part is continued.
DeliveredInOrder ==
    /\ from + Len(result.out) <= Len(given)
    /\ result.out = SubSeq(given, from + 1, from + Len(result.out))

\* A call that takes less than it was asked for has come to the end, and has
\* an error if and only if the stream is incomplete.
ShortMeansEnd ==
    Len(result.out) < result.asked =>
        /\ from + Len(result.out) = Len(given)
        /\ dec.ok <=> IsWhole(stream)

\* The two sweeping decoders agree with the run-by-run one, whichever run or
\* group the limit falls into: a nullable column read through levels or
\* through a bitmap has the same nulls.
LevelsAgree ==
    phase = "decode" /\ result = Nothing /\ IsWhole(stream) =>
        \A max \in 0 .. Len(given) + 1 :
            LET levels == SubSeq(given, 1, Smaller(max, Len(given)))
                ones   == Ones(levels)
            IN  /\ DecodeLevels(stream, max) = levels
                /\ DecodeToBitmap(stream, max) = [bits |-> ones, present |-> Cardinality(ones),
                                                  count |-> Len(levels)]
===============================================================================
