------------------------------ MODULE MCEncodings ------------------------------
(* The encodings for TLC: RleHybrid's machine, or Codec's for one job; bytes *)
(* of four bits, int32_t of eight, int64_t of sixteen, blocks of eight.      *)
EXTENDS MCRleHybrid, Codec

Seqs(S, n) == UNION {[1 .. k -> S] : k \in 0 .. n}
Some(codec, width, inputs) ==
    {[codec |-> codec, width |-> width, input |-> x] : x \in inputs}
Cycle(s, n) == [i \in 1 .. n |-> s[((i - 1) % Len(s)) + 1]]

Ints   == {-128, -1, 0, 1, 127}
Words  == {-32768, -1, 0, 1, 32767}
Longer(S) == {Cycle(<<a, b, c>>, n) : a, b, c \in S, n \in {9, 10, 18, 27}}
Strings == Seqs({0, 1}, 2)
Texts   == Seqs(Strings, 2) \cup {Cycle(<<a, b, c>>, n) : a, b, c \in Strings, n \in {3, 11}}
Items   == {[value |-> v % 2^w, width |-> w] : v \in {5, 31}, w \in 1 .. 5}
Blocks  == Seqs({0, 1}, 6) \cup {Cycle(s, n) : s \in [1 .. 4 -> {0, 1, 2}], n \in {11, 13, 17}}

SomeJobs ==
    UNION {Some("bitpack", w, Seqs({0, 2^w - 1}, 6)) : w \in 0 .. 5}
    \cup Some("bits", 0, Seqs(Items, 3) \cup {Cycle(<<a, b>>, 8) : a, b \in Items})
    \cup Some("delta", 8, Seqs(Ints, 3) \cup Longer(Ints))
    \cup Some("delta", 16, Seqs(Words, 3) \cup Longer(Words))
    \cup Some("lengths", 0, Texts) \cup Some("prefixes", 0, Texts) \cup Some("arrays", 0, Texts)
    \cup Some("booleans", 0, Seqs({0, 1, 3}, 5))
    \cup Some("fixed", 2, Seqs({<<0, 1>>, <<2, 3>>}, 3))
    \cup Some("split", 2, Seqs({<<0, 1>>, <<2, 3>>, <<1, 0>>}, 5))
    \cup Some("snappy", 0, Blocks)

\* Of three positions' bytes, two hash alike.
SomeHash(bytes) == (bytes[1] + 2 * bytes[Len(bytes)]) % 3

EitherInit ==
    \/ Init /\ job = "none" /\ stage = "off" /\ coded = <<>> /\ lost = FALSE /\ answer = NoAnswer
    \/ /\ CodecInit
       /\ phase = "decode" /\ stream = <<>> /\ given = <<>>
       /\ enc = [prev |-> 0, count |-> 0, has |-> FALSE, pack |-> <<>>]
       /\ dec = Fresh /\ from = 0 /\ result = Nothing
EitherNext ==
    \/ stage = "off" /\ Next /\ UNCHANGED codecVars
    \/ CodecNext /\ UNCHANGED vars
EitherSpec == EitherInit /\ [][EitherNext]_<<vars, codecVars>>
===============================================================================
