---------------------------- MODULE RleHybridProofs ----------------------------
(***************************************************************************)
(* Proofs about RleHybrid: whatever was put is in the stream, in order,    *)
(* and whatever is in a stream is delivered, in order, for any values, any *)
(* size of groups, any calls and any streams of other writers.             *)
(***************************************************************************)
EXTENDS RleHybrid, SequenceLemmas

-------------------------------------------------------------------------------
(* The invariant.                                                          *)

\* What the runs of a stream hold, and the last run that a reader of the
\* format reaches: the first that is incomplete, or the last of all.
RunsValues(s) == [i \in 1 .. Len(s) |-> RunValues(s[i])]
Incompletes(s) == {i \in 1 .. Len(s) : Incomplete(s[i])}
Stop(s) == IF Incompletes(s) = {} THEN Len(s) ELSE Min(Incompletes(s))

Groups == [1 .. Group -> Values]
Encoders == [prev : Values, count : Nat, has : BOOLEAN, pack : Seq(Values)]
Decoders == [at : Nat \ {0}, left : Nat, used : Nat, group : Seq(Values), ok : BOOLEAN]
Results == [op : {"none", "get", "batch", "skip"}, asked : Nat, out : Seq(Values)]

Types ==
    /\ phase \in {"encode", "decode"}
    /\ enc \in Encoders /\ stream \in Seq(Runs) /\ given \in Seq(Values)
    /\ dec \in Decoders /\ from \in Nat /\ result \in Results

\* The values x are those of the whole stream s, those in the bit-pack buffer
\* and those of the current run, in this order.
Holds(e, s, x) ==
    /\ e \in Encoders /\ Len(e.pack) < Group
    /\ s \in Seq(Runs) /\ IsWhole(s)
    /\ x = (FlattenSeq(RunsValues(s)) \o e.pack) \o Repeat(e.prev, e.count)

\* While there is a value in hand there is a current run.
Encoding ==
    /\ Holds(enc, stream, given) /\ Len(given) <= MaxValues
    /\ ~enc.has => enc.count = 0
    /\ enc.count = 0 => enc.pack = <<>>
    /\ dec = Fresh /\ from = 0 /\ result = Nothing

\* The number of values before the run after the first i.
Place(i) == Len(UpTo(RunsValues(stream), i))
Passed(i) == i <= Len(stream) /\ \A j \in 1 .. i : ~Incomplete(stream[j])

\* A decoder inside a run stands at p: in a packed run, used groups were taken
\* from it and what is left of the last of them is in hand.
InRle(d, r, p) ==
    /\ r.kind = "rle" /\ r.data # <<>> /\ d.left <= r.n
    /\ p = Place(d.at - 2) + (r.n - d.left)
InHand(d, r) == IF d.used = 0 THEN <<>>
                ELSE SubSeq(r.data[d.used], Group - Len(d.group) + 1, Group)
InPacked(d, r, p) ==
    /\ r.kind = "packed" /\ d.used <= Len(r.data) /\ Len(d.group) <= Group
    /\ d.group = InHand(d, r)
    /\ d.left = (r.n - d.used) * Group + Len(d.group)
    /\ p = Place(d.at - 2) + d.used * Group - Len(d.group)
Inside(d, p) ==
    /\ d.at \in 2 .. Len(stream) + 1 /\ Passed(d.at - 2)
    /\ InRle(d, stream[d.at - 1], p) \/ InPacked(d, stream[d.at - 1], p)
Between(d, p) == Passed(d.at - 1) /\ p = Place(d.at - 1)

\* The decoder d has taken the first p of the values given.
StandsAt(d, p) ==
    /\ p \in 0 .. Len(given)
    /\ ~d.ok => p = Len(given) /\ ~IsWhole(stream)
    /\ d.ok /\ d.left = 0 => Between(d, p)
    /\ d.ok /\ d.left > 0 => Inside(d, p)

Decoding ==
    /\ enc.count = 0 /\ enc.pack = <<>> /\ given = StreamValues(stream)
    /\ StandsAt(dec, from + Len(result.out))
    /\ DeliveredInOrder /\ ShortMeansEnd

HybridInv ==
    /\ Types
    /\ phase = "encode" => Encoding
    /\ phase = "decode" => Decoding

-------------------------------------------------------------------------------
(* Recursive functions: each is the sequence of its steps.                 *)

\* f begins with start, and each later value is made from the one before.
IsRunsOf(pack, n, f) ==
    f = [i \in 0 .. n |-> IF i = 0 THEN <<>> ELSE WithNext(f[i - 1], pack[i])]
RunsUpTo(pack) == CHOOSE f : IsRunsOf(pack, Len(pack), f)

LEMMA RunsUpToIs ==
    ASSUME NEW pack, Len(pack) \in Nat
    PROVE  /\ RunsOf(pack) = RunsUpTo(pack)[Len(pack)]
           /\ RunsUpTo(pack)[0] = <<>>
           /\ \A i \in 1 .. Len(pack) :
                  RunsUpTo(pack)[i] = WithNext(RunsUpTo(pack)[i - 1], pack[i])
<1> DEFINE T == {n \in Nat : \E f : IsRunsOf(pack, n, f)}
<1>1. 0 \in T
  <2>1. IsRunsOf(pack, 0, [i \in 0 .. 0 |-> <<>>])
    BY DEF IsRunsOf
  <2>2. QED BY <2>1
<1>2. ASSUME NEW n \in Nat, n \in T PROVE n + 1 \in T
  <2>1. PICK f : IsRunsOf(pack, n, f)
    BY <1>2
  <2> DEFINE next == WithNext(f[n], pack[n + 1])
             g == [i \in 0 .. n + 1 |-> IF i = n + 1 THEN next ELSE f[i]]
  <2>2. /\ \A i \in 0 .. n : f[i] = IF i = 0 THEN <<>> ELSE WithNext(f[i - 1], pack[i])
        /\ \A i \in 0 .. n : g[i] = f[i]
        /\ g[n + 1] = next
    BY <2>1 DEF IsRunsOf
  <2>3. ASSUME NEW i \in 0 .. n + 1
        PROVE  g[i] = IF i = 0 THEN <<>> ELSE WithNext(g[i - 1], pack[i])
    <3>1. CASE i = n + 1
      <4>1. i # 0 /\ i - 1 = n /\ g[i - 1] = f[n]
        BY <2>2, <3>1
      <4>2. QED BY <2>2, <3>1, <4>1
    <3>2. CASE i \in 1 .. n
      <4>1. i # 0 /\ i - 1 \in 0 .. n /\ i \in 0 .. n
        BY <3>2
      <4>2. g[i - 1] = f[i - 1] /\ g[i] = f[i]
        BY <2>2, <4>1
      <4>3. QED BY <2>2, <4>1, <4>2
    <3>3. CASE i = 0
      BY <2>2, <3>3
    <3>4. QED BY <3>1, <3>2, <3>3
  <2>4. IsRunsOf(pack, n + 1, g)
    <3>1. g = [i \in 0 .. n + 1 |-> g[i]]
      OBVIOUS
    <3> HIDE DEF g
    <3>2. QED BY <2>3, <3>1 DEF IsRunsOf
  <2>5. QED BY <2>4
<1>3. Len(pack) \in T
  <2> HIDE DEF T
  <2>1. QED BY <1>1, <1>2, Induction
<1>4. IsRunsOf(pack, Len(pack), RunsUpTo(pack))
  BY <1>3 DEF RunsUpTo
<1>5. RunsOf(pack) = RunsUpTo(pack)[Len(pack)]
  BY DEF RunsOf, RunsUpTo, IsRunsOf
<1> DEFINE f == RunsUpTo(pack)
<1> HIDE DEF f
<1>6. \A i \in 0 .. Len(pack) : f[i] = IF i = 0 THEN <<>> ELSE WithNext(f[i - 1], pack[i])
  BY <1>4 DEF IsRunsOf, f
<1>7. f[0] = <<>> /\ \A i \in 1 .. Len(pack) : f[i] = WithNext(f[i - 1], pack[i])
  BY <1>6
<1>8. QED BY <1>5, <1>7 DEF f

-------------------------------------------------------------------------------
(* Streams.                                                                *)

LEMMA Constants ==
    /\ Values \subseteq Nat /\ 0 \in Values /\ Group \in Nat /\ Group > 1
    /\ Streams \subseteq Seq(Runs) /\ LongestRun \in Nat
    /\ MaxValues \in Nat /\ MaxValues <= LongestRun /\ MaxRepeat \in Nat
BY RleHybridAssumption
LEMMA RepeatType ==
    ASSUME NEW v \in Values, NEW n \in Nat
    PROVE  /\ Repeat(v, n) \in Seq(Values) /\ Len(Repeat(v, n)) = n
           /\ \A i \in 1 .. n : Repeat(v, n)[i] = v
BY DEF Repeat

\* n and m copies are n + m copies.
LEMMA RepeatMore ==
    ASSUME NEW v \in Values, NEW n \in Nat, NEW m \in Nat
    PROVE  Repeat(v, n) \o Repeat(v, m) = Repeat(v, n + m)
<1> DEFINE a == Repeat(v, n)
           b == Repeat(v, m)
           c == Repeat(v, n + m)
<1>1. /\ a \in Seq(Values) /\ Len(a) = n /\ \A i \in 1 .. n : a[i] = v
      /\ b \in Seq(Values) /\ Len(b) = m /\ \A i \in 1 .. m : b[i] = v
      /\ c \in Seq(Values) /\ Len(c) = n + m /\ \A i \in 1 .. n + m : c[i] = v
  BY RepeatType
<1> HIDE DEF a, b, c
<1>2. /\ a \o b \in Seq(Values) /\ Len(a \o b) = n + m
      /\ \A i \in 1 .. n + m : (a \o b)[i] = IF i <= n THEN a[i] ELSE b[i - n]
  BY <1>1, ConcatProperties
<1>3. ASSUME NEW i \in 1 .. n + m PROVE (a \o b)[i] = c[i]
  <2>1. CASE i <= n
    BY <1>1, <1>2, <2>1
  <2>2. CASE ~(i <= n)
    <3>1. i - n \in 1 .. m
      BY <2>2
    <3>2. QED BY <1>1, <1>2, <2>2, <3>1
  <2>3. QED BY <2>1, <2>2
<1>4. a \o b = c
  BY <1>1, <1>2, <1>3, SeqEqual
<1>5. QED BY <1>4 DEF a, b, c

\* The kinds of runs, one at a time.
LEMMA KindsOfRuns ==
    ASSUME NEW r \in Runs
    PROVE  /\ r.n \in Nat /\ r.n <= LongestRun
           /\ r.kind \in {"rle", "packed", "cut"}
           /\ r.kind = "rle" => /\ r.data \in Seq(Values) /\ Len(r.data) <= 1
                                /\ Len(r.data) <= r.n
                                /\ r.data # <<>> => r.data[1] \in Values
           /\ r.kind = "packed" => r.data \in Seq(Groups) /\ Len(r.data) <= r.n
           /\ r.kind = "cut" => r.n = 0
<1>1. LongestRun \in Nat
  BY Constants
<1>2. CASE r.kind = "rle"
  <2>1. r \in [kind : {"rle"}, n : 0 .. LongestRun, data : Seq(Values)]
        /\ Len(r.data) <= 1 /\ Len(r.data) <= r.n
    BY <1>2 DEF Runs
  <2>2. r.data \in Seq(Values)
    BY <2>1
  <2>3. r.data # <<>> => r.data[1] \in Values
    BY <2>2
  <2>4. QED BY <1>1, <1>2, <2>1, <2>2, <2>3
<1>3. CASE r.kind = "packed"
  <2>1. r \in [kind : {"packed"}, n : 0 .. LongestRun, data : Seq(Groups)]
        /\ Len(r.data) <= r.n
    BY <1>3 DEF Runs, Groups
  <2>2. QED BY <1>1, <1>3, <2>1
<1>4. CASE r.kind \notin {"rle", "packed"}
  <2>1. r = [kind |-> "cut", n |-> 0, data |-> <<>>]
    BY <1>4 DEF Runs
  <2>2. QED BY <1>1, <2>1
<1>5. QED BY <1>2, <1>3, <1>4

LEMMA GroupsAreSequences ==
    Groups \subseteq Seq(Values) /\ \A g \in Groups : Len(g) = Group
BY Constants DEF Groups

\* Groups in a row take as many places as they are groups, times their size.
LEMMA GroupsInARow ==
    ASSUME NEW data \in Seq(Groups)
    PROVE  /\ data \in Seq(Seq(Values)) /\ FlattenSeq(data) \in Seq(Values)
           /\ \A k \in 0 .. Len(data) : UpTo(data, k) \in Seq(Values)
                                        /\ Len(UpTo(data, k)) = k * Group
           /\ Len(FlattenSeq(data)) = Len(data) * Group
<1>1. data \in Seq(Seq(Values)) /\ Len(data) \in Nat
  BY GroupsAreSequences
<1>2. /\ UpTo(data, 0) = <<>> /\ UpTo(data, Len(data)) = FlattenSeq(data)
      /\ \A k \in 0 .. Len(data) : UpTo(data, k) \in Seq(Values)
      /\ \A k \in 1 .. Len(data) : UpTo(data, k) = UpTo(data, k - 1) \o data[k]
  BY <1>1, FlattenUpTo
<1> DEFINE T == {k \in Nat : k <= Len(data) => Len(UpTo(data, k)) = k * Group}
<1>3. 0 \in T
  BY <1>2, Constants
<1>4. ASSUME NEW k \in Nat, k \in T PROVE k + 1 \in T
  <2> SUFFICES ASSUME k + 1 <= Len(data) PROVE Len(UpTo(data, k + 1)) = (k + 1) * Group
    OBVIOUS
  <2>1. k + 1 \in 1 .. Len(data) /\ k \in 0 .. Len(data) /\ (k + 1) - 1 = k
    BY <1>1
  <2>2. UpTo(data, k + 1) = UpTo(data, k) \o data[k + 1] /\ UpTo(data, k) \in Seq(Values)
    BY <1>2, <2>1
  <2>3. data[k + 1] \in Seq(Values) /\ Len(data[k + 1]) = Group
    BY <2>1, GroupsAreSequences
  <2>4. Len(UpTo(data, k + 1)) = Len(UpTo(data, k)) + Group
    BY <2>2, <2>3, ConcatProperties
  <2>5. k * Group + Group = (k + 1) * Group
    BY Constants
  <2>6. Len(UpTo(data, k)) = k * Group
    BY <1>4, <2>1
  <2>7. QED BY <2>4, <2>5, <2>6
<1>5. Nat \subseteq T
  <2> HIDE DEF T
  <2>1. QED BY <1>3, <1>4, Induction
<1>6. \A k \in 0 .. Len(data) : Len(UpTo(data, k)) = k * Group
  BY <1>1, <1>5
<1>7. Len(data) \in 0 .. Len(data)
  BY <1>1
<1>8. FlattenSeq(data) \in Seq(Values) /\ Len(FlattenSeq(data)) = Len(data) * Group
  BY <1>2, <1>6, <1>7
<1>9. QED BY <1>1, <1>2, <1>6, <1>8

LEMMA RunValuesType ==
    ASSUME NEW r \in Runs
    PROVE  /\ RunValues(r) \in Seq(Values)
           /\ r.kind = "rle" /\ r.data # <<>> =>
                 RunValues(r) = Repeat(r.data[1], r.n) /\ Len(RunValues(r)) = r.n
           /\ r.kind = "rle" /\ r.data = <<>> => RunValues(r) = <<>>
           /\ r.kind = "packed" =>
                 RunValues(r) = FlattenSeq(r.data) /\ Len(RunValues(r)) = Len(r.data) * Group
           /\ r.kind = "cut" => RunValues(r) = <<>>
<1>1. <<>> \in Seq(Values)
  OBVIOUS
<1>2. CASE r.kind = "rle" /\ r.data # <<>>
  BY <1>2, KindsOfRuns, RepeatType DEF RunValues
<1>3. CASE r.kind = "rle" /\ r.data = <<>>
  BY <1>1, <1>3 DEF RunValues
<1>4. CASE r.kind = "packed"
  BY <1>4, KindsOfRuns, GroupsInARow DEF RunValues
<1>5. CASE r.kind = "cut"
  BY <1>1, <1>5 DEF RunValues
<1>6. QED BY <1>2, <1>3, <1>4, <1>5, KindsOfRuns

LEMMA RunsValuesType ==
    ASSUME NEW s \in Seq(Runs)
    PROVE  /\ RunsValues(s) \in Seq(Seq(Values)) /\ Len(RunsValues(s)) = Len(s)
           /\ \A i \in 1 .. Len(s) : RunsValues(s)[i] = RunValues(s[i])
<1>1. \A i \in 1 .. Len(s) : RunValues(s[i]) \in Seq(Values)
  BY RunValuesType
<1>2. QED BY <1>1 DEF RunsValues

\* Where a reader of the format stops.
LEMMA StopIs ==
    ASSUME NEW s \in Seq(Runs)
    PROVE  /\ Stop(s) \in 0 .. Len(s)
           /\ \A i \in 1 .. Stop(s) - 1 : ~Incomplete(s[i])
           /\ IsWhole(s) => Stop(s) = Len(s)
           /\ ~IsWhole(s) => Stop(s) \in 1 .. Len(s) /\ Incomplete(s[Stop(s)])
<1>1. DOMAIN s = 1 .. Len(s) /\ Len(s) \in Nat
  OBVIOUS
<1> DEFINE I == Incompletes(s)
<1>2. I \subseteq 1 .. Len(s) /\ \A i \in 1 .. Len(s) : i \in I <=> Incomplete(s[i])
  BY DEF Incompletes
<1>3. IsWhole(s) <=> I = {}
  BY <1>1, <1>2 DEF IsWhole
<1> HIDE DEF I
<1>4. CASE I = {}
  BY <1>1, <1>2, <1>3, <1>4 DEF Stop, I
<1>5. CASE I # {}
  <2>1. PICK m \in I : \A i \in I : m <= i
    <3>1. I \subseteq Nat
      BY <1>2
    <3>2. QED BY <1>5, <3>1, LeastNatural
  <2>2. Min(I) \in I /\ \A i \in I : Min(I) <= i
    BY <2>1 DEF Min
  <2>3. Stop(s) = Min(I)
    BY <1>5 DEF Stop, I
  <2>4. PICK k \in 1 .. Len(s) : k = Stop(s) /\ Incomplete(s[k]) /\ \A i \in I : k <= i
    BY <1>2, <2>2, <2>3
  <2>5. k \in Nat /\ k - 1 < k
    OBVIOUS
  <2>6. \A i \in 1 .. k - 1 : ~Incomplete(s[i])
    <3>1. \A i \in 1 .. k - 1 : i \in 1 .. Len(s) /\ ~(k <= i)
      BY <2>5
    <3>2. QED BY <1>2, <2>4, <3>1
  <2>7. ~IsWhole(s)
    BY <1>3, <1>5
  <2>8. QED BY <2>4, <2>6, <2>7
<1>6. QED BY <1>4, <1>5

LEMMA StreamValuesIs ==
    ASSUME NEW s \in Seq(Runs)
    PROVE  /\ StreamValues(s) = UpTo(RunsValues(s), Stop(s))
           /\ StreamValues(s) \in Seq(Values)
           /\ IsWhole(s) => StreamValues(s) = FlattenSeq(RunsValues(s))
<1> DEFINE w == SelectInSeq(s, Incomplete)
           v == RunsValues(s)
<1>1. w = IF Incompletes(s) # {} THEN Min(Incompletes(s)) ELSE 0
  BY DEF SelectInSeq, Incompletes
<1>2. Incompletes(s) \subseteq 1 .. Len(s) /\ Len(s) \in Nat
  BY DEF Incompletes
<1>3. Stop(s) \in 0 .. Len(s) /\ (~IsWhole(s) => Stop(s) # 0) /\ (IsWhole(s) => Stop(s) = Len(s))
  BY StopIs
<1>4. IsWhole(s) <=> Incompletes(s) = {}
  BY DEF IsWhole, Incompletes
<1> HIDE DEF w
<1>5. (IF w = 0 THEN Len(s) ELSE w) = Stop(s)
  BY <1>1, <1>3, <1>4 DEF Stop
<1>6. StreamValues(s) = FlattenSeq([i \in 1 .. Stop(s) |-> RunValues(s[i])])
  BY <1>5 DEF StreamValues, w
<1>7. v \in Seq(Seq(Values)) /\ Len(v) = Len(s) /\ \A i \in 1 .. Len(s) : v[i] = RunValues(s[i])
  BY RunsValuesType
<1> HIDE DEF v
<1>8. [i \in 1 .. Stop(s) |-> RunValues(s[i])] = SubSeq(v, 1, Stop(s))
  <2>1. PICK k \in Nat : k = Stop(s) /\ k <= Len(s)
    BY <1>2, <1>3
  <2> DEFINE t == [i \in 1 .. k |-> RunValues(s[i])]
             u == SubSeq(v, 1, k)
  <2>2. /\ u \in Seq(Seq(Values)) /\ Len(u) = k /\ \A i \in 1 .. k : u[i] = v[i]
    <3>1. \A i \in 1 .. k : v[i] \in Seq(Values)
      BY <1>2, <1>7, <2>1
    <3>2. QED BY <3>1, <2>1, SubSeqProperties
  <2>3. /\ t \in Seq(Seq(Values)) /\ Len(t) = k /\ \A i \in 1 .. k : t[i] = v[i]
    <3>1. \A i \in 1 .. k : RunValues(s[i]) \in Seq(Values) /\ RunValues(s[i]) = v[i]
      BY <1>2, <1>7, <2>1
    <3>2. QED BY <3>1
  <2> HIDE DEF t, u
  <2>4. \A i \in 1 .. Len(t) : t[i] = u[i]
    BY <2>2, <2>3
  <2>5. t = u
    BY <2>2, <2>3, <2>4, SeqEqual
  <2>6. QED BY <2>1, <2>5 DEF t, u
<1>9. StreamValues(s) = UpTo(v, Stop(s))
  BY <1>6, <1>8 DEF UpTo
<1>10. UpTo(v, Stop(s)) \in Seq(Values) /\ UpTo(v, Len(v)) = FlattenSeq(v)
  BY <1>3, <1>7, FlattenUpTo
<1>11. QED BY <1>3, <1>7, <1>9, <1>10 DEF v

\* A whole stream of the values x.
Spells(s, x) == s \in Seq(Runs) /\ IsWhole(s) /\ FlattenSeq(RunsValues(s)) = x

LEMMA SpellsType ==
    ASSUME NEW s, NEW x, Spells(s, x)
    PROVE  x \in Seq(Values) /\ StreamValues(s) = x
BY StreamValuesIs DEF Spells

LEMMA SpellsNothing == Spells(<<>>, <<>>)
<1>1. <<>> \in Seq(Runs) /\ IsWhole(<<>>)
  BY DEF IsWhole
<1>2. RunsValues(<<>>) = <<>>
  BY DEF RunsValues
<1>3. QED BY <1>1, <1>2, FlattenEmpty DEF Spells

LEMMA SpellsBoth ==
    ASSUME NEW s, NEW t, NEW x, NEW y, Spells(s, x), Spells(t, y)
    PROVE  Spells(s \o t, x \o y)
<1>1. s \in Seq(Runs) /\ t \in Seq(Runs) /\ Len(s) \in Nat /\ Len(t) \in Nat
  BY DEF Spells
<1> DEFINE st == s \o t
           a == RunsValues(s)
           b == RunsValues(t)
           c == RunsValues(st)
<1>2. /\ st \in Seq(Runs) /\ Len(st) = Len(s) + Len(t)
      /\ \A i \in 1 .. Len(s) + Len(t) : st[i] = IF i <= Len(s) THEN s[i] ELSE t[i - Len(s)]
  BY <1>1, ConcatProperties
<1> HIDE DEF st
<1>3. /\ a \in Seq(Seq(Values)) /\ Len(a) = Len(s) /\ \A i \in 1 .. Len(s) : a[i] = RunValues(s[i])
      /\ b \in Seq(Seq(Values)) /\ Len(b) = Len(t) /\ \A i \in 1 .. Len(t) : b[i] = RunValues(t[i])
      /\ c \in Seq(Seq(Values)) /\ Len(c) = Len(st) /\ \A i \in 1 .. Len(st) : c[i] = RunValues(st[i])
  BY <1>1, <1>2, RunsValuesType
<1> HIDE DEF a, b, c
<1>4. /\ a \o b \in Seq(Seq(Values)) /\ Len(a \o b) = Len(a) + Len(b)
      /\ \A i \in 1 .. Len(a) + Len(b) : (a \o b)[i] = IF i <= Len(a) THEN a[i] ELSE b[i - Len(a)]
  <2>1. a \in Seq(Seq(Values)) /\ b \in Seq(Seq(Values))
    BY <1>3
  <2>2. QED BY <2>1, ConcatProperties
<1>5. \A i \in 1 .. Len(st) : i > Len(s) => i - Len(s) \in 1 .. Len(t)
  BY <1>1, <1>2
<1> DEFINE ab == a \o b
<1> HIDE DEF ab
<1>4a. \A i \in 1 .. Len(a) + Len(b) : ab[i] = IF i <= Len(a) THEN a[i] ELSE b[i - Len(a)]
  BY <1>4 DEF ab
<1>6. ASSUME NEW i \in 1 .. Len(st) PROVE c[i] = ab[i] /\ ~Incomplete(st[i])
  <2>1. \A j \in 1 .. Len(s) : ~Incomplete(s[j])
    BY <1>1 DEF Spells, IsWhole
  <2>2. \A j \in 1 .. Len(t) : ~Incomplete(t[j])
    BY <1>1 DEF Spells, IsWhole
  <2>3. CASE i <= Len(s)
    <3>1. i \in 1 .. Len(s)
      BY <1>1, <1>2, <2>3
    <3>2. st[i] = s[i] /\ c[i] = RunValues(st[i]) /\ a[i] = RunValues(s[i])
      BY <1>2, <1>3, <2>3, <3>1
    <3>3. ab[i] = a[i]
      BY <1>1, <1>2, <1>3, <1>4a, <2>3
    <3>4. QED BY <2>1, <3>1, <3>2, <3>3
  <2>4. CASE ~(i <= Len(s))
    <3>1. i - Len(s) \in 1 .. Len(t)
      BY <1>1, <1>2, <2>4
    <3>2. st[i] = t[i - Len(s)] /\ c[i] = RunValues(st[i])
          /\ b[i - Len(s)] = RunValues(t[i - Len(s)])
      BY <1>2, <1>3, <2>4, <3>1
    <3>3. ab[i] = b[i - Len(s)]
      BY <1>1, <1>2, <1>3, <1>4a, <2>4
    <3>4. QED BY <2>2, <3>1, <3>2, <3>3
  <2>5. QED BY <2>3, <2>4
<1>7. c = a \o b
  <2>1. ab \in Seq(Seq(Values)) /\ Len(ab) = Len(c) /\ c \in Seq(Seq(Values))
    BY <1>2, <1>3, <1>4 DEF ab
  <2>2. \A i \in 1 .. Len(c) : c[i] = ab[i]
    BY <1>3, <1>6
  <2>3. c = ab
    BY <2>1, <2>2, SeqEqual
  <2>4. QED BY <2>3 DEF ab
<1>8. IsWhole(st)
  <2>1. DOMAIN st = 1 .. Len(st)
    BY <1>2
  <2>2. QED BY <1>6, <2>1 DEF IsWhole
<1>9. FlattenSeq(a \o b) = FlattenSeq(a) \o FlattenSeq(b)
  <2>1. Len(b) \in 0 .. Len(b)
    BY <1>1, <1>3
  <2>2. UpTo(a \o b, Len(a) + Len(b)) = FlattenSeq(a) \o UpTo(b, Len(b))
    BY <1>3, <2>1, FlattenBehind
  <2>3. UpTo(b, Len(b)) = FlattenSeq(b)
    BY <1>3, FlattenUpTo
  <2>4. UpTo(a \o b, Len(a \o b)) = FlattenSeq(a \o b)
    BY <1>4, FlattenUpTo
  <2>5. QED BY <1>4, <2>2, <2>3, <2>4
<1>10. FlattenSeq(a) = x /\ FlattenSeq(b) = y
  BY DEF Spells, a, b
<1>11. FlattenSeq(c) = x \o y
  BY <1>7, <1>9, <1>10
<1>12. QED BY <1>2, <1>8, <1>11 DEF Spells, c, st

LEMMA SpellsOne ==
    ASSUME NEW r \in Runs, ~Incomplete(r)
    PROVE  Spells(<<r>>, RunValues(r))
<1>1. <<r>> \in Seq(Runs) /\ IsWhole(<<r>>)
  BY DEF IsWhole
<1>2. RunsValues(<<r>>) = <<RunValues(r)>>
  BY DEF RunsValues
<1>3. RunValues(r) \in Seq(Values) /\ <<>> \in Seq(Seq(Values)) /\ <<>> \in Seq(Values)
  BY RunValuesType
<1>4. Append(<<>>, RunValues(r)) = <<RunValues(r)>>
  OBVIOUS
<1>5. FlattenSeq(<<RunValues(r)>>) = <<>> \o RunValues(r)
  BY <1>3, <1>4, FlattenAppend, FlattenEmpty
<1>6. <<>> \o RunValues(r) = RunValues(r)
  BY <1>3, ConcatEmptySeq
<1>7. QED BY <1>1, <1>2, <1>5, <1>6 DEF Spells

LEMMA SpellsMore ==
    ASSUME NEW s, NEW x, Spells(s, x), NEW r \in Runs, ~Incomplete(r)
    PROVE  Spells(Append(s, r), x \o RunValues(r))
<1>1. Append(s, r) = s \o <<r>>
  BY AppendIsConcat DEF Spells
<1>2. QED BY <1>1, SpellsOne, SpellsBoth

-------------------------------------------------------------------------------
(* The encoder.                                                            *)

LEMMA RepeatOnce ==
    ASSUME NEW v \in Values
    PROVE  Repeat(v, 1) = <<v>>
<1>1. [i \in 1 .. 1 |-> v] = <<v>>
  OBVIOUS
<1>2. QED BY <1>1 DEF Repeat

LEMMA RepeatNever ==
    ASSUME NEW v
    PROVE  Repeat(v, 0) = <<>>
BY DEF Repeat

LEMMA RleRunIs ==
    ASSUME NEW v \in Values, NEW n \in Nat, n > 0, n <= LongestRun
    PROVE  /\ RleRun(v, n) \in Runs /\ ~Incomplete(RleRun(v, n))
           /\ RunValues(RleRun(v, n)) = Repeat(v, n) /\ RleRun(v, n).data[1] = v
           /\ RleRun(v, n).n = n
<1> DEFINE r == RleRun(v, n)
<1>1. r.kind = "rle" /\ r.n = n /\ r.data = <<v>>
  BY DEF RleRun
<1>2. <<v>> \in Seq(Values) /\ Len(<<v>>) = 1 /\ <<v>> # <<>> /\ <<v>>[1] = v
  OBVIOUS
<1>3. n \in 0 .. LongestRun
  BY Constants
<1>4. r \in [kind : {"rle"}, n : 0 .. LongestRun, data : Seq(Values)]
  BY <1>2, <1>3 DEF RleRun
<1> HIDE DEF r
<1>5. r \in Runs
  <2> DEFINE R == {q \in [kind : {"rle"}, n : 0 .. LongestRun, data : Seq(Values)] :
                      Len(q.data) <= 1 /\ Len(q.data) <= q.n}
  <2>1. Len(r.data) <= 1 /\ Len(r.data) <= r.n
    BY <1>1, <1>2
  <2>2. r \in R
    BY <1>4, <2>1
  <2>3. R \subseteq Runs
    BY Zenon DEF Runs
  <2>4. QED BY <2>2, <2>3
<1>6. ~Incomplete(r)
  BY <1>1, <1>2 DEF Incomplete
<1>7. RunValues(r) = Repeat(v, n)
  BY <1>1, <1>2 DEF RunValues
<1>8. QED BY <1>1, <1>2, <1>5, <1>6, <1>7 DEF r

\* Runs of equal values, the last of which may still grow.
SpelledByRuns(rs, x) ==
    \/ rs = <<>> /\ x = <<>>
    \/ \E front, y : \E v \in Values, n \in 1 .. Len(x) :
          Spells(front, y) /\ rs = Append(front, RleRun(v, n)) /\ x = y \o Repeat(v, n)

LEMMA SpelledIsSpells ==
    ASSUME NEW rs, NEW x, Len(x) \in Nat, Len(x) <= LongestRun, SpelledByRuns(rs, x)
    PROVE  Spells(rs, x)
<1>1. CASE rs = <<>> /\ x = <<>>
  BY <1>1, SpellsNothing
<1>2. CASE ~(rs = <<>> /\ x = <<>>)
  <2>1. PICK front, y : \E v \in Values, n \in 1 .. Len(x) :
          Spells(front, y) /\ rs = Append(front, RleRun(v, n)) /\ x = y \o Repeat(v, n)
    BY <1>2 DEF SpelledByRuns
  <2>2. PICK v \in Values, n \in 1 .. Len(x) :
          Spells(front, y) /\ rs = Append(front, RleRun(v, n)) /\ x = y \o Repeat(v, n)
    BY <2>1
  <2>3. n \in Nat /\ n > 0 /\ n <= LongestRun
    BY Constants
  <2>4. RleRun(v, n) \in Runs /\ ~Incomplete(RleRun(v, n))
        /\ RunValues(RleRun(v, n)) = Repeat(v, n)
    BY <2>3, RleRunIs
  <2>5. QED BY <2>2, <2>4, SpellsMore
<1>3. QED BY <1>1, <1>2

LEMMA LastReplaced ==
    ASSUME NEW A, NEW s \in Seq(A), NEW r \in A, NEW q \in A
    PROVE  /\ Append(s, r) # <<>> /\ Append(s, r)[Len(Append(s, r))] = r
           /\ [Append(s, r) EXCEPT ![Len(Append(s, r))] = q] = Append(s, q)
<1> DEFINE t == Append(s, r)
           u == Append(s, q)
           e == [t EXCEPT ![Len(t)] = q]
<1>1. /\ t \in Seq(A) /\ Len(t) = Len(s) + 1 /\ t[Len(s) + 1] = r
      /\ \A i \in 1 .. Len(s) : t[i] = s[i]
  OBVIOUS
<1>2. /\ u \in Seq(A) /\ Len(u) = Len(s) + 1 /\ u[Len(s) + 1] = q
      /\ \A i \in 1 .. Len(s) : u[i] = s[i]
  OBVIOUS
<1>3. Len(s) \in Nat
  OBVIOUS
<1> HIDE DEF t, u
<1>4. t # <<>>
  BY <1>1, <1>3
<1>5. e \in Seq(A) /\ Len(e) = Len(t) /\ e[Len(t)] = q
      /\ \A i \in 1 .. Len(t) : i # Len(t) => e[i] = t[i]
  BY <1>1, <1>3
<1> HIDE DEF e
<1>6. ASSUME NEW i \in 1 .. Len(s) + 1 PROVE e[i] = u[i]
  BY <1>1, <1>2, <1>3, <1>5
<1>7. e = u
  BY <1>1, <1>2, <1>5, <1>6, SeqEqual
<1>8. QED BY <1>1, <1>4, <1>7 DEF t, u, e

LEMMA WithNextSpells ==
    ASSUME NEW rs, NEW x \in Seq(Values), NEW v \in Values, Len(x) < LongestRun,
           SpelledByRuns(rs, x)
    PROVE  SpelledByRuns(WithNext(rs, v), Append(x, v))
<1>1. Len(x) \in Nat /\ Append(x, v) \in Seq(Values) /\ Len(Append(x, v)) = Len(x) + 1
      /\ LongestRun \in Nat
  BY Constants
<1>2. Append(x, v) = x \o Repeat(v, 1)
  BY RepeatOnce, AppendIsConcat
<1>3. Spells(rs, x)
  BY <1>1, SpelledIsSpells
<1>4. 1 \in 1 .. Len(Append(x, v))
  BY <1>1
<1>5. CASE WithNext(rs, v) = Append(rs, RleRun(v, 1))
  BY <1>2, <1>3, <1>4, <1>5 DEF SpelledByRuns
<1>6. CASE WithNext(rs, v) # Append(rs, RleRun(v, 1))
  <2>1. rs # <<>> /\ rs[Len(rs)].data[1] = v
        /\ WithNext(rs, v) = [rs EXCEPT ![Len(rs)] = RleRun(v, rs[Len(rs)].n + 1)]
    BY <1>6 DEF WithNext
  <2>2. PICK front, y : \E w \in Values, n \in 1 .. Len(x) :
          Spells(front, y) /\ rs = Append(front, RleRun(w, n)) /\ x = y \o Repeat(w, n)
    BY <2>1 DEF SpelledByRuns
  <2>3. PICK w \in Values, n \in 1 .. Len(x) :
          Spells(front, y) /\ rs = Append(front, RleRun(w, n)) /\ x = y \o Repeat(w, n)
    BY <2>2
  <2>4. n \in Nat /\ n > 0 /\ n <= LongestRun /\ n + 1 \in Nat /\ n + 1 > 0
        /\ n + 1 <= LongestRun /\ n + 1 \in 1 .. Len(Append(x, v))
    BY <1>1
  <2>5. /\ RleRun(w, n) \in Runs /\ RleRun(w, n).data[1] = w /\ RleRun(w, n).n = n
        /\ RleRun(v, n + 1) \in Runs
    BY <2>4, RleRunIs
  <2>6. front \in Seq(Runs) /\ y \in Seq(Values)
    BY <2>3, SpellsType DEF Spells
  <2>7. rs[Len(rs)] = RleRun(w, n)
        /\ [rs EXCEPT ![Len(rs)] = RleRun(v, n + 1)] = Append(front, RleRun(v, n + 1))
    <3> DEFINE r == RleRun(w, n)
               q == RleRun(v, n + 1)
    <3>1. r \in Runs /\ q \in Runs /\ rs = Append(front, r)
      BY <2>3, <2>5
    <3> HIDE DEF r, q
    <3>2. rs[Len(rs)] = r /\ [rs EXCEPT ![Len(rs)] = q] = Append(front, q)
      BY <2>6, <3>1, LastReplaced
    <3>3. QED BY <3>2 DEF r, q
  <2>8. w = v /\ rs[Len(rs)].n = n
    BY <2>1, <2>5, <2>7
  <2>9. WithNext(rs, v) = Append(front, RleRun(v, n + 1))
    BY <2>1, <2>7, <2>8
  <2>10. Append(x, v) = y \o Repeat(v, n + 1)
    <3>1. x \o Repeat(v, 1) = y \o (Repeat(v, n) \o Repeat(v, 1))
      <4> DEFINE a == Repeat(v, n)
                 b == Repeat(v, 1)
      <4>1. a \in Seq(Values) /\ b \in Seq(Values) /\ x = y \o a
        BY <2>3, <2>4, <2>8, RepeatType
      <4> HIDE DEF a, b
      <4>2. (y \o a) \o b = y \o (a \o b)
        BY <2>6, <4>1, ConcatAssociative
      <4>3. QED BY <4>1, <4>2 DEF a, b
    <3>2. QED BY <1>2, <2>4, <3>1, RepeatMore
  <2>11. QED BY <2>3, <2>4, <2>9, <2>10 DEF SpelledByRuns
<1>7. QED BY <1>5, <1>6

LEMMA RunsOfSpells ==
    ASSUME NEW pack \in Seq(Values), Len(pack) <= LongestRun
    PROVE  Spells(RunsOf(pack), pack)
<1>1. Len(pack) \in Nat /\ LongestRun \in Nat
  BY Constants
<1> DEFINE f == RunsUpTo(pack)
           first(i) == SubSeq(pack, 1, i)
           T == {i \in Nat : i <= Len(pack) => SpelledByRuns(f[i], first(i))}
<1>2. /\ RunsOf(pack) = f[Len(pack)] /\ f[0] = <<>>
      /\ \A i \in 1 .. Len(pack) : f[i] = WithNext(f[i - 1], pack[i])
  BY <1>1, RunsUpToIs
<1> HIDE DEF f
<1>3. 0 \in T
  BY <1>2, SubSeqEmpty DEF SpelledByRuns
<1>4. ASSUME NEW i \in Nat, i \in T PROVE i + 1 \in T
  <2> SUFFICES ASSUME i + 1 <= Len(pack) PROVE SpelledByRuns(f[i + 1], first(i + 1))
    OBVIOUS
  <2>1. i + 1 \in 1 .. Len(pack) /\ (i + 1) - 1 = i /\ i <= Len(pack) /\ i < LongestRun
    BY <1>1
  <2>2. f[i + 1] = WithNext(f[i], pack[i + 1]) /\ pack[i + 1] \in Values
    BY <1>2, <2>1
  <2>3. first(i) \in Seq(Values) /\ Len(first(i)) = i
    BY <2>1
  <2>4. first(i + 1) = Append(first(i), pack[i + 1])
    <3> DEFINE a == first(i)
               b == first(i + 1)
               c == Append(a, pack[i + 1])
    <3>1. b \in Seq(Values) /\ Len(b) = i + 1 /\ \A j \in 1 .. i + 1 : b[j] = pack[j]
      BY <2>1
    <3>2. \A j \in 1 .. i : a[j] = pack[j]
      BY <2>1
    <3> HIDE DEF a, b
    <3>3. a \in Seq(Values) /\ Len(a) = i
      BY <2>3 DEF a
    <3>4. c \in Seq(Values) /\ Len(c) = i + 1 /\ c[i + 1] = pack[i + 1]
          /\ \A j \in 1 .. i : c[j] = a[j]
      BY <2>2, <3>3
    <3> HIDE DEF c
    <3>5. ASSUME NEW j \in 1 .. i + 1 PROVE b[j] = c[j]
      <4>1. CASE j = i + 1
        BY <3>1, <3>4, <4>1
      <4>2. CASE j \in 1 .. i
        BY <3>1, <3>2, <3>4, <4>2
      <4>3. QED BY <4>1, <4>2
    <3>6. b = c
      BY <3>1, <3>4, <3>5, SeqEqual
    <3>7. QED BY <3>6 DEF a, b, c
  <2>5. SpelledByRuns(f[i], first(i))
    BY <1>4, <2>1
  <2> HIDE DEF first
  <2>6. QED BY <2>1, <2>2, <2>3, <2>4, <2>5, WithNextSpells
<1>5. Nat \subseteq T
  <2> HIDE DEF T
  <2>1. QED BY <1>3, <1>4, Induction
<1>6. SpelledByRuns(f[Len(pack)], first(Len(pack)))
  BY <1>1, <1>5
<1>7. first(Len(pack)) = pack
  BY SubSeqFull
<1>8. QED BY <1>1, <1>2, <1>6, <1>7, SpelledIsSpells

LEMMA PackedRunSpells ==
    ASSUME NEW pack \in Seq(Values), Len(pack) = Group, Group <= LongestRun
    PROVE  Spells(<<PackedRun(<<pack>>)>>, pack)
<1> DEFINE r == PackedRun(<<pack>>)
<1>1. Group \in Nat /\ Group > 1 /\ LongestRun \in Nat
  BY Constants
<1>2. pack \in Groups
  <2>1. pack \in [1 .. Len(pack) -> Values]
    OBVIOUS
  <2>2. QED BY <2>1 DEF Groups
<1>3. /\ r.kind = "packed" /\ r.n = 1 /\ r.data = <<pack>> /\ Len(r.data) = 1
      /\ <<pack>> \in Seq(Groups)
  BY <1>2 DEF PackedRun
<1>4. r \in [kind : {"packed"}, n : 0 .. LongestRun, data : Seq(Groups)]
  <2>1. 1 \in 0 .. LongestRun
    BY <1>1
  <2>2. r = [kind |-> "packed", n |-> 1, data |-> <<pack>>]
    BY DEF PackedRun
  <2> HIDE DEF r
  <2>3. QED BY <1>3, <2>1, <2>2
<1> HIDE DEF r
<1>5. r \in Runs
  <2> DEFINE R == {q \in [kind : {"packed"}, n : 0 .. LongestRun, data : Seq(Groups)] :
                      Len(q.data) <= q.n}
  <2>1. r \in R
    <3>1. Len(r.data) <= r.n
      BY <1>3
    <3>2. QED BY <1>4, <3>1
  <2>2. R \subseteq Runs
    BY Zenon DEF Runs, Groups
  <2>3. QED BY <2>1, <2>2
<1>6. ~Incomplete(r)
  BY <1>3 DEF Incomplete
<1>7. RunValues(r) = pack
  <2>1. RunValues(r) = FlattenSeq(<<pack>>)
    BY <1>3 DEF RunValues
  <2>2. <<>> \in Seq(Seq(Values)) /\ Append(<<>>, pack) = <<pack>>
    OBVIOUS
  <2>3. FlattenSeq(<<pack>>) = <<>> \o pack
    BY <2>2, FlattenAppend, FlattenEmpty
  <2>4. QED BY <2>1, <2>3, ConcatEmptySeq
<1>8. Spells(<<r>>, pack)
  BY <1>5, <1>6, <1>7, SpellsOne
<1>9. QED BY <1>8 DEF r

LEMMA PackedOrRunsSpells ==
    ASSUME NEW pack \in Seq(Values), Len(pack) <= Group, Len(pack) <= LongestRun
    PROVE  Spells(PackedOrRuns(pack), pack)
<1>1. Len(pack) \in Nat /\ Group \in Nat
  BY Constants
<1>2. CASE Len(pack) < Group
  BY <1>2, RunsOfSpells DEF PackedOrRuns
<1>3. CASE ~(Len(pack) < Group)
  <2>1. Len(pack) = Group /\ Group <= LongestRun
    BY <1>1, <1>3
  <2>2. QED BY <1>3, <2>1, PackedRunSpells DEF PackedOrRuns
<1>4. QED BY <1>2, <1>3

LEMMA HoldsSpells ==
    ASSUME NEW e, NEW s, NEW x, Holds(e, s, x)
    PROVE  /\ e \in Encoders /\ Len(e.pack) < Group /\ Len(e.pack) \in Nat
           /\ e.prev \in Values /\ e.count \in Nat /\ e.pack \in Seq(Values)
           /\ x \in Seq(Values) /\ Len(x) \in Nat
           /\ Len(e.pack) <= Len(x) /\ e.count <= Len(x)
<1>1. /\ e \in Encoders /\ Len(e.pack) < Group /\ Len(e.pack) \in Nat
      /\ e.prev \in Values /\ e.count \in Nat /\ e.pack \in Seq(Values)
  BY DEF Holds, Encoders
<1> DEFINE w == FlattenSeq(RunsValues(s))
           r == Repeat(e.prev, e.count)
<1>2. Spells(s, w) /\ w \in Seq(Values)
  BY SpellsType DEF Holds, Spells
<1>3. x = (w \o e.pack) \o r
  BY DEF Holds
<1>4. r \in Seq(Values) /\ Len(r) = e.count
  BY <1>1, RepeatType
<1>5. QED
  <2> HIDE DEF w, r
  <2>1. w \o e.pack \in Seq(Values) /\ Len(w \o e.pack) = Len(w) + Len(e.pack)
    BY <1>1, <1>2, ConcatProperties
  <2>2. x \in Seq(Values) /\ Len(x) = Len(w) + Len(e.pack) + Len(r)
    <3> DEFINE wp == w \o e.pack
    <3>1. wp \in Seq(Values) /\ Len(wp) = Len(w) + Len(e.pack) /\ x = wp \o r
      BY <1>3, <2>1
    <3> HIDE DEF wp
    <3>2. wp \o r \in Seq(Values) /\ Len(wp \o r) = Len(wp) + Len(r)
      BY <1>4, <3>1, ConcatProperties
    <3>3. QED BY <3>1, <3>2
  <2>3. Len(w) \in Nat /\ Len(r) \in Nat
    BY <1>2, <1>4
  <2>4. Len(e.pack) <= Len(x) /\ e.count <= Len(x)
    BY <1>1, <1>4, <2>2, <2>3
  <2>5. QED BY <1>1, <2>2, <2>3, <2>4

Written(s) == FlattenSeq(RunsValues(s))

LEMMA HoldsWords ==
    ASSUME NEW e, NEW s, NEW x, Holds(e, s, x)
    PROVE  /\ Written(s) \in Seq(Values) /\ Spells(s, Written(s))
           /\ x = (Written(s) \o e.pack) \o Repeat(e.prev, e.count)
BY SpellsType DEF Holds, Spells, Written

\* And the other way round.
LEMMA SpellsHolds ==
    ASSUME NEW e \in Encoders, NEW s, NEW w, Len(e.pack) < Group, Spells(s, w)
    PROVE  Holds(e, s, (w \o e.pack) \o Repeat(e.prev, e.count))
BY DEF Holds, Spells

\* A sequence is what comes up to a place, and what follows.
LEMMA Split ==
    ASSUME NEW A, NEW s \in Seq(A), NEW k \in Nat, k <= Len(s)
    PROVE  /\ SubSeq(s, 1, k) \in Seq(A) /\ Len(SubSeq(s, 1, k)) = k
           /\ SubSeq(s, k + 1, Len(s)) \in Seq(A)
           /\ Len(SubSeq(s, k + 1, Len(s))) = Len(s) - k
           /\ s = SubSeq(s, 1, k) \o SubSeq(s, k + 1, Len(s))
<1>1. Len(s) \in Nat
  OBVIOUS
<1>2. PICK m \in Nat : m = Len(s) - k
  BY <1>1
<1>3. k + m = Len(s) /\ 0 + k = k /\ 0 + 1 = 1 /\ 0 \in Nat
  BY <1>1, <1>2
<1>4. SubSeq(s, k + 1, k + m) \in Seq(A) /\ IsSlice(SubSeq(s, k + 1, k + m), s, k, m)
  <2>1. k + m <= Len(s)
    BY <1>1, <1>3
  <2>2. QED BY <2>1, SliceParts
<1>5. SubSeq(s, 0 + 1, 0 + k) \in Seq(A) /\ IsSlice(SubSeq(s, 0 + 1, 0 + k), s, 0, k)
  <2>1. 0 + k <= Len(s)
    BY <1>1, <1>3
  <2>2. QED BY <1>3, <2>1, SliceParts
<1>6. 1 \in 1 .. Len(s) + 1 /\ k \in 1 - 1 .. Len(s) /\ Len(s) \in k .. Len(s)
  BY <1>1
<1>7. SubSeq(s, 1, k) \o SubSeq(s, k + 1, Len(s)) = SubSeq(s, 1, Len(s))
  BY <1>6, ConcatAdjacentSubSeq
<1>8. SubSeq(s, 1, Len(s)) = s
  BY SubSeqFull
<1>9. QED BY <1>2, <1>3, <1>4, <1>5, <1>7, <1>8 DEF IsSlice

LEMMA BufferedHolds ==
    ASSUME NEW e, NEW s, NEW x, Holds(e, s, x), Len(x) <= LongestRun, e.count < Group
    PROVE  /\ Holds(Buffered(e, s).enc, Buffered(e, s).stream, x)
           /\ Buffered(e, s).enc.count = 0
<1>0. PICK w \in Seq(Values) :
         Spells(s, w) /\ x = (w \o e.pack) \o Repeat(e.prev, e.count)
  BY HoldsWords
<1>1. /\ e \in Encoders /\ Len(e.pack) < Group /\ Len(e.pack) \in Nat
      /\ e.prev \in Values /\ e.count \in Nat /\ e.pack \in Seq(Values)
      /\ x \in Seq(Values)
  BY HoldsSpells
<1> DEFINE r == Repeat(e.prev, e.count)
           all == e.pack \o r
           head == SubSeq(all, 1, Group)
           tail == SubSeq(all, Group + 1, Len(all))
<1>2. Spells(s, w) /\ x = (w \o e.pack) \o r
  BY <1>0
<1>3. r \in Seq(Values) /\ Len(r) = e.count /\ Repeat(e.prev, 0) = <<>>
  BY <1>1, RepeatType, RepeatNever
<1> HIDE DEF r
<1>4. Group \in Nat /\ LongestRun \in Nat
  BY Constants
<1>5. /\ all \in Seq(Values) /\ Len(all) = Len(e.pack) + Len(r)
  BY <1>1, <1>3, ConcatProperties
<1>6. x = w \o all
  <2> DEFINE p == e.pack
  <2>1. p \in Seq(Values) /\ r \in Seq(Values) /\ x = (w \o p) \o r
    BY <1>1, <1>2, <1>3
  <2> HIDE DEF p
  <2>2. (w \o p) \o r = w \o (p \o r)
    BY <2>1, ConcatAssociative
  <2>3. QED BY <2>1, <2>2 DEF p
<1>7. CASE ~PackFull(all)
  <2> DEFINE f == [e EXCEPT !.pack = all, !.count = 0]
  <2>1. Buffered(e, s) = [enc |-> f, stream |-> s]
    BY <1>7 DEF Buffered, r
  <2> HIDE DEF all
  <2>2. f \in Encoders /\ f.pack = all /\ f.prev = e.prev /\ f.count = 0
    BY <1>1, <1>5 DEF Encoders
  <2>3. Len(f.pack) < Group
    BY <1>1, <1>3, <1>4, <1>5, <1>7, <2>2 DEF PackFull
  <2> HIDE DEF f
  <2>4. Holds(f, s, (w \o all) \o <<>>)
    BY <1>2, <1>3, <2>2, <2>3, SpellsHolds
  <2>5. (w \o all) \o <<>> = x
    BY <1>1, <1>6, ConcatEmptySeq
  <2>6. Buffered(e, s).enc = f /\ Buffered(e, s).stream = s
    BY <2>1
  <2>7. QED BY <2>2, <2>4, <2>5, <2>6
<1>8. CASE PackFull(all)
  <2> DEFINE f == [e EXCEPT !.pack = tail, !.count = 0]
             t == s \o PackedOrRuns(head)
  <2>1. Buffered(e, s) = [enc |-> f, stream |-> t]
    BY <1>8 DEF Buffered, r
  <2> HIDE DEF all
  <2>2. Group <= Len(all) /\ Len(all) < Group + Group /\ Len(all) \in Nat
    BY <1>1, <1>3, <1>4, <1>5, <1>8 DEF PackFull
  <2>3. /\ head \in Seq(Values) /\ Len(head) = Group /\ tail \in Seq(Values)
        /\ Len(tail) = Len(all) - Group /\ all = head \o tail
    BY <1>4, <1>5, <2>2, Split
  <2> HIDE DEF head, tail
  <2>4. f \in Encoders /\ f.pack = tail /\ f.prev = e.prev /\ f.count = 0
    BY <1>1, <2>3 DEF Encoders
  <2>5. Len(f.pack) < Group
    BY <1>4, <2>2, <2>3, <2>4
  <2>6. Group <= LongestRun
    <3>1. w \o all \in Seq(Values) /\ Len(w \o all) = Len(w) + Len(all) /\ Len(w) \in Nat
      <4>1. all \in Seq(Values)
        BY <1>5
      <4>2. QED BY <4>1, ConcatProperties
    <3>2. QED BY <1>4, <1>6, <2>2, <3>1
  <2>7. Spells(PackedOrRuns(head), head)
    BY <1>4, <2>3, <2>6, PackedOrRunsSpells
  <2>8. Spells(t, w \o head)
    BY <1>2, <2>7, SpellsBoth
  <2> HIDE DEF f, t
  <2>9. Holds(f, t, ((w \o head) \o tail) \o <<>>)
    BY <1>3, <2>4, <2>5, <2>8, SpellsHolds
  <2>10. (w \o head) \o tail = x
    <3>1. head \in Seq(Values) /\ tail \in Seq(Values)
      BY <2>3
    <3>2. (w \o head) \o tail = w \o (head \o tail)
      BY <3>1, ConcatAssociative
    <3>3. QED BY <1>6, <2>3, <3>2
  <2>11. x \o <<>> = x
    BY <1>1, ConcatEmptySeq
  <2>12. Buffered(e, s).enc = f /\ Buffered(e, s).stream = t
    BY <2>1
  <2>13. QED BY <2>4, <2>9, <2>10, <2>11, <2>12
<1>9. QED BY <1>7, <1>8

LEMMA RunWrittenHolds ==
    ASSUME NEW e, NEW s, NEW x, Holds(e, s, x), Len(x) <= LongestRun, e.count >= Group
    PROVE  /\ Holds(RunWritten(e, s).enc, RunWritten(e, s).stream, x)
           /\ RunWritten(e, s).enc.count = 0 /\ RunWritten(e, s).enc.pack = <<>>
<1>0. PICK w \in Seq(Values) :
         Spells(s, w) /\ x = (w \o e.pack) \o Repeat(e.prev, e.count)
  BY HoldsWords
<1>1. /\ e \in Encoders /\ Len(e.pack) < Group /\ Len(e.pack) \in Nat
      /\ e.prev \in Values /\ e.count \in Nat /\ e.pack \in Seq(Values)
      /\ x \in Seq(Values) /\ Len(e.pack) <= Len(x) /\ e.count <= Len(x)
      /\ Len(x) \in Nat
  BY HoldsSpells
<1> DEFINE r == Repeat(e.prev, e.count)
           f == [e EXCEPT !.pack = <<>>, !.count = 0]
           t == s \o PackedOrRuns(e.pack)
           q == RleRun(e.prev, e.count)
           u == Append(t, q)
<1>2. Spells(s, w) /\ x = (w \o e.pack) \o r
  BY <1>0
<1>3. Group \in Nat /\ Group > 1 /\ LongestRun \in Nat
  BY Constants
<1>4. RunWritten(e, s) = [enc |-> f, stream |-> u]
  BY DEF RunWritten
<1>5. f \in Encoders /\ f.pack = <<>> /\ f.prev = e.prev /\ f.count = 0
  <2>1. <<>> \in Seq(Values) /\ 0 \in Nat
    OBVIOUS
  <2>2. QED BY <1>1, <2>1 DEF Encoders
<1>6. Spells(t, w \o e.pack)
  <2>1. Spells(PackedOrRuns(e.pack), e.pack)
    BY <1>1, <1>3, PackedOrRunsSpells
  <2>2. QED BY <1>2, <2>1, SpellsBoth
<1>7. q \in Runs /\ ~Incomplete(q) /\ RunValues(q) = r
  BY <1>1, <1>3, RleRunIs
<1> HIDE DEF q, t, r, f
<1>8. Spells(u, x)
  BY <1>2, <1>6, <1>7, SpellsMore
<1> HIDE DEF u
<1>9. Holds(f, u, (x \o <<>>) \o <<>>)
  <2>1. Len(f.pack) < Group /\ Repeat(f.prev, f.count) = <<>>
    BY <1>3, <1>5, RepeatNever
  <2>2. QED BY <1>5, <1>8, <2>1, SpellsHolds
<1>10. x \o <<>> = x
  BY <1>1, ConcatEmptySeq
<1>11. RunWritten(e, s).enc = f /\ RunWritten(e, s).stream = u
  BY <1>4
<1>12. QED BY <1>5, <1>9, <1>10, <1>11

LEMMA RunEndsHolds ==
    ASSUME NEW e, NEW s, NEW x, Holds(e, s, x), Len(x) <= LongestRun
    PROVE  /\ Holds(RunEnds(e, s).enc, RunEnds(e, s).stream, x)
           /\ RunEnds(e, s).enc.count = 0
<1>1. e.count \in Nat /\ Group \in Nat
  BY Constants, HoldsSpells
<1>2. CASE e.count >= Group
  BY <1>2, RunWrittenHolds DEF RunEnds
<1>3. CASE ~(e.count >= Group)
  <2>1. e.count < Group
    BY <1>1, <1>3
  <2>2. QED BY <1>3, <2>1, BufferedHolds DEF RunEnds
<1>4. QED BY <1>2, <1>3

LEMMA BegunHolds ==
    ASSUME NEW e, NEW s, NEW x, Holds(e, s, x), e.count = 0,
           NEW v \in Values, NEW n \in Nat
    PROVE  Holds(Begun(e, v, n), s, x \o Repeat(v, n)) /\ Begun(e, v, n).count = n
           /\ Begun(e, v, n).has = TRUE
<1> DEFINE f == Begun(e, v, n)
<1>1. /\ e \in Encoders /\ Len(e.pack) < Group /\ Len(e.pack) \in Nat
      /\ e.prev \in Values /\ e.count \in Nat /\ e.pack \in Seq(Values)
  BY HoldsSpells
<1>2. PICK w \in Seq(Values) :
         Spells(s, w) /\ x = (w \o e.pack) \o Repeat(e.prev, e.count)
  BY HoldsWords
<1>3. /\ f \in Encoders /\ f.pack = e.pack /\ f.prev = v /\ f.count = n /\ f.has = TRUE
  BY <1>1 DEF Begun, Encoders
<1> HIDE DEF f
<1>4. x = w \o e.pack
  <2>1. w \o e.pack \in Seq(Values)
    BY <1>1, ConcatProperties
  <2>2. Repeat(e.prev, e.count) = <<>>
    BY RepeatNever
  <2>3. QED BY <1>2, <2>1, <2>2, ConcatEmptySeq
<1>5. Holds(f, s, (w \o f.pack) \o Repeat(f.prev, f.count))
  BY <1>1, <1>2, <1>3, SpellsHolds
<1>6. QED BY <1>3, <1>4, <1>5 DEF f

LEMMA ExtendedHolds ==
    ASSUME NEW e, NEW s, NEW x, Holds(e, s, x), NEW n \in Nat
    PROVE  /\ Holds(Extended(e, n), s, x \o Repeat(e.prev, n))
           /\ Extended(e, n).count = e.count + n /\ Extended(e, n).has = e.has
<1> DEFINE f == Extended(e, n)
           a == Repeat(e.prev, e.count)
           b == Repeat(e.prev, n)
<1>1. /\ e \in Encoders /\ Len(e.pack) < Group /\ Len(e.pack) \in Nat
      /\ e.prev \in Values /\ e.count \in Nat /\ e.pack \in Seq(Values)
  BY HoldsSpells
<1>2. PICK w \in Seq(Values) :
         Spells(s, w) /\ x = (w \o e.pack) \o Repeat(e.prev, e.count)
  BY HoldsWords
<1>3. f \in Encoders /\ f.pack = e.pack /\ f.prev = e.prev /\ f.count = e.count + n
      /\ f.has = e.has
  <2>1. e.count + n \in Nat
    BY <1>1
  <2>2. QED BY <1>1, <2>1 DEF Extended, Encoders
<1> HIDE DEF f
<1>4. Repeat(e.prev, e.count + n) = a \o b
  BY <1>1, RepeatMore
<1>5. a \in Seq(Values) /\ b \in Seq(Values)
  BY <1>1, RepeatType
<1>6. (w \o e.pack) \o (a \o b) = x \o b
  <2> DEFINE u == w \o e.pack
  <2>1. u \in Seq(Values) /\ x = u \o a
    BY <1>1, <1>2, ConcatProperties
  <2>2. u \in Seq(Values)
    BY <2>1
  <2> HIDE DEF u, a, b
  <2>3. (u \o a) \o b = u \o (a \o b)
    BY <1>5, <2>2, ConcatAssociative
  <2>4. QED BY <2>1, <2>3 DEF u
<1>7. Holds(f, s, (w \o f.pack) \o Repeat(f.prev, f.count))
  BY <1>1, <1>2, <1>3, SpellsHolds
<1>8. (w \o f.pack) \o Repeat(f.prev, f.count) = x \o b
  BY <1>3, <1>4, <1>6
<1>9. QED BY <1>3, <1>7, <1>8 DEF f

\* A put adds to the values held.
LEMMA PutHolds ==
    ASSUME NEW v \in Values, NEW n \in Nat, n > 0, Encoding, EncodePut(v, n)
    PROVE  /\ Holds(enc', stream', given') /\ enc'.count > 0
           /\ enc'.has = TRUE
<1>1. /\ given' = given \o Repeat(v, n)
      /\ IF ~enc.has
         THEN enc' = Begun(enc, v, n) /\ stream' = stream
         ELSE IF v = enc.prev
         THEN enc' = Extended(enc, n) /\ stream' = stream
         ELSE /\ enc' = Begun(RunEnds(enc, stream).enc, v, n)
              /\ stream' = RunEnds(enc, stream).stream
  BY DEF EncodePut
<1>2. Holds(enc, stream, given) /\ Len(given) <= MaxValues /\ (~enc.has => enc.count = 0)
  BY DEF Encoding
<1>3. enc.count \in Nat /\ Len(given) \in Nat
  BY <1>2, HoldsSpells
<1>4. Len(given) <= LongestRun
  BY <1>2, <1>3, Constants
<1>5. CASE ~enc.has
  <2> DEFINE b == Begun(enc, v, n)
  <2>1. Holds(b, stream, given \o Repeat(v, n)) /\ b.count = n /\ b.has = TRUE
    BY <1>2, <1>5, BegunHolds
  <2>2. enc' = b /\ stream' = stream
    BY <1>1, <1>5
  <2> HIDE DEF b
  <2>3. QED BY <1>1, <2>1, <2>2
<1>6. CASE enc.has /\ v = enc.prev
  <2>1. enc.has = TRUE
    BY <1>2, <1>6, HoldsSpells DEF Encoders
  <2>2. enc' = Extended(enc, n) /\ stream' = stream
    BY <1>1, <1>6
  <2>3. Holds(enc', stream', given') /\ enc'.count = enc.count + n /\ enc'.has = enc.has
    BY <1>1, <1>2, <1>6, <2>2, ExtendedHolds
  <2>4. QED BY <1>3, <2>1, <2>3
<1>7. CASE enc.has /\ v # enc.prev
  <2> DEFINE m == RunEnds(enc, stream)
             b == Begun(m.enc, v, n)
  <2>1. Holds(m.enc, m.stream, given) /\ m.enc.count = 0
    BY <1>2, <1>4, RunEndsHolds
  <2>2. enc' = b /\ stream' = m.stream
    BY <1>1, <1>7
  <2> HIDE DEF m
  <2>3. Holds(b, m.stream, given \o Repeat(v, n)) /\ b.count = n /\ b.has = TRUE
    BY <2>1, BegunHolds
  <2> HIDE DEF b
  <2>4. QED BY <1>1, <2>2, <2>3
<1>8. QED BY <1>5, <1>6, <1>7

LEMMA PutKeeps ==
    ASSUME HybridInv, NEW v \in Values, NEW n \in Nat, n > 0, EncodePut(v, n)
    PROVE  HybridInv'
<1>1. /\ phase = "encode" /\ Len(given) + n <= MaxValues /\ given' = given \o Repeat(v, n)
      /\ phase' = phase /\ dec' = dec /\ from' = from /\ result' = result
  BY DEF EncodePut
<1>2. Encoding /\ Types
  BY <1>1 DEF HybridInv
<1>3. Holds(enc', stream', given') /\ enc'.count > 0 /\ enc'.has = TRUE
  BY <1>2, PutHolds
<1>4. Len(given') <= MaxValues
  <2>1. Repeat(v, n) \in Seq(Values) /\ Len(Repeat(v, n)) = n
    BY RepeatType
  <2>2. given \in Seq(Values)
    BY <1>2 DEF Types
  <2>3. Len(given') = Len(given) + n
    BY <1>1, <2>1, <2>2, ConcatProperties
  <2>4. QED BY <1>1, <2>3
<1>5. Encoding'
  <2>1. enc'.count # 0
    BY <1>3
  <2>2. QED BY <1>1, <1>2, <1>3, <1>4, <2>1 DEF Encoding
<1>6. Types'
  <2>1. enc' \in Encoders /\ given' \in Seq(Values)
    BY <1>3, HoldsSpells
  <2>2. stream' \in Seq(Runs)
    BY <1>3 DEF Holds
  <2>3. QED BY <1>1, <1>2, <2>1, <2>2 DEF Types
<1>7. QED BY <1>1, <1>5, <1>6 DEF HybridInv

\* A flush leaves nothing in hand, and the stream is read from its start.
LEMMA FlushedIs ==
    ASSUME Encoding, Flush
    PROVE  /\ Spells(stream', given) /\ enc' \in Encoders
           /\ enc'.count = 0 /\ enc'.pack = <<>>
<1> DEFINE m == RunEnds(enc, stream)
<1>1. /\ stream' = IF enc.count = 0 THEN stream
                   ELSE m.stream \o PackedOrRuns(m.enc.pack)
      /\ enc' = IF enc.count = 0 THEN enc ELSE [m.enc EXCEPT !.pack = <<>>]
  BY DEF Flush
<1>2. /\ Holds(enc, stream, given) /\ Len(given) <= MaxValues
      /\ enc.count = 0 => enc.pack = <<>>
  BY DEF Encoding
<1>3. /\ enc \in Encoders /\ given \in Seq(Values) /\ Len(given) \in Nat
  BY <1>2, HoldsSpells
<1>4. Len(given) <= LongestRun
  BY <1>2, <1>3, Constants
<1>5. Holds(m.enc, m.stream, given) /\ m.enc.count = 0
  BY <1>2, <1>4, RunEndsHolds
<1> HIDE DEF m
<1>6. CASE enc.count = 0
  <2>1. PICK w \in Seq(Values) :
           Spells(stream, w) /\ given = (w \o enc.pack) \o Repeat(enc.prev, enc.count)
    BY <1>2, HoldsWords
  <2>2. given = w
    BY <1>2, <1>6, <2>1, RepeatNever, ConcatEmptySeq
  <2>3. QED BY <1>1, <1>2, <1>3, <1>6, <2>1, <2>2
<1>7. CASE enc.count # 0
  <2> DEFINE e == m.enc
             f == [e EXCEPT !.pack = <<>>]
  <2>1. e \in Encoders /\ e.count = 0 /\ e.pack \in Seq(Values) /\ Len(e.pack) < Group
        /\ Len(e.pack) <= Len(given) /\ Len(e.pack) \in Nat
    BY <1>5, HoldsSpells
  <2>2. PICK w \in Seq(Values) :
           Spells(m.stream, w) /\ given = (w \o e.pack) \o Repeat(e.prev, e.count)
    BY <1>5, HoldsWords
  <2>3. stream' = m.stream \o PackedOrRuns(e.pack) /\ enc' = f
    BY <1>1, <1>7
  <2> HIDE DEF e
  <2>4. given = w \o e.pack
    <3>1. w \o e.pack \in Seq(Values)
      BY <2>1, ConcatProperties
    <3>2. QED BY <2>1, <2>2, <3>1, RepeatNever, ConcatEmptySeq
  <2>5. Spells(PackedOrRuns(e.pack), e.pack)
    BY <1>3, <1>4, <2>1, Constants, PackedOrRunsSpells
  <2>6. Spells(stream', given)
    BY <2>2, <2>3, <2>4, <2>5, SpellsBoth
  <2>7. f \in Encoders /\ f.count = 0 /\ f.pack = <<>>
    <3>1. <<>> \in Seq(Values)
      OBVIOUS
    <3>2. QED BY <2>1, <3>1 DEF Encoders
  <2>8. QED BY <2>3, <2>6, <2>7
<1>8. QED BY <1>6, <1>7

LEMMA FlushKeeps ==
    ASSUME HybridInv, Flush
    PROVE  HybridInv'
<1>1. /\ phase = "encode" /\ phase' = "decode" /\ given' = given
      /\ dec' = dec /\ from' = from /\ result' = result
  BY DEF Flush
<1>2. Encoding /\ Types
  BY <1>1 DEF HybridInv
<1>3. /\ Spells(stream', given) /\ enc' \in Encoders /\ enc'.count = 0 /\ enc'.pack = <<>>
  BY <1>2, FlushedIs
<1>4. dec = Fresh /\ from = 0 /\ result = Nothing
  BY <1>2 DEF Encoding
<1>5. given \in Seq(Values) /\ Len(given) \in Nat /\ given = StreamValues(stream')
      /\ stream' \in Seq(Runs)
  BY <1>3, SpellsType DEF Spells
<1>6. Types'
  BY <1>1, <1>2, <1>3, <1>5 DEF Types
<1>7. from' + Len(result'.out) = 0 /\ result'.out = <<>> /\ result'.asked = 0
  BY <1>1, <1>4 DEF Nothing
<1>8. DeliveredInOrder' /\ ShortMeansEnd'
  <2>1. SubSeq(given', from' + 1, from' + Len(result'.out)) = <<>>
    BY <1>1, <1>4, <1>7, SubSeqEmpty
  <2>2. from' + Len(result'.out) <= Len(given')
    BY <1>1, <1>5, <1>7
  <2>3. DeliveredInOrder'
    BY <1>7, <2>1, <2>2 DEF DeliveredInOrder
  <2>4. Len(result'.out) = 0
    BY <1>7
  <2>5. ~(Len(result'.out) < result'.asked)
    BY <1>7, <2>4
  <2>6. ShortMeansEnd'
    BY <2>5 DEF ShortMeansEnd
  <2>7. QED BY <2>3, <2>6
<1>9. StandsAt(dec, from + Len(result.out))'
  <2>1. UpTo(RunsValues(stream'), 0) = <<>>
    BY <1>5, RunsValuesType, FlattenUpTo
  <2>2. dec'.ok = TRUE /\ dec'.left = 0 /\ dec'.at = 1
    BY <1>1, <1>4 DEF Fresh
  <2>3. Between(dec, 0)'
    <3>1. Passed(0)'
      BY <1>5 DEF Passed
    <3>2. Place(0)' = 0
      BY <2>1 DEF Place
    <3>3. QED BY <2>2, <3>1, <3>2 DEF Between
  <2>4. 0 \in 0 .. Len(given')
    BY <1>1, <1>5
  <2>5. QED BY <1>7, <2>2, <2>3, <2>4 DEF StandsAt
<1>10. Decoding'
  BY <1>1, <1>3, <1>5, <1>8, <1>9 DEF Decoding
<1>11. QED BY <1>1, <1>6, <1>10 DEF HybridInv

-------------------------------------------------------------------------------
(* Where the runs of the stream are among the values given.                *)

Reading == stream \in Seq(Runs) /\ given = StreamValues(stream)

LEMMA PlaceIs ==
    ASSUME Reading
    PROVE  /\ Len(stream) \in Nat /\ Place(0) = 0
           /\ \A i \in 0 .. Len(stream) : Place(i) \in Nat
           /\ \A i \in 1 .. Len(stream) :
                 /\ stream[i] \in Runs /\ RunValues(stream[i]) \in Seq(Values)
                 /\ Len(RunValues(stream[i])) \in Nat
                 /\ Place(i) = Place(i - 1) + Len(RunValues(stream[i]))
<1> DEFINE v == RunsValues(stream)
<1>1. stream \in Seq(Runs) /\ Len(stream) \in Nat
  BY DEF Reading
<1>2. /\ v \in Seq(Seq(Values)) /\ Len(v) = Len(stream)
      /\ \A i \in 1 .. Len(stream) : v[i] = RunValues(stream[i])
  BY <1>1, RunsValuesType
<1>3. \A i : Place(i) = Len(UpTo(v, i))
  BY DEF Place
<1> HIDE DEF v
<1>4. /\ UpTo(v, 0) = <<>>
      /\ \A c \in 0 .. Len(v) : UpTo(v, c) \in Seq(Values)
      /\ \A c \in 1 .. Len(v) : UpTo(v, c) = UpTo(v, c - 1) \o v[c]
  BY <1>2, FlattenUpTo
<1>5. Place(0) = 0
  BY <1>3, <1>4
<1>6. \A i \in 0 .. Len(stream) : Place(i) \in Nat
  BY <1>2, <1>3, <1>4
<1>7. ASSUME NEW i \in 1 .. Len(stream)
      PROVE  /\ stream[i] \in Runs /\ RunValues(stream[i]) \in Seq(Values)
             /\ Len(RunValues(stream[i])) \in Nat
             /\ Place(i) = Place(i - 1) + Len(RunValues(stream[i]))
  <2>1. i \in 1 .. Len(v) /\ i - 1 \in 0 .. Len(v)
    BY <1>1, <1>2
  <2>2. stream[i] \in Runs /\ v[i] \in Seq(Values) /\ v[i] = RunValues(stream[i])
    BY <1>1, <1>2, RunValuesType
  <2>3. UpTo(v, i) = UpTo(v, i - 1) \o v[i] /\ UpTo(v, i - 1) \in Seq(Values)
    BY <1>4, <2>1
  <2> DEFINE u == UpTo(v, i - 1)
             w == v[i]
  <2> HIDE DEF u, w
  <2>4. u \in Seq(Values) /\ w \in Seq(Values) /\ UpTo(v, i) = u \o w
    BY <2>2, <2>3 DEF u, w
  <2>5. Len(u \o w) = Len(u) + Len(w) /\ Len(w) \in Nat
    BY <2>4, ConcatProperties
  <2>6. QED BY <1>3, <2>2, <2>4, <2>5 DEF u, w
<1>8. QED BY <1>1, <1>5, <1>6, <1>7

\* A run that is reached is found in the values given.
Located(r, at) ==
    /\ at + Len(RunValues(r)) <= Len(given)
    /\ SubSeq(given, at + 1, at + Len(RunValues(r))) = RunValues(r)

LEMMA RunLocated ==
    ASSUME Reading, NEW i \in 1 .. Len(stream), Passed(i - 1)
    PROVE  Located(stream[i], Place(i - 1)) /\ i <= Stop(stream) /\ given \in Seq(Values)
<1> DEFINE v == RunsValues(stream)
           s == Stop(stream)
<1>1. stream \in Seq(Runs) /\ Len(stream) \in Nat /\ given = UpTo(v, s)
      /\ given \in Seq(Values)
  BY StreamValuesIs DEF Reading
<1>2. /\ v \in Seq(Seq(Values)) /\ Len(v) = Len(stream)
      /\ \A j \in 1 .. Len(stream) : v[j] = RunValues(stream[j])
  BY <1>1, RunsValuesType
<1>3. s \in 0 .. Len(stream) /\ i <= s
  <2>1. /\ s \in 0 .. Len(stream)
        /\ IsWhole(stream) => s = Len(stream)
        /\ ~IsWhole(stream) => s \in 1 .. Len(stream) /\ Incomplete(stream[s])
    BY <1>1, StopIs
  <2>2. \A j \in 1 .. i - 1 : ~Incomplete(stream[j])
    BY DEF Passed
  <2>3. CASE IsWhole(stream)
    BY <1>1, <2>1, <2>3
  <2>4. CASE ~IsWhole(stream)
    <3>1. s \notin 1 .. i - 1 /\ s \in 1 .. Len(stream)
      BY <2>1, <2>2, <2>4
    <3> HIDE DEF s
    <3>2. QED BY <1>1, <2>1, <3>1
  <2>5. QED BY <2>3, <2>4
<1> DEFINE at == Place(i - 1)
           r == RunValues(stream[i])
<1>4. at = Len(UpTo(v, i - 1)) /\ v[i] = r
  BY <1>2 DEF Place
<1> HIDE DEF v, s, at, r
<1>5. i \in 1 .. Len(v) /\ s \in i .. Len(v)
  BY <1>1, <1>2, <1>3
<1>6. FoundIn(v, i, s, Len(UpTo(v, i - 1)), Len(v[i]))
  BY <1>2, <1>5, FlattenPart
<1>7. FoundIn(v, i, s, at, Len(r)) /\ v[i] = r
  BY <1>4, <1>6
<1>8. at + Len(r) <= Len(given) /\ SubSeq(given, at + 1, at + Len(r)) = r
  BY <1>1, <1>7 DEF FoundIn
<1>9. QED BY <1>1, <1>3, <1>8 DEF Located, at, r, s

\* Where the values end.
LEMMA EndIs ==
    ASSUME Reading, NEW i \in 0 .. Len(stream), Passed(i)
    PROVE  /\ Place(i) <= Len(given) /\ Len(given) \in Nat
           /\ i = Len(stream) => IsWhole(stream) /\ Len(given) = Place(i)
           /\ i < Len(stream) /\ Incomplete(stream[i + 1]) =>
                 ~IsWhole(stream) /\ Len(given) = Place(i + 1)
<1>1. stream \in Seq(Runs) /\ Len(stream) \in Nat /\ given = UpTo(RunsValues(stream), Stop(stream))
      /\ given \in Seq(Values)
  BY StreamValuesIs DEF Reading
<1>2. Len(given) = Place(Stop(stream)) /\ Len(given) \in Nat
  BY <1>1 DEF Place
<1>3. \A j \in 1 .. i : ~Incomplete(stream[j])
  BY DEF Passed
<1>4. DOMAIN stream = 1 .. Len(stream)
  BY <1>1
<1>5. ASSUME i = Len(stream) PROVE IsWhole(stream) /\ Len(given) = Place(i)
  <2>1. IsWhole(stream)
    BY <1>3, <1>4, <1>5 DEF IsWhole
  <2>2. QED BY <1>1, <1>2, <1>5, <2>1, StopIs
<1>6. ASSUME i < Len(stream), Incomplete(stream[i + 1])
      PROVE  ~IsWhole(stream) /\ Len(given) = Place(i + 1)
  <2>1. i + 1 \in 1 .. Len(stream) /\ (i + 1) - 1 = i
    BY <1>1, <1>6
  <2>2. ~IsWhole(stream)
    BY <1>4, <1>6, <2>1 DEF IsWhole
  <2>3. i + 1 <= Stop(stream) /\ Stop(stream) \in 0 .. Len(stream)
        /\ \A j \in 1 .. Stop(stream) - 1 : ~Incomplete(stream[j])
    BY <1>1, <2>1, RunLocated, StopIs
  <2>4. PICK s \in Nat : s = Stop(stream)
    BY <1>1, <2>3
  <2>5. i + 1 \notin 1 .. s - 1
    BY <1>6, <2>3, <2>4
  <2>6. s = i + 1
    BY <2>3, <2>4, <2>5
  <2>7. QED BY <1>2, <2>2, <2>4, <2>6
<1>7. Place(i) <= Len(given)
  <2>1. CASE i = Len(stream)
    BY <1>2, <1>5, <2>1
  <2>2. CASE i < Len(stream)
    <3>1. i + 1 \in 1 .. Len(stream) /\ (i + 1) - 1 = i
      BY <1>1, <2>2
    <3>2. Located(stream[i + 1], Place(i))
      BY <3>1, RunLocated
    <3>3. Place(i) \in Nat /\ Len(RunValues(stream[i + 1])) \in Nat
      BY <3>1, PlaceIs
    <3>4. QED BY <1>2, <3>2, <3>3 DEF Located
  <2>3. QED BY <1>1, <2>1, <2>2
<1>8. QED BY <1>2, <1>5, <1>6, <1>7

-------------------------------------------------------------------------------
(* The decoder: each operation keeps it where it stands.                   *)

LEMMA EmptyRuns ==
    ASSUME NEW r \in Runs, Empty(r)
    PROVE  ~Incomplete(r) /\ Len(RunValues(r)) = 0
<1>1. r.n = 0 /\ r.kind \in {"rle", "packed"}
  BY KindsOfRuns DEF Empty
<1>2. CASE r.kind = "rle"
  <2>1. r.data = <<>>
    <3>1. r.data \in Seq(Values) /\ Len(r.data) <= 0
      BY <1>1, <1>2, KindsOfRuns
    <3>2. QED BY <3>1
  <2>2. RunValues(r) = <<>>
    BY <1>2, <2>1, RunValuesType
  <2>3. QED BY <1>1, <1>2, <2>2 DEF Incomplete
<1>3. CASE r.kind = "packed"
  <2>1. r.data \in Seq(Groups) /\ Len(r.data) <= 0
    BY <1>1, <1>3, KindsOfRuns
  <2>2. Len(r.data) = 0
    BY <2>1
  <2>3. Len(RunValues(r)) = 0
    BY <1>3, <2>2, Constants, RunValuesType
  <2>4. QED BY <1>1, <1>3, <2>2, <2>3 DEF Incomplete
<1>4. QED BY <1>1, <1>2, <1>3

\* Empty runs are passed without giving a value.
LEMMA EmptiesPassed ==
    ASSUME Reading, NEW i \in Nat, Passed(i), NEW j \in Nat, i <= j, j <= Len(stream),
           \A k \in i + 1 .. j : Empty(stream[k])
    PROVE  Passed(j) /\ Place(j) = Place(i)
<1> DEFINE T == {n \in Nat : i + n <= j => Passed(i + n) /\ Place(i + n) = Place(i)}
<1>1. Len(stream) \in Nat
  BY PlaceIs
<1>2. 0 \in T
  <2>1. i + 0 = i
    OBVIOUS
  <2>2. QED BY <2>1
<1>3. ASSUME NEW n \in Nat, n \in T PROVE n + 1 \in T
  <2> SUFFICES ASSUME i + (n + 1) <= j
               PROVE  Passed(i + (n + 1)) /\ Place(i + (n + 1)) = Place(i)
    OBVIOUS
  <2>1. PICK k \in Nat : k = i + n /\ k + 1 = i + (n + 1)
    OBVIOUS
  <2>2. k + 1 \in i + 1 .. j /\ k + 1 \in 1 .. Len(stream) /\ (k + 1) - 1 = k /\ k <= j
    BY <1>1, <2>1
  <2>3. Passed(k) /\ Place(k) = Place(i)
    BY <1>3, <2>1, <2>2
  <2>4. Empty(stream[k + 1]) /\ stream[k + 1] \in Runs
        /\ Place(k + 1) = Place(k) + Len(RunValues(stream[k + 1]))
        /\ Place(k) \in Nat
    BY <1>1, <2>2, PlaceIs
  <2>5. ~Incomplete(stream[k + 1]) /\ Len(RunValues(stream[k + 1])) = 0
    BY <2>4, EmptyRuns
  <2>6. Place(k + 1) = Place(i)
    BY <2>3, <2>4, <2>5
  <2>7. Passed(k + 1)
    <3>1. \A m \in 1 .. k + 1 : m \in 1 .. k \/ m = k + 1
      OBVIOUS
    <3>2. k + 1 <= Len(stream)
      BY <2>2
    <3>3. QED BY <2>3, <2>5, <3>1, <3>2 DEF Passed
  <2>8. QED BY <2>1, <2>6, <2>7
<1>4. Nat \subseteq T
  <2> HIDE DEF T
  <2>1. QED BY <1>2, <1>3, Induction
<1>5. PICK n \in Nat : n = j - i
  OBVIOUS
<1>6. n \in T /\ i + n = j
  BY <1>4, <1>5
<1>7. QED BY <1>6

\* start_new_run
LEMMA NextRunAt ==
    ASSUME Reading, NEW d \in Decoders, NEW p, StandsAt(d, p), d.ok, d.left = 0
    PROVE  /\ NextRun(d) \in Decoders /\ StandsAt(NextRun(d), p)
           /\ NextRun(d).ok /\ NextRun(d).left = 0 => NextRun(d).at > Len(stream)
<1>1. /\ d.at \in Nat /\ d.at > 0 /\ d.left \in Nat /\ d.used \in Nat /\ d.group \in Seq(Values)
      /\ d.ok \in BOOLEAN
  BY DEF Decoders
<1>2. p \in 0 .. Len(given) /\ Passed(d.at - 1) /\ p = Place(d.at - 1)
  BY DEF StandsAt, Between
<1>3. Len(stream) \in Nat /\ d.at - 1 <= Len(stream) /\ d.at - 1 \in Nat
  BY <1>1, <1>2, PlaceIs DEF Passed
<1> DEFINE begun == {i \in d.at .. Len(stream) : ~Empty(stream[i])}
           first == Min(begun)
           r == stream[first]
           here == [d EXCEPT !.at = first + 1, !.used = 0, !.group = <<>>]
<1>4. NextRun(d) = IF begun = {} THEN [d EXCEPT !.at = Len(stream) + 1]
                   ELSE IF r.kind = "cut" THEN Bad([d EXCEPT !.at = first])
                   ELSE IF r.kind = "packed" THEN [here EXCEPT !.left = r.n * Group]
                   ELSE IF r.data = <<>> THEN Bad([here EXCEPT !.left = r.n])
                   ELSE [here EXCEPT !.left = r.n]
  BY DEF NextRun
<1>5. begun \subseteq Nat /\ \A i \in d.at .. Len(stream) : i \notin begun => Empty(stream[i])
  BY <1>1
<1>6. CASE begun = {}
  <2> DEFINE e == [d EXCEPT !.at = Len(stream) + 1]
  <2>1. e \in Decoders /\ e.at = Len(stream) + 1 /\ e.left = 0 /\ e.ok
    <3>1. Len(stream) + 1 \in Nat \ {0}
      BY <1>3
    <3>2. QED BY <1>1, <3>1 DEF Decoders
  <2>2. NextRun(d) = e
    BY <1>4, <1>6
  <2>3. \A k \in (d.at - 1) + 1 .. Len(stream) : Empty(stream[k])
    BY <1>1, <1>3, <1>5, <1>6
  <2> HIDE DEF e, begun
  <2>4. Passed(Len(stream)) /\ Place(Len(stream)) = p
    BY <1>2, <1>3, <2>3, EmptiesPassed
  <2>5. e.at - 1 = Len(stream)
    BY <1>3, <2>1
  <2>6. StandsAt(e, p)
    BY <1>2, <2>1, <2>4, <2>5 DEF StandsAt, Between
  <2>7. QED BY <1>3, <2>1, <2>2, <2>6
<1>7. CASE begun # {}
  <2>1. first \in begun /\ \A i \in begun : first <= i
    <3>1. \E m \in begun : \A i \in begun : m <= i
      BY <1>5, <1>7, LeastNatural
    <3> HIDE DEF begun
    <3>2. QED BY <3>1 DEF Min
  <2>2. PICK f \in Nat : f = first
    BY <1>5, <2>1
  <2>3. /\ f \in d.at .. Len(stream) /\ f - 1 \in Nat /\ f \in 1 .. Len(stream)
        /\ ~Empty(stream[f]) /\ r = stream[f]
    BY <1>1, <2>1, <2>2
  <2>4. \A k \in (d.at - 1) + 1 .. f - 1 : Empty(stream[k])
    <3>1. \A k \in (d.at - 1) + 1 .. f - 1 : k \in d.at .. Len(stream) /\ ~(f <= k)
      BY <1>1, <1>3, <2>3
    <3> HIDE DEF begun, first
    <3>2. QED BY <1>5, <2>1, <2>2, <3>1
  <2> DEFINE q == stream[f]
             h == [d EXCEPT !.at = f + 1, !.used = 0, !.group = <<>>]
  <2>5. NextRun(d) = IF q.kind = "cut" THEN Bad([d EXCEPT !.at = f])
                     ELSE IF q.kind = "packed" THEN [h EXCEPT !.left = q.n * Group]
                     ELSE IF q.data = <<>> THEN Bad([h EXCEPT !.left = q.n])
                     ELSE [h EXCEPT !.left = q.n]
    <3> HIDE DEF begun, first
    <3>1. QED BY <1>4, <1>7, <2>2
  <2> HIDE DEF begun, first, r
  <2>6. Passed(f - 1) /\ Place(f - 1) = p
    <3>1. d.at - 1 <= f - 1 /\ f - 1 <= Len(stream)
      BY <1>1, <1>3, <2>3
    <3>2. QED BY <1>2, <1>3, <2>3, <2>4, <3>1, EmptiesPassed
  <2>7. q \in Runs /\ q.n \in Nat /\ Place(f) = p + Len(RunValues(q)) /\ p \in Nat
    <3>1. q \in Runs /\ Place(f) = Place(f - 1) + Len(RunValues(q))
      BY <2>3, PlaceIs
    <3>2. p \in Nat
      BY <1>2
    <3>3. QED BY <2>6, <3>1, <3>2, KindsOfRuns
  \* Where nothing more can be read, the values have ended.
  <2>8. Incomplete(q) /\ Len(RunValues(q)) = 0 => p = Len(given) /\ ~IsWhole(stream)
    <3>1. f - 1 \in 0 .. Len(stream) /\ f - 1 < Len(stream) /\ (f - 1) + 1 = f
      BY <1>3, <2>3
    <3>2. Incomplete(q) => ~IsWhole(stream) /\ Len(given) = Place(f)
      BY <2>6, <3>1, EndIs
    <3>3. QED BY <2>7, <3>2
  <2>9. q.kind \in {"rle", "packed", "cut"}
    BY <2>7, KindsOfRuns
  <2>10. /\ h \in Decoders /\ h.at = f + 1 /\ h.used = 0 /\ h.group = <<>> /\ h.ok = TRUE
    <3>1. <<>> \in Seq(Values) /\ 0 \in Nat /\ f + 1 \in Nat \ {0}
      OBVIOUS
    <3>2. QED BY <1>1, <3>1 DEF Decoders
  <2>11. f + 1 \in 2 .. Len(stream) + 1 /\ (f + 1) - 2 = f - 1 /\ (f + 1) - 1 = f
    BY <1>3, <2>3
  <2>12. CASE q.kind = "cut"
    <3> DEFINE c == [d EXCEPT !.at = f]
               e == Bad(c)
    <3>1. c \in Decoders /\ c.ok \in BOOLEAN
      <4>1. f \in Nat \ {0}
        BY <2>3
      <4>2. QED BY <4>1 DEF Decoders
    <3> HIDE DEF c
    <3>2. e \in Decoders /\ e.ok = FALSE
      BY <3>1 DEF Decoders, Bad
    <3>3. NextRun(d) = e
      BY <2>5, <2>12 DEF c
    <3>4. Incomplete(q) /\ Len(RunValues(q)) = 0
      BY <2>7, <2>12, RunValuesType DEF Incomplete
    <3> HIDE DEF e, q
    <3>5. StandsAt(e, p)
      BY <1>2, <2>8, <3>2, <3>4 DEF StandsAt
    <3>6. QED BY <3>2, <3>3, <3>5
  <2>13. CASE q.kind = "packed"
    <3> DEFINE e == [h EXCEPT !.left = q.n * Group]
    <3>1. NextRun(d) = e
      BY <2>5, <2>13
    <3>2. q.n # 0 /\ Len(q.data) \in Nat /\ Group \in Nat /\ Group > 1
      BY <2>3, <2>7, <2>13, KindsOfRuns, Constants DEF Empty
    <3> HIDE DEF q, h
    <3>3. PICK m \in Nat : m = q.n * Group /\ m > 0 /\ (q.n - 0) * Group + 0 = m
                           /\ p + 0 * Group - 0 = p
      BY <2>7, <3>2
    <3>4. e \in Decoders /\ e.left = m /\ e.at = f + 1 /\ e.used = 0 /\ e.group = <<>> /\ e.ok
      BY <2>10, <3>3 DEF Decoders
    <3> HIDE DEF e
    <3>5. InPacked(e, q, p)
      <4>1. InHand(e, q) = <<>> /\ Len(e.group) = 0
        BY <3>4 DEF InHand
      <4>2. q.kind = "packed" /\ e.used <= Len(q.data) /\ Len(e.group) <= Group
        BY <2>13, <3>2, <3>4, <4>1
      <4>3. e.left = (q.n - e.used) * Group + Len(e.group)
        BY <3>3, <3>4, <4>1
      <4>4. p = Place(e.at - 2) + e.used * Group - Len(e.group)
        BY <2>6, <2>11, <3>3, <3>4, <4>1
      <4>5. QED BY <3>4, <4>1, <4>2, <4>3, <4>4 DEF InPacked
    <3>6. StandsAt(e, p)
      BY <1>2, <2>6, <2>11, <3>3, <3>4, <3>5 DEF StandsAt, Inside, q
    <3>7. QED BY <3>1, <3>3, <3>4, <3>6
  <2>14. CASE q.kind = "rle" /\ q.data = <<>>
    <3> DEFINE c == [h EXCEPT !.left = q.n]
               e == Bad(c)
    <3>1. NextRun(d) = e
      BY <2>5, <2>14
    <3>2. q.n > 0
      BY <2>3, <2>7, <2>14 DEF Empty
    <3> HIDE DEF h
    <3>3. c \in Decoders /\ c.ok \in BOOLEAN
      BY <2>7, <2>10 DEF Decoders
    <3> HIDE DEF c
    <3>4. e \in Decoders /\ e.ok = FALSE
      BY <3>3 DEF Decoders, Bad
    <3>5. Incomplete(q) /\ Len(RunValues(q)) = 0
      BY <2>7, <2>14, <3>2, RunValuesType DEF Incomplete
    <3> HIDE DEF e, q
    <3>6. StandsAt(e, p)
      BY <1>2, <2>8, <3>4, <3>5 DEF StandsAt
    <3>7. QED BY <3>1, <3>4, <3>6
  <2>15. CASE q.kind = "rle" /\ q.data # <<>>
    <3> DEFINE e == [h EXCEPT !.left = q.n]
    <3>1. NextRun(d) = e
      BY <2>5, <2>15
    <3>2. q.n > 0
      BY <2>3, <2>7, <2>15 DEF Empty
    <3> HIDE DEF h
    <3>3. e \in Decoders /\ e.left = q.n /\ e.at = f + 1 /\ e.ok
      BY <2>7, <2>10 DEF Decoders
    <3> HIDE DEF e, q
    <3>4. InRle(e, q, p)
      <4>1. e.left <= q.n /\ q.n - e.left = 0 /\ p + 0 = p
        BY <2>7, <3>3
      <4>2. p = Place(e.at - 2) + (q.n - e.left)
        BY <2>6, <2>11, <3>3, <4>1
      <4>3. QED BY <2>15, <4>1, <4>2 DEF InRle
    <3>5. StandsAt(e, p)
      BY <1>2, <2>6, <2>7, <2>11, <3>2, <3>3, <3>4 DEF StandsAt, Inside, q
    <3>6. QED BY <2>7, <3>1, <3>2, <3>3, <3>5
  <2>16. QED BY <2>9, <2>12, <2>13, <2>14, <2>15
<1>8. QED BY <1>6, <1>7

\* A decoder in hand of a packed run: what it knows.
LEMMA PackedIs ==
    ASSUME NEW d \in Decoders, NEW r \in Runs, NEW p, InPacked(d, r, p)
    PROVE  /\ r.data \in Seq(Groups) /\ Len(r.data) \in Nat /\ r.n \in Nat /\ Len(r.data) <= r.n
           /\ d.used \in Nat /\ d.used <= Len(r.data) /\ d.group \in Seq(Values)
           /\ Len(d.group) \in Nat /\ Len(d.group) <= Group
           /\ d.left = (r.n - d.used) * Group + Len(d.group)
           /\ p = Place(d.at - 2) + d.used * Group - Len(d.group)
           /\ Len(RunValues(r)) = Len(r.data) * Group
<1>1. r.kind = "packed"
  BY DEF InPacked
<1>2. r.data \in Seq(Groups) /\ Len(r.data) <= r.n /\ r.n \in Nat
      /\ Len(RunValues(r)) = Len(r.data) * Group
  BY <1>1, KindsOfRuns, RunValuesType
<1>3. d.used \in Nat /\ d.group \in Seq(Values)
  BY DEF Decoders
<1>4. QED BY <1>2, <1>3 DEF InPacked

LEMMA GroupStep ==
    ASSUME NEW n \in Nat, NEW u \in Nat
    PROVE  /\ (n - u) * Group = (n - (u + 1)) * Group + Group
           /\ u * Group = (u + 1) * Group - Group
           /\ u * Group \in Nat
           /\ n > u => (n - u) * Group >= Group
           /\ n = u => (n - u) * Group = 0
<1>1. Group \in Nat /\ Group > 1
  BY Constants
<1>2. (u + 1) * Group = u * Group + Group
  BY <1>1
<1>3. (n - u) * Group = (n - (u + 1)) * Group + Group
  <2>1. PICK k \in Int : k = n - (u + 1) /\ n - u = k + 1
    OBVIOUS
  <2>2. (k + 1) * Group = k * Group + Group
    BY <1>1
  <2>3. QED BY <2>1, <2>2
<1>4. u * Group \in Nat
  BY <1>1
<1>5. ASSUME n > u PROVE (n - u) * Group >= Group
  <2>1. PICK k \in Nat : n - u = k + 1
    <3>1. n - u - 1 \in Nat /\ n - u = (n - u - 1) + 1
      BY <1>5
    <3>2. QED BY <3>1
  <2>2. (k + 1) * Group = k * Group + Group /\ k * Group \in Nat
    BY <1>1
  <2>3. QED BY <1>1, <2>1, <2>2
<1>6. ASSUME n = u PROVE (n - u) * Group = 0
  <2>1. n - u = 0
    BY <1>6
  <2>2. 0 * Group = 0
    BY <1>1
  <2>3. QED BY <2>1, <2>2
<1>7. u * Group = (u + 1) * Group - Group
  BY <1>1, <1>2, <1>4
<1>8. QED BY <1>3, <1>4, <1>5, <1>6, <1>7

\* fill_bitpack_buffer
LEMMA FilledAt ==
    ASSUME Reading, NEW d \in Decoders, NEW p, StandsAt(d, p), d.ok, d.left > 0, ~InRleRun(d)
    PROVE  /\ Filled(d) \in Decoders /\ StandsAt(Filled(d), p)
           /\ Filled(d).left = d.left /\ Filled(d).at = d.at
           /\ Filled(d).ok => Filled(d).group # <<>>
<1> DEFINE r == stream[d.at - 1]
<1>1. /\ d.at \in Nat /\ d.left \in Nat /\ d.used \in Nat /\ d.group \in Seq(Values)
      /\ d.ok \in BOOLEAN
  BY DEF Decoders
<1>2. /\ p \in 0 .. Len(given) /\ d.at \in 2 .. Len(stream) + 1 /\ Passed(d.at - 2)
      /\ InRle(d, r, p) \/ InPacked(d, r, p)
  BY DEF StandsAt, Inside
<1>3. r.kind # "rle"
  BY DEF InRleRun, CurrentRun
<1>4. InPacked(d, r, p)
  BY <1>2, <1>3 DEF InRle
<1>5. PICK i \in Nat : i = d.at - 1 /\ i \in 1 .. Len(stream) /\ d.at - 2 = i - 1 /\ d.at = i + 1
  BY <1>1, <1>2, PlaceIs
<1>6. r = stream[i] /\ r \in Runs /\ Place(i) = Place(i - 1) + Len(RunValues(r)) /\ Place(i - 1) \in Nat
      /\ Len(stream) \in Nat
  <2>1. i - 1 \in 0 .. Len(stream)
    BY <1>5
  <2>2. QED BY <1>5, <2>1, PlaceIs
<1>7. CurrentRun(d) = r
  BY DEF CurrentRun
<1> HIDE DEF r
<1>8. /\ r.data \in Seq(Groups) /\ Len(r.data) \in Nat /\ r.n \in Nat /\ Len(r.data) <= r.n
      /\ d.used <= Len(r.data) /\ Len(d.group) \in Nat /\ Len(d.group) <= Group
      /\ d.left = (r.n - d.used) * Group + Len(d.group)
      /\ p = Place(d.at - 2) + d.used * Group - Len(d.group)
      /\ Len(RunValues(r)) = Len(r.data) * Group
  BY <1>4, <1>6, PackedIs
<1>9. Group \in Nat /\ Group > 1
  BY Constants
<1>10. CASE d.group # <<>>
  <2>1. Filled(d) = d
    BY <1>10 DEF Filled
  <2>2. QED BY <1>10, <2>1
<1>11. CASE d.group = <<>> /\ d.used = Len(r.data)
  <2>1. Filled(d) = Bad(d)
    BY <1>7, <1>11 DEF Filled
  <2>2. Bad(d) \in Decoders /\ Bad(d).ok = FALSE /\ Bad(d).left = d.left /\ Bad(d).at = d.at
    BY <1>1 DEF Bad, Decoders
  <2>3. Len(d.group) = 0
    BY <1>11
  <2>4. r.n # d.used
    <3>1. r.n = d.used => (r.n - d.used) * Group = 0
      BY <1>1, <1>8, GroupStep
    <3>2. QED BY <1>8, <2>3, <3>1
  <2>5. Incomplete(r)
    <3>1. Len(r.data) < r.n
      BY <1>1, <1>8, <1>11, <2>4
    <3>2. r.kind = "packed"
      BY <1>4 DEF InPacked
    <3>3. QED BY <3>1, <3>2 DEF Incomplete
  <2>6. ~IsWhole(stream) /\ Len(given) = Place(i)
    <3>1. i - 1 \in 0 .. Len(stream) /\ (i - 1) + 1 = i /\ i - 1 < Len(stream)
      <4>1. i \in 1 .. Len(stream) /\ Len(stream) \in Nat
        BY <1>5, <1>6
      <4>2. QED BY <4>1
    <3>2. Passed(i - 1) /\ Incomplete(stream[i])
      BY <1>2, <1>5, <1>6, <2>5
    <3>3. QED BY <3>1, <3>2, EndIs
  <2>7. p = Place(i)
    <3>1. PICK g \in Nat : g = Len(r.data) * Group
      BY <1>1, <1>8, <1>9, GroupStep
    <3>2. p = Place(i - 1) + g - 0
      BY <1>5, <1>8, <1>11, <2>3, <3>1
    <3>3. QED BY <1>6, <1>8, <3>1, <3>2
  <2> HIDE DEF Bad
  <2>8. StandsAt(Bad(d), p)
    BY <1>2, <2>2, <2>6, <2>7 DEF StandsAt
  <2>9. QED BY <2>1, <2>2, <2>8
<1>12. CASE d.group = <<>> /\ d.used # Len(r.data)
  <2> DEFINE g == r.data[d.used + 1]
             e == [d EXCEPT !.group = g, !.used = @ + 1]
  <2>1. Filled(d) = e
    BY <1>7, <1>12 DEF Filled
  <2>2. d.used + 1 \in 1 .. Len(r.data)
    BY <1>1, <1>8, <1>12
  <2>3. g \in Groups
    BY <1>8, <2>2
  <2>4. g \in Seq(Values) /\ Len(g) = Group /\ g # <<>>
    BY <1>9, <2>3, GroupsAreSequences
  <2> HIDE DEF g
  <2>5. e \in Decoders /\ e.group = g /\ e.used = d.used + 1 /\ e.left = d.left /\ e.at = d.at
        /\ e.ok = d.ok
    <3> DEFINE u == d.used + 1
    <3>1. u \in Nat /\ g \in Seq(Values)
      BY <1>1, <2>4
    <3>2. e = [d EXCEPT !.group = g, !.used = u]
      OBVIOUS
    <3> HIDE DEF u, e
    <3>3. e \in Decoders /\ e.group = g /\ e.used = u /\ e.left = d.left /\ e.at = d.at
          /\ e.ok = d.ok
      BY <3>1, <3>2 DEF Decoders
    <3>4. QED BY <3>3 DEF u
  <2> HIDE DEF e
  <2>6. InPacked(e, r, p)
    <3>1. Len(d.group) = 0
      BY <1>12
    <3>2. r.kind = "packed" /\ e.used <= Len(r.data) /\ Len(e.group) <= Group
      BY <1>4, <1>9, <2>2, <2>4, <2>5 DEF InPacked
    <3>3. e.group = InHand(e, r)
      <4>1. Group - Len(e.group) + 1 = 1 /\ e.used # 0
        BY <1>1, <1>9, <2>4, <2>5
      <4>2. SubSeq(g, 1, Group) = g
        BY <2>4, SubSeqFull
      <4>3. QED BY <2>5, <4>1, <4>2 DEF InHand, g
    <3>4. e.left = (r.n - e.used) * Group + Len(e.group)
      <4>1. (r.n - d.used) * Group = (r.n - (d.used + 1)) * Group + Group
        BY <1>1, <1>8, GroupStep
      <4>2. d.left = (r.n - d.used) * Group + 0
        BY <1>8, <3>1
      <4>3. d.left = (r.n - d.used) * Group
        BY <1>1, <4>2, <1>8, <1>9
      <4>4. QED BY <2>4, <2>5, <4>1, <4>3
    <3>5. p = Place(e.at - 2) + e.used * Group - Len(e.group)
      <4>1. PICK a \in Nat : a = d.used * Group
        BY <1>1, GroupStep
      <4>2. PICK b \in Nat : b = (d.used + 1) * Group
        <5>1. d.used + 1 \in Nat
          BY <1>1
        <5>2. QED BY <5>1, GroupStep
      <4>3. a = b - Group
        BY <1>1, <4>1, <4>2, GroupStep
      <4>4. p = Place(i - 1) + a - 0
        BY <1>5, <1>8, <3>1, <4>1
      <4>5. p = Place(i - 1) + b - Group
        BY <1>6, <1>9, <4>3, <4>4
      <4>6. QED BY <1>5, <2>4, <2>5, <4>2, <4>5
    <3>6. QED BY <3>2, <3>3, <3>4, <3>5 DEF InPacked
  <2>7. e.left > 0 /\ e.ok
    BY <2>5
  <2>8. Inside(e, p)
    BY <1>2, <2>5, <2>6 DEF Inside, r
  <2>9. StandsAt(e, p)
    BY <1>1, <1>2, <2>5, <2>7, <2>8 DEF StandsAt
  <2>10. QED BY <2>1, <2>4, <2>5, <2>9
<1>13. QED BY <1>10, <1>11, <1>12

\* What the loop begins a round with.
LEMMA BeginAt ==
    ASSUME Reading, NEW d \in Decoders, NEW p, StandsAt(d, p), HasNext(d)
    PROVE  /\ Begin(d) \in Decoders /\ StandsAt(Begin(d), p)
           /\ Begin(d).ok /\ Begin(d).left = 0 => Begin(d).at > Len(stream)
           /\ Begin(d).ok /\ Begin(d).left > 0 /\ ~InRleRun(Begin(d)) => Begin(d).group # <<>>
<1> DEFINE s == Started(d)
<1>1. d.ok /\ d.left \in Nat
  BY DEF HasNext, Decoders
<1>2. /\ s \in Decoders /\ StandsAt(s, p)
      /\ s.ok /\ s.left = 0 => s.at > Len(stream)
  <2>1. CASE d.left = 0
    <3>1. s = NextRun(d)
      BY <2>1 DEF Started
    <3> HIDE DEF s
    <3>2. QED BY <1>1, <2>1, <3>1, NextRunAt
  <2>2. CASE d.left > 0
    <3>1. s = d
      BY <1>1, <2>2 DEF Started
    <3> HIDE DEF s
    <3>2. QED BY <1>1, <2>2, <3>1
  <2>3. QED BY <1>1, <2>1, <2>2
<1>3. Begin(d) = IF s.ok /\ s.left > 0 /\ ~InRleRun(s) THEN Filled(s) ELSE s
  BY DEF Begin
<1> HIDE DEF s
<1>4. CASE s.ok /\ s.left > 0 /\ ~InRleRun(s)
  <2> DEFINE f == Filled(s)
  <2>1. f \in Decoders /\ StandsAt(f, p) /\ f.left = s.left /\ (f.ok => f.group # <<>>)
    BY <1>2, <1>4, FilledAt
  <2>2. Begin(d) = f
    BY <1>3, <1>4
  <2>3. s.left # 0
    BY <1>2, <1>4
  <2> HIDE DEF f
  <2>4. QED BY <2>1, <2>2, <2>3
<1>5. CASE ~(s.ok /\ s.left > 0 /\ ~InRleRun(s))
  <2>1. Begin(d) = s
    BY <1>3, <1>5
  <2>2. QED BY <1>2, <1>5, <2>1
<1>6. QED BY <1>4, <1>5

LEMMA SliceIs ==
    ASSUME NEW A, NEW x \in Seq(A), NEW y \in Seq(A), NEW at \in Nat,
           at + Len(x) <= Len(y), IsSlice(x, y, at, Len(x))
    PROVE  SubSeq(y, at + 1, at + Len(x)) = x
<1> DEFINE z == SubSeq(y, at + 1, at + Len(x))
<1>1. Len(x) \in Nat
  OBVIOUS
<1>2. z \in Seq(A) /\ IsSlice(z, y, at, Len(x))
  BY <1>1, SliceParts
<1> HIDE DEF z
<1>3. Len(z) = Len(x) /\ \A i \in 1 .. Len(x) : z[i] = x[i]
  BY <1>2 DEF IsSlice
<1>4. z = x
  BY <1>2, <1>3, SeqEqual
<1>5. QED BY <1>4 DEF z

\* The values x are the next after the first p given.
NextGiven(x, p) ==
    /\ x \in Seq(Values) /\ p + Len(x) <= Len(given)
    /\ \A j \in 1 .. Len(x) : x[j] = given[p + j]

\* What is known of a decoder inside a run: the run, and where it is.
LEMMA InsideIs ==
    ASSUME Reading, NEW d \in Decoders, NEW p, Inside(d, p), p \in 0 .. Len(given)
    PROVE  /\ d.at - 1 \in 1 .. Len(stream) /\ d.at - 2 \in Nat /\ (d.at - 1) - 1 = d.at - 2
           /\ CurrentRun(d) \in Runs /\ CurrentRun(d) = stream[d.at - 1]
           /\ Place(d.at - 1) = Place(d.at - 2) + Len(RunValues(CurrentRun(d)))
           /\ Place(d.at - 2) \in Nat /\ Passed(d.at - 2)
           /\ Located(CurrentRun(d), Place(d.at - 2))
           /\ given \in Seq(Values) /\ Len(given) \in Nat /\ p \in Nat
           /\ InRleRun(d) => InRle(d, CurrentRun(d), p)
           /\ ~InRleRun(d) => InPacked(d, CurrentRun(d), p)
<1>1. /\ d.at \in 2 .. Len(stream) + 1 /\ Passed(d.at - 2)
      /\ InRle(d, stream[d.at - 1], p) \/ InPacked(d, stream[d.at - 1], p)
  BY DEF Inside
<1>2. d.at \in Nat /\ Len(stream) \in Nat
  BY PlaceIs DEF Decoders
<1>3. PICK i \in Nat : i = d.at - 1 /\ i \in 1 .. Len(stream) /\ d.at - 2 = i - 1 /\ i - 1 \in Nat
                       /\ i - 1 \in 0 .. Len(stream) /\ (d.at - 1) - 1 = d.at - 2
  BY <1>1, <1>2
<1>4. /\ stream[i] \in Runs /\ Place(i) = Place(i - 1) + Len(RunValues(stream[i]))
      /\ Place(i - 1) \in Nat
  BY <1>3, PlaceIs
<1>5. Located(stream[i], Place(i - 1)) /\ given \in Seq(Values)
  BY <1>1, <1>3, RunLocated
<1>6. CurrentRun(d) = stream[i]
  BY <1>3 DEF CurrentRun
<1>7. InRleRun(d) <=> stream[i].kind = "rle"
  BY <1>6 DEF InRleRun
<1>8. InRle(d, stream[i], p) \/ InPacked(d, stream[i], p)
  BY <1>1, <1>3
<1>9. /\ InRleRun(d) => InRle(d, CurrentRun(d), p)
      /\ ~InRleRun(d) => InPacked(d, CurrentRun(d), p)
  BY <1>6, <1>7, <1>8 DEF InRle, InPacked
<1>10. Len(given) \in Nat /\ p \in Nat
  BY <1>5
<1>11. QED BY <1>1, <1>3, <1>4, <1>5, <1>6, <1>9, <1>10

\* What an RLE run still has.
LEMMA RleOffered ==
    ASSUME NEW r \in Runs, NEW at \in Nat, Located(r, at), given \in Seq(Values),
           r.kind = "rle", r.data # <<>>, NEW left \in Nat, left <= r.n
    PROVE  NextGiven(Repeat(r.data[1], left), at + (r.n - left))
           /\ r.data[1] \in Values /\ r.n \in Nat /\ Len(RunValues(r)) = r.n
<1> DEFINE v == r.data[1]
           n == r.n
           all == Repeat(v, n)
           x == Repeat(v, left)
<1>1. v \in Values /\ n \in Nat /\ RunValues(r) = all /\ Len(RunValues(r)) = n
  BY KindsOfRuns, RunValuesType
<1> HIDE DEF v, n
<1>2. all \in Seq(Values) /\ Len(all) = n /\ \A j \in 1 .. n : all[j] = v
  <2>1. v \in Values /\ n \in Nat
    BY <1>1
  <2>2. QED BY <2>1, RepeatType
<1>3. x \in Seq(Values) /\ Len(x) = left /\ \A j \in 1 .. left : x[j] = v
  <2>1. v \in Values
    BY <1>1
  <2>2. QED BY <2>1, RepeatType
<1>4. at + n <= Len(given) /\ SubSeq(given, at + 1, at + n) = all
  BY <1>1 DEF Located
<1> HIDE DEF all, x
<1>5. IsSlice(all, given, at, n)
  <2>1. IsSlice(SubSeq(given, at + 1, at + n), given, at, n)
    BY <1>1, <1>4, SliceParts
  <2>2. QED BY <1>4, <2>1
<1>6. \A j \in 1 .. n : given[at + j] = v
  BY <1>2, <1>5 DEF IsSlice
<1>7. PICK k \in Nat : k = n - left
  BY <1>1 DEF n
<1>8. (at + k) + left = at + n /\ n = k + left
  BY <1>1, <1>7
<1>9. ASSUME NEW j \in 1 .. left PROVE x[j] = given[(at + k) + j]
  <2>1. k + j \in 1 .. n /\ at + (k + j) = (at + k) + j
    BY <1>1, <1>8
  <2>2. given[at + (k + j)] = v
    BY <1>6, <2>1
  <2>3. QED BY <1>3, <2>1, <2>2
<1>10. (at + k) + Len(x) <= Len(given)
  BY <1>3, <1>4, <1>8
<1>11. NextGiven(x, at + k)
  BY <1>3, <1>9, <1>10 DEF NextGiven
<1>12. QED BY <1>1, <1>7, <1>11 DEF x, v, n

\* The group in hand of a packed run.
LEMMA PackedOffered ==
    ASSUME NEW d \in Decoders, NEW r \in Runs, NEW p \in Nat, InPacked(d, r, p), d.group # <<>>,
           Place(d.at - 2) \in Nat, Located(r, Place(d.at - 2)), given \in Seq(Values)
    PROVE  NextGiven(d.group, p) /\ d.used \in 1 .. Len(r.data)
<1> DEFINE at == Place(d.at - 2)
           data == r.data
           used == d.used
           group == d.group
           g == Len(group)
           all == FlattenSeq(data)
           last == data[used]
<1>1. /\ data \in Seq(Groups) /\ Len(data) \in Nat
      /\ used \in Nat /\ used <= Len(data) /\ group \in Seq(Values)
      /\ g \in Nat /\ g <= Group /\ p = at + used * Group - g
      /\ RunValues(r) = all
  <2>1. r.kind = "packed"
    BY DEF InPacked
  <2>2. QED BY <2>1, PackedIs, RunValuesType
<1>2. Group \in Nat
  BY Constants
<1>3. used # 0 /\ group = SubSeq(last, Group - g + 1, Group)
  <2>1. group = InHand(d, r)
    BY DEF InPacked
  <2>2. used # 0
    BY <2>1 DEF InHand
  <2>3. QED BY <2>1, <2>2 DEF InHand
<1>4. used \in 1 .. Len(data) /\ used - 1 \in 0 .. Len(data) /\ used - 1 \in Nat
      /\ (used - 1) + 1 = used /\ Len(data) \in used .. Len(data)
  BY <1>1, <1>3
<1>5. PICK o \in Nat : o = (used - 1) * Group /\ used * Group = o + Group
  <2>1. PICK m \in Nat : m = used - 1 /\ used = m + 1
    BY <1>4
  <2>2. m * Group \in Nat /\ (m + 1) * Group = m * Group + Group
    BY <1>2
  <2>3. QED BY <2>1, <2>2
<1>6. /\ data \in Seq(Seq(Values)) /\ all \in Seq(Values) /\ Len(UpTo(data, used - 1)) = o
  BY <1>1, <1>4, <1>5, GroupsInARow
<1>7. last \in Seq(Values) /\ Len(last) = Group
  BY <1>1, <1>4, GroupsAreSequences
<1>8. /\ o + Group <= Len(all) /\ SubSeq(all, o + 1, o + Group) = last
  <2>1. UpTo(data, Len(data)) = all
    BY <1>6, FlattenUpTo
  <2>2. FoundIn(data, used, Len(data), Len(UpTo(data, used - 1)), Len(data[used]))
    <3> HIDE DEF data, used
    <3>1. QED BY <1>4, <1>6, FlattenPart
  <2> HIDE DEF all, data, used
  <2>3. FoundIn(data, used, Len(data), o, Group)
    BY <1>6, <1>7, <2>2
  <2>4. QED BY <2>1, <2>3 DEF FoundIn
<1>9. at + Len(all) <= Len(given) /\ SubSeq(given, at + 1, at + Len(all)) = all
  BY <1>1 DEF Located
<1> HIDE DEF at, data, used, group, g, all, last
<1>10. IsSlice(last, all, o, Group)
  <2>1. IsSlice(SubSeq(all, o + 1, o + Group), all, o, Group)
    BY <1>2, <1>6, <1>8, SliceParts
  <2>2. QED BY <1>8, <2>1
<1>11. at \in Nat /\ Len(all) \in Nat /\ Len(given) \in Nat
  BY <1>6 DEF at
<1>12. IsSlice(all, given, at, Len(all))
  <2>1. IsSlice(SubSeq(given, at + 1, at + Len(all)), given, at, Len(all))
    BY <1>9, <1>11, SliceParts
  <2>2. QED BY <1>9, <2>1
<1>13. PICK k \in Nat : k = Group - g /\ k + g = Group
  BY <1>1, <1>2
<1>14. IsSlice(group, last, k, g)
  <2>1. k + g <= Len(last) /\ Group - g + 1 = k + 1
    BY <1>1, <1>2, <1>7, <1>13
  <2>2. IsSlice(SubSeq(last, k + 1, k + g), last, k, g)
    BY <1>1, <1>7, <2>1, SliceParts
  <2>3. QED BY <1>3, <1>13, <2>1, <2>2
<1>15. p = at + o + k /\ p + g = at + (o + Group)
  BY <1>1, <1>2, <1>5, <1>11, <1>13
<1>16. p + g <= Len(given)
  BY <1>2, <1>8, <1>9, <1>11, <1>15
<1>17. ASSUME NEW j \in 1 .. g PROVE group[j] = given[p + j]
  <2>1. k + j \in 1 .. Group /\ o + (k + j) \in 1 .. Len(all)
        /\ at + (o + (k + j)) = p + j
    BY <1>1, <1>2, <1>8, <1>11, <1>13, <1>15
  <2>2. group[j] = last[k + j]
    BY <1>14 DEF IsSlice
  <2>3. last[k + j] = all[o + (k + j)]
    BY <1>10, <2>1 DEF IsSlice
  <2>4. all[o + (k + j)] = given[at + (o + (k + j))]
    BY <1>12, <2>1 DEF IsSlice
  <2>5. QED BY <2>1, <2>2, <2>3, <2>4
<1>18. NextGiven(group, p)
  BY <1>1, <1>16, <1>17 DEF NextGiven, g
<1>19. QED BY <1>4, <1>18 DEF group, used, data

\* What a round of the loop offers are the next values, at least one.
LEMMA OfferedAt ==
    ASSUME Reading, NEW d \in Decoders, NEW p, StandsAt(d, p), d.ok, d.left > 0,
           ~InRleRun(d) => d.group # <<>>
    PROVE  /\ NextGiven(Offered(d), p) /\ Len(Offered(d)) \in 1 .. d.left
           /\ ~InRleRun(d) => Offered(d) = d.group
<1>1. p \in 0 .. Len(given) /\ Inside(d, p) /\ d.left \in Nat
  BY DEF StandsAt, Decoders
<1> DEFINE r == CurrentRun(d)
           at == Place(d.at - 2)
<1>2. /\ r \in Runs /\ at \in Nat /\ Located(r, at) /\ given \in Seq(Values) /\ p \in Nat
      /\ InRleRun(d) => InRle(d, r, p)
      /\ ~InRleRun(d) => InPacked(d, r, p)
  BY <1>1, InsideIs
<1>3. CASE InRleRun(d)
  <2>1. r.kind = "rle" /\ r.data # <<>> /\ d.left <= r.n /\ p = at + (r.n - d.left)
    BY <1>2, <1>3 DEF InRle
  <2>2. Offered(d) = Repeat(r.data[1], d.left)
    BY <1>3 DEF Offered
  <2> HIDE DEF r, at
  <2>3. NextGiven(Repeat(r.data[1], d.left), at + (r.n - d.left)) /\ r.data[1] \in Values
    BY <1>1, <1>2, <2>1, RleOffered
  <2>4. Len(Offered(d)) = d.left
    BY <1>1, <2>2, <2>3, RepeatType
  <2>5. d.left \in 1 .. d.left
    BY <1>1
  <2>6. QED BY <1>3, <2>1, <2>2, <2>3, <2>4, <2>5
<1>4. CASE ~InRleRun(d)
  <2>1. InPacked(d, r, p) /\ d.group # <<>>
    BY <1>2, <1>4
  <2>2. NextGiven(d.group, p) /\ d.used \in 1 .. Len(r.data)
    BY <1>2, <2>1, PackedOffered
  <2>3. /\ d.left = (r.n - d.used) * Group + Len(d.group) /\ d.group \in Seq(Values)
        /\ Len(d.group) \in Nat /\ r.n \in Nat /\ d.used \in Nat /\ d.used <= r.n
    <3> HIDE DEF r
    <3>1. QED BY <1>2, <2>1, PackedIs
  <2> HIDE DEF r, at
  <2>4. PICK m \in Nat : m = r.n - d.used
    BY <2>3
  <2>5. m * Group \in Nat
    BY <2>4, Constants
  <2>6. Len(d.group) <= d.left /\ Len(d.group) > 0
    <3>1. PICK w \in Nat : w = m * Group
      BY <2>5
    <3>2. d.left = w + Len(d.group)
      BY <2>3, <2>4, <3>1
    <3>3. Len(d.group) # 0
      BY <2>1, <2>3
    <3>4. QED BY <2>3, <3>2, <3>3
  <2>7. (IF d.left < Len(d.group) THEN d.left ELSE Len(d.group)) = Len(d.group)
    BY <1>1, <2>3, <2>6
  <2>8. Offered(d) = d.group
    BY <1>4, <2>3, <2>7, SubSeqFull DEF Offered
  <2>9. Len(d.group) \in 1 .. d.left
    BY <1>1, <2>3, <2>6
  <2>10. QED BY <2>2, <2>8, <2>9
<1>5. QED BY <1>3, <1>4

LEMMA PassedNext ==
    ASSUME Reading, NEW i \in 1 .. Len(stream), Passed(i - 1), ~Incomplete(stream[i])
    PROVE  Passed(i)
<1>1. \A j \in 1 .. i : j \in 1 .. i - 1 \/ j = i
  OBVIOUS
<1>2. Len(stream) \in Nat
  BY PlaceIs
<1>3. QED BY <1>1, <1>2 DEF Passed

\* Taking some of what an RLE run offers.
LEMMA TakenRle ==
    ASSUME Reading, NEW d \in Decoders, NEW p, StandsAt(d, p), d.ok, d.left > 0, InRleRun(d),
           NEW m \in 1 .. d.left, p + m <= Len(given)
    PROVE  Taken(d, m) \in Decoders /\ StandsAt(Taken(d, m), p + m)
<1>1. /\ p \in 0 .. Len(given) /\ Inside(d, p) /\ d.left \in Nat /\ d.at \in Nat /\ d.ok = TRUE
  BY DEF StandsAt, Decoders
<1> DEFINE r == CurrentRun(d)
           at == Place(d.at - 2)
           e == Taken(d, m)
<1>2. /\ d.at - 1 \in 1 .. Len(stream) /\ (d.at - 1) - 1 = d.at - 2 /\ r = stream[d.at - 1]
      /\ r \in Runs /\ at \in Nat /\ Len(given) \in Nat /\ p \in Nat
      /\ Place(d.at - 1) = at + Len(RunValues(r)) /\ Passed(d.at - 2) /\ InRle(d, r, p)
  BY <1>1, InsideIs
<1>3. r.kind = "rle" /\ r.data # <<>> /\ d.left <= r.n /\ p = at + (r.n - d.left)
  BY <1>2 DEF InRle
<1>4. r.n \in Nat /\ Len(RunValues(r)) = r.n
  BY <1>2, <1>3, KindsOfRuns, RunValuesType
<1>5. e \in Decoders /\ e.left = d.left - m /\ e.at = d.at /\ e.ok = TRUE
  <2>1. d.left - m \in Nat
    BY <1>1
  <2>2. e = [d EXCEPT !.left = d.left - m, !.group = d.group]
    BY Zenon DEF Taken
  <2>3. d.group \in Seq(Values)
    BY DEF Decoders
  <2> HIDE DEF e
  <2>4. QED BY <1>1, <2>1, <2>2, <2>3 DEF Decoders
<1> HIDE DEF r, at, e
<1>6. PICK l \in Nat : l = d.left - m /\ p + m = at + (r.n - l) /\ l <= r.n
  <2>1. PICK n \in Nat, f \in Nat : n = r.n /\ f = d.left /\ f <= n /\ p = at + (n - f)
    BY <1>1, <1>3, <1>4
  <2>2. m \in Nat /\ m <= f /\ at \in Nat /\ f <= n /\ p = at + (n - f)
    BY <1>2, <2>1
  <2>3. f - m \in Nat /\ p + m = at + (n - (f - m)) /\ f - m <= n
    BY <2>2
  <2>4. QED BY <2>1, <2>3
<1>7. p + m \in 0 .. Len(given)
  BY <1>2
<1>8. CASE l = 0
  <2>1. ~Incomplete(r)
    BY <1>3 DEF Incomplete
  <2>2. Passed(d.at - 1)
    BY <1>2, <2>1, PassedNext
  <2>3. p + m = Place(d.at - 1)
    BY <1>2, <1>4, <1>6, <1>8
  <2>4. QED BY <1>5, <1>6, <1>7, <1>8, <2>2, <2>3 DEF StandsAt, Between, e
<1>9. CASE l > 0
  <2>1. e.left <= r.n
    BY <1>5, <1>6
  <2>2. p + m = Place(e.at - 2) + (r.n - e.left)
    BY <1>5, <1>6 DEF at
  <2>3. InRle(e, r, p + m)
    BY <1>3, <2>1, <2>2 DEF InRle
  <2>4. e.at \in 2 .. Len(stream) + 1
    BY <1>1, <1>5 DEF Inside
  <2>5. Inside(e, p + m)
    BY <1>2, <1>5, <2>3, <2>4 DEF Inside
  <2>6. StandsAt(e, p + m)
    BY <1>5, <1>6, <1>7, <1>9, <2>5 DEF StandsAt
  <2>7. QED BY <1>5, <2>6 DEF e
<1>10. QED BY <1>6, <1>8, <1>9

\* What follows the first m values of the last g.
LEMMA RestOfSlice ==
    ASSUME NEW A, NEW s \in Seq(A), NEW n \in Nat, Len(s) = n, NEW g \in Nat, g <= n,
           NEW m \in Nat, m <= g
    PROVE  SubSeq(SubSeq(s, n - g + 1, n), m + 1, g) = SubSeq(s, n - (g - m) + 1, n)
<1>1. CASE m = g
  <2>1. n - (g - m) + 1 = n + 1 /\ n < n + 1 /\ g < m + 1
    BY <1>1
  <2>2. SubSeq(s, n + 1, n) = <<>>
    BY SubSeqEmpty
  <2>3. SubSeq(SubSeq(s, n - g + 1, n), m + 1, g) = <<>>
    BY <2>1, SubSeqEmpty
  <2>4. QED BY <2>1, <2>2, <2>3
<1>2. CASE m < g
  <2>1. PICK i \in Nat : i = n - g + 1 /\ i > 0 /\ i <= n /\ n - i + 1 = g
    BY <1>2
  <2>2. i + (m + 1) - 1 = n - (g - m) + 1 /\ i + g - 1 = n
    BY <2>1
  <2>3. i \in 1 .. Len(s) /\ n \in 1 .. Len(s)
    BY <2>1
  <2>4. m + 1 \in 1 .. n - i + 1 /\ g \in 1 .. n - i + 1
    BY <1>2, <2>1
  <2>5. SubSeq(SubSeq(s, i, n), m + 1, g) = SubSeq(s, i + (m + 1) - 1, i + g - 1)
    BY <2>3, <2>4, SubSeqOfSubSeq
  <2>6. QED BY <2>1, <2>2, <2>5
<1>3. QED BY <1>1, <1>2

LEMMA RestOfGroup ==
    ASSUME NEW last \in Groups
    PROVE  \A g \in 0 .. Group : \A m \in 0 .. g :
               SubSeq(SubSeq(last, Group - g + 1, Group), m + 1, g)
                 = SubSeq(last, Group - (g - m) + 1, Group)
<1> SUFFICES ASSUME NEW g \in 0 .. Group, NEW m \in 0 .. g
             PROVE  SubSeq(SubSeq(last, Group - g + 1, Group), m + 1, g)
                      = SubSeq(last, Group - (g - m) + 1, Group)
  OBVIOUS
<1>1. last \in Seq(Values) /\ Len(last) = Group /\ Group \in Nat
  BY GroupsAreSequences, Constants
<1>2. g \in Nat /\ m \in Nat /\ m <= g /\ g <= Group
  BY <1>1
<1>3. QED BY <1>1, <1>2, RestOfSlice

\* Taking some of the group in hand.
LEMMA TakenPacked ==
    ASSUME Reading, NEW d \in Decoders, NEW p, StandsAt(d, p), d.ok, d.left > 0, ~InRleRun(d),
           d.group # <<>>, NEW m \in 1 .. Len(d.group), p + m <= Len(given)
    PROVE  Taken(d, m) \in Decoders /\ StandsAt(Taken(d, m), p + m)
<1>1. /\ p \in 0 .. Len(given) /\ Inside(d, p) /\ d.left \in Nat /\ d.at \in Nat /\ d.ok = TRUE
      /\ d.group \in Seq(Values) /\ d.used \in Nat
  BY DEF StandsAt, Decoders
<1> DEFINE r == CurrentRun(d)
           at == Place(d.at - 2)
           e == Taken(d, m)
           g == Len(d.group)
           rest == SubSeq(d.group, m + 1, g)
<1>2. /\ d.at - 1 \in 1 .. Len(stream) /\ (d.at - 1) - 1 = d.at - 2 /\ r = stream[d.at - 1]
      /\ r \in Runs /\ at \in Nat /\ Len(given) \in Nat /\ p \in Nat /\ given \in Seq(Values)
      /\ Place(d.at - 1) = at + Len(RunValues(r)) /\ Passed(d.at - 2) /\ InPacked(d, r, p)
      /\ Located(r, at)
  BY <1>1, InsideIs
<1>3. /\ r.data \in Seq(Groups) /\ Len(r.data) \in Nat /\ r.n \in Nat /\ Len(r.data) <= r.n
      /\ d.used <= Len(r.data) /\ g \in Nat /\ g <= Group
      /\ d.left = (r.n - d.used) * Group + g /\ p = at + d.used * Group - g
      /\ Len(RunValues(r)) = Len(r.data) * Group
  <2> HIDE DEF r
  <2>1. QED BY <1>2, PackedIs
<1>4. d.used \in 1 .. Len(r.data)
  <2> HIDE DEF r
  <2>1. QED BY <1>2, PackedOffered
<1>5. r.kind = "packed" /\ d.group = SubSeq(r.data[d.used], Group - g + 1, Group)
  BY <1>2, <1>4 DEF InPacked, InHand
<1>6. PICK w \in Nat : w = (r.n - d.used) * Group
  <2>1. PICK k \in Nat : k = r.n - d.used
    BY <1>1, <1>3
  <2>2. k * Group \in Nat
    BY Constants
  <2>3. QED BY <2>1, <2>2
<1>7. PICK u \in Nat : u = d.used * Group
  BY <1>1, GroupStep
<1>8. Group \in Nat /\ d.left = w + g /\ p = at + u - g
  BY <1>3, <1>6, <1>7, Constants
<1>8a. g \in Nat /\ m \in Nat /\ m > 0 /\ m <= g /\ g <= Group /\ at \in Nat
  BY <1>2, <1>3
<1>9. rest \in Seq(Values) /\ Len(rest) = g - m
  <2> HIDE DEF r
  <2>1. m \in Nat /\ m <= Len(d.group)
    BY <1>3
  <2>2. d.group \in Seq(Values)
    BY <1>1
  <2>3. QED BY <2>1, <2>2, Split
<1>10. e \in Decoders /\ e.left = d.left - m /\ e.at = d.at /\ e.ok = TRUE /\ e.group = rest
       /\ e.used = d.used
  <2>1. d.left - m \in Nat
    <3> HIDE DEF g, at, r
    <3>1. QED BY <1>8, <1>8a
  <2>2. e = [d EXCEPT !.left = d.left - m, !.group = rest]
    BY Zenon DEF Taken
  <2> HIDE DEF e, rest
  <2>3. QED BY <1>1, <1>9, <2>1, <2>2 DEF Decoders
<1> HIDE DEF e
<1>11. PICK l \in Nat : l = d.left - m /\ l = w + (g - m) /\ p + m = at + u - (g - m)
  <2> HIDE DEF g, at, r
  <2>1. QED BY <1>8, <1>8a
<1>12. p + m \in 0 .. Len(given)
  BY <1>2
<1>13. CASE l = 0
  <2>1. w = 0 /\ g - m = 0
    BY <1>3, <1>11, <1>13
  <2>2. r.n = d.used
    <3>1. r.n > d.used => w >= Group
      BY <1>1, <1>3, <1>6, GroupStep
    <3>2. Group > 1
      BY Constants
    <3>3. ~(r.n > d.used)
      BY <1>8, <2>1, <3>1, <3>2
    <3>4. PICK n \in Nat, k \in Nat : n = r.n /\ k = d.used /\ k <= n
      <4>1. d.used <= r.n
        <5> HIDE DEF r
        <5>1. PICK c \in Nat : c = Len(r.data) /\ c <= r.n /\ d.used <= c
          BY <1>3
        <5>2. QED BY <1>1, <1>3, <5>1
      <4>2. QED BY <1>1, <1>3, <4>1
    <3>5. QED BY <3>3, <3>4
  <2>3. Len(r.data) = r.n /\ Len(r.data) = d.used
    BY <1>1, <1>3, <2>2
  <2>4. ~Incomplete(r)
    BY <1>3, <1>5, <2>3 DEF Incomplete
  <2>5. Passed(d.at - 1)
    <3> HIDE DEF r
    <3>1. QED BY <1>2, <2>4, PassedNext
  <2>6. p + m = Place(d.at - 1)
    <3>1. Len(RunValues(r)) = u
      BY <1>3, <1>7, <2>3
    <3> HIDE DEF r, at, g
    <3>2. QED BY <1>2, <1>11, <2>1, <3>1
  <2>7. StandsAt(e, p + m)
    BY <1>10, <1>11, <1>12, <1>13, <2>5, <2>6 DEF StandsAt, Between
  <2>8. QED BY <1>10, <2>7 DEF e
<1>14. CASE l > 0
  <2> DEFINE last == r.data[d.used]
  <2>1. last \in Seq(Values) /\ Len(last) = Group
    BY <1>3, <1>4, GroupsAreSequences
  <2>2. Len(e.group) = g - m /\ g - m \in Nat
    BY <1>3, <1>9, <1>10
  <2>3. e.group = InHand(e, r)
    <3>1. rest = SubSeq(last, Group - (g - m) + 1, Group)
      <4>1. d.group = SubSeq(last, Group - g + 1, Group)
        BY <1>5
      <4>2. last \in Groups
        BY <1>3, <1>4
      <4>3. g \in 0 .. Group /\ m \in 0 .. g
        BY <1>8, <1>8a
      <4> HIDE DEF last, g, e, r, at
      <4>4. SubSeq(SubSeq(last, Group - g + 1, Group), m + 1, g)
              = SubSeq(last, Group - (g - m) + 1, Group)
        BY <4>2, <4>3, RestOfGroup
      <4>5. QED BY <4>1, <4>4
    <3>2. e.used # 0 /\ r.data[e.used] = last /\ Group - Len(e.group) + 1 = Group - (g - m) + 1
      BY <1>4, <1>10, <2>2
    <3>3. QED BY <1>10, <3>1, <3>2 DEF InHand
  <2>4. e.left = (r.n - e.used) * Group + Len(e.group)
    BY <1>6, <1>10, <1>11, <2>2
  <2>5. p + m = Place(e.at - 2) + e.used * Group - Len(e.group)
    BY <1>7, <1>10, <1>11, <2>2
  <2>6. e.used <= Len(r.data) /\ Len(e.group) <= Group
    BY <1>3, <1>8, <1>10, <2>2
  <2>7. InPacked(e, r, p + m)
    BY <1>5, <2>3, <2>4, <2>5, <2>6 DEF InPacked
  <2>8. e.at \in 2 .. Len(stream) + 1
    BY <1>1, <1>10 DEF Inside
  <2>9. Inside(e, p + m)
    BY <1>2, <1>10, <2>7, <2>8 DEF Inside
  <2>10. e.ok = TRUE /\ e.left > 0 /\ e.left # 0
    BY <1>10, <1>11, <1>14
  <2>11. StandsAt(e, p + m)
    BY <1>12, <2>9, <2>10 DEF StandsAt
  <2>12. QED BY <1>10, <2>11 DEF e
<1>15. QED BY <1>11, <1>13, <1>14

-------------------------------------------------------------------------------
(* The loop of get_batch and skip.                                         *)

LEMMA GivenMore ==
    ASSUME given \in Seq(Values), NEW x, NEW y, NEW p \in Nat, NextGiven(x, p),
           NextGiven(y, p + Len(x)), NEW m \in Nat, m <= Len(y)
    PROVE  /\ NextGiven(x \o SubSeq(y, 1, m), p) /\ Len(x \o SubSeq(y, 1, m)) = Len(x) + m
<1> DEFINE z == SubSeq(y, 1, m)
           w == x \o z
<1>1. /\ x \in Seq(Values) /\ y \in Seq(Values) /\ Len(x) \in Nat /\ Len(y) \in Nat
      /\ p + Len(x) + Len(y) <= Len(given) /\ Len(given) \in Nat
      /\ \A j \in 1 .. Len(x) : x[j] = given[p + j]
      /\ \A j \in 1 .. Len(y) : y[j] = given[p + Len(x) + j]
  BY DEF NextGiven
<1>2. z \in Seq(Values) /\ IsSlice(z, y, 0, m)
  <2>1. 0 + m <= Len(y) /\ 0 + 1 = 1 /\ 0 + m = m /\ 0 \in Nat
    BY <1>1
  <2>2. SubSeq(y, 0 + 1, 0 + m) \in Seq(Values) /\ IsSlice(SubSeq(y, 0 + 1, 0 + m), y, 0, m)
    BY <1>1, <2>1, SliceParts
  <2>3. QED BY <2>1, <2>2
<1>3. Len(z) = m /\ \A j \in 1 .. m : z[j] = y[j]
  BY <1>2 DEF IsSlice
<1> HIDE DEF z
<1>4. w \in Seq(Values) /\ IsConcat(w, x, z)
  BY <1>1, <1>2, ConcatParts
<1>5. /\ Len(w) = Len(x) + m
      /\ \A j \in 1 .. Len(x) : w[j] = x[j]
      /\ \A j \in 1 .. m : w[Len(x) + j] = z[j]
  BY <1>3, <1>4 DEF IsConcat
<1> HIDE DEF w
<1>6. ASSUME NEW j \in 1 .. Len(w) PROVE w[j] = given[p + j]
  <2>1. CASE j <= Len(x)
    <3>1. j \in 1 .. Len(x)
      BY <1>1, <2>1
    <3>2. QED BY <1>1, <1>5, <3>1
  <2>2. CASE ~(j <= Len(x))
    <3>1. PICK i \in 1 .. m : j = Len(x) + i
      <4>1. j - Len(x) \in 1 .. m /\ j = Len(x) + (j - Len(x))
        BY <1>1, <1>5, <2>2
      <4>2. QED BY <4>1
    <3>2. i \in 1 .. Len(y) /\ p + Len(x) + i = p + j
      BY <1>1, <3>1
    <3>3. QED BY <1>1, <1>3, <1>5, <3>1, <3>2
  <2>3. QED BY <2>1, <2>2
<1>7. p + Len(w) <= Len(given)
  BY <1>1, <1>5
<1>8. QED BY <1>4, <1>5, <1>6, <1>7 DEF NextGiven, w, z

\* After some rounds: the decoder stands behind what was taken since p.
Tally == [d : Decoders, out : Seq(Values)]
Tallies(t, p, n) ==
    /\ t \in Tally /\ Len(t.out) <= n
    /\ NextGiven(t.out, p) /\ StandsAt(t.d, p + Len(t.out))
Ends(t, n) == Len(t.out) = n \/ ~HasNext(t.d)

LEMMA RoundAt ==
    ASSUME Reading, given \in Seq(Values), NEW n \in Nat, NEW p \in Nat, NEW t, Tallies(t, p, n)
    PROVE  /\ Tallies(Round(t, n), p, n)
           /\ Ends(t, n) => Round(t, n) = t
           /\ ~Ends(t, n) => \/ Ends(Round(t, n), n)
                             \/ Len(Round(t, n).out) > Len(t.out)
<1> DEFINE b == Begin(t.d)
           o == Offered(b)
           m == Smaller(n - Len(t.out), Len(o))
           q == p + Len(t.out)
<1>1. Round(t, n) = IF Len(t.out) = n \/ ~HasNext(t.d) THEN t
                    ELSE IF ~b.ok \/ b.left = 0 THEN [t EXCEPT !.d = b]
                    ELSE [d |-> Taken(b, m), out |-> t.out \o SubSeq(o, 1, m)]
  BY DEF Round
<1>2. /\ t \in Tally /\ t.d \in Decoders /\ t.out \in Seq(Values) /\ Len(t.out) \in Nat
      /\ Len(t.out) <= n /\ NextGiven(t.out, p) /\ StandsAt(t.d, q) /\ Len(given) \in Nat
  BY DEF Tallies, Tally
<1>3. CASE Ends(t, n)
  <2>1. Round(t, n) = t
    BY <1>1, <1>3 DEF Ends
  <2>2. QED BY <1>3, <2>1
<1>4. CASE ~Ends(t, n)
  <2>1. HasNext(t.d) /\ Len(t.out) < n
    BY <1>2, <1>4 DEF Ends
  <2>2. /\ b \in Decoders /\ StandsAt(b, q)
        /\ b.ok /\ b.left = 0 => b.at > Len(stream)
        /\ b.ok /\ b.left > 0 /\ ~InRleRun(b) => b.group # <<>>
    BY <1>2, <2>1, BeginAt
  <2>3. CASE ~b.ok \/ b.left = 0
    <3> DEFINE e == [t EXCEPT !.d = b]
    <3>1. Round(t, n) = e
      BY <1>1, <2>1, <2>3
    <3> HIDE DEF b
    <3>2. e \in Tally /\ e.d = b /\ e.out = t.out
      BY <1>2, <2>2 DEF Tally
    <3> HIDE DEF e
    <3>3. Tallies(e, p, n)
      BY <1>2, <2>2, <3>2 DEF Tallies
    <3>4. ~HasNext(b)
      <4>1. ASSUME b.ok, b.left = 0 PROVE ~(b.at <= Len(stream))
        <5>1. b.at > Len(stream) /\ b.at \in Nat /\ Len(stream) \in Nat
          BY <2>2, <4>1, PlaceIs DEF Decoders
        <5>2. QED BY <5>1
      <4>2. QED BY <2>3, <4>1 DEF HasNext
    <3>5. QED BY <1>4, <3>1, <3>2, <3>3, <3>4 DEF Ends
  <2>4. CASE b.ok /\ b.left # 0
    <3> DEFINE f == Taken(b, m)
               x == t.out \o SubSeq(o, 1, m)
    <3>1. Round(t, n) = [d |-> f, out |-> x]
      <4>1. Len(t.out) # n
        BY <1>2, <2>1
      <4> HIDE DEF b, m, o, f, x
      <4>2. Round(t, n) = [d |-> Taken(b, m), out |-> t.out \o SubSeq(o, 1, m)]
        BY <1>1, <2>1, <2>4, <4>1
      <4>3. QED BY <4>2 DEF f, x
    <3> HIDE DEF b
    <3>2. b.left \in Nat /\ b.left > 0
      BY <2>2, <2>4 DEF Decoders
    <3>3. NextGiven(o, q) /\ Len(o) \in 1 .. b.left /\ (~InRleRun(b) => o = b.group)
      <4>1. StandsAt(b, q) /\ b.ok /\ (~InRleRun(b) => b.group # <<>>)
        BY <2>2, <2>4, <3>2
      <4> HIDE DEF q, m, x, f
      <4>2. b \in Decoders
        BY <2>2
      <4>3. NextGiven(Offered(b), q) /\ Len(Offered(b)) \in 1 .. b.left
        BY <3>2, <4>1, <4>2, OfferedAt
      <4>4. ~InRleRun(b) => Offered(b) = b.group
        BY <3>2, <4>1, <4>2, OfferedAt
      <4>5. QED BY <4>3, <4>4
    <3> HIDE DEF o
    <3>4. m \in Nat /\ m > 0 /\ m <= Len(o) /\ Len(t.out) + m <= n
      <4>1. PICK k \in Nat, l \in Nat : k = n - Len(t.out) /\ l = Len(o) /\ k > 0 /\ l > 0
                                      /\ Len(t.out) + k = n
        <5>1. Len(o) \in Nat /\ Len(o) > 0
          BY <3>2, <3>3
        <5>2. n - Len(t.out) \in Nat /\ n - Len(t.out) > 0 /\ Len(t.out) + (n - Len(t.out)) = n
          BY <1>2, <2>1
        <5>3. QED BY <5>1, <5>2
      <4>2. m = IF k <= l THEN k ELSE l
        BY <4>1 DEF Smaller
      <4>3. QED BY <1>2, <4>1, <4>2
    <3> HIDE DEF m
    <3>5. NextGiven(x, p) /\ Len(x) = Len(t.out) + m
      BY <1>2, <3>3, <3>4, GivenMore
    <3>6. q + m = p + Len(x) /\ q + m <= Len(given)
      <4>1. q + m = p + Len(x)
        <5>1. Len(x) = Len(t.out) + m
          BY <3>5
        <5> HIDE DEF x
        <5>2. QED BY <1>2, <3>4, <5>1
      <4>2. QED BY <3>5, <4>1 DEF NextGiven
    <3> HIDE DEF x, q
    <3>7. f \in Decoders /\ StandsAt(f, q + m)
      <4>1. CASE InRleRun(b)
        <5>1. m \in 1 .. b.left
          BY <3>2, <3>3, <3>4
        <5>2. QED BY <2>2, <2>4, <3>2, <3>6, <4>1, <5>1, TakenRle
      <4>2. CASE ~InRleRun(b)
        <5>1. m \in 1 .. Len(b.group) /\ b.group # <<>>
          BY <2>2, <2>4, <3>2, <3>3, <3>4, <4>2
        <5>2. QED BY <2>2, <2>4, <3>2, <3>6, <4>2, <5>1, TakenPacked
      <4>3. QED BY <4>1, <4>2
    <3> HIDE DEF f
    <3> DEFINE e == [d |-> f, out |-> x]
    <3>8. e \in Tally /\ e.d = f /\ e.out = x
      BY <3>5, <3>7 DEF Tally, NextGiven
    <3> HIDE DEF e
    <3>9. Tallies(e, p, n)
      BY <3>4, <3>5, <3>6, <3>7, <3>8 DEF Tallies
    <3>10. Len(e.out) > Len(t.out)
      BY <1>2, <3>4, <3>5, <3>8
    <3>11. Round(t, n) = e
      BY <3>1 DEF e
    <3>12. QED BY <1>4, <3>9, <3>10, <3>11
  <2>5. QED BY <2>3, <2>4
<1>5. QED BY <1>3, <1>4

IsTurns(d, n, k, f) ==
    f = [i \in 0 .. k |-> IF i = 0 THEN [d |-> d, out |-> <<>>] ELSE Round(f[i - 1], n)]
Turns(d, n) == CHOOSE f : IsTurns(d, n, n, f)

LEMMA TurnsAre ==
    ASSUME NEW d, NEW n \in Nat
    PROVE  /\ Consume(d, n) = Turns(d, n)[n]
           /\ Turns(d, n)[0] = [d |-> d, out |-> <<>>]
           /\ \A i \in 1 .. n : Turns(d, n)[i] = Round(Turns(d, n)[i - 1], n)
<1> DEFINE start == [d |-> d, out |-> <<>>]
           T == {k \in Nat : \E f : IsTurns(d, n, k, f)}
<1>1. 0 \in T
  <2>1. IsTurns(d, n, 0, [i \in 0 .. 0 |-> start])
    BY DEF IsTurns
  <2>2. QED BY <2>1
<1>2. ASSUME NEW k \in Nat, k \in T PROVE k + 1 \in T
  <2>1. PICK f : IsTurns(d, n, k, f)
    BY <1>2
  <2> DEFINE next == Round(f[k], n)
             g == [i \in 0 .. k + 1 |-> IF i = k + 1 THEN next ELSE f[i]]
  <2>2. /\ \A i \in 0 .. k : f[i] = IF i = 0 THEN start ELSE Round(f[i - 1], n)
        /\ \A i \in 0 .. k : g[i] = f[i]
        /\ g[k + 1] = next
    BY <2>1 DEF IsTurns
  <2>3. ASSUME NEW i \in 0 .. k + 1
        PROVE  g[i] = IF i = 0 THEN start ELSE Round(g[i - 1], n)
    <3>1. CASE i = k + 1
      <4>1. i # 0 /\ i - 1 = k /\ g[i - 1] = f[k]
        BY <2>2, <3>1
      <4>2. QED BY <2>2, <3>1, <4>1
    <3>2. CASE i \in 1 .. k
      <4>1. i # 0 /\ i - 1 \in 0 .. k /\ i \in 0 .. k
        BY <3>2
      <4>2. g[i - 1] = f[i - 1] /\ g[i] = f[i]
        BY <2>2, <4>1
      <4>3. QED BY <2>2, <4>1, <4>2
    <3>3. CASE i = 0
      BY <2>2, <3>3
    <3>4. QED BY <3>1, <3>2, <3>3
  <2>4. IsTurns(d, n, k + 1, g)
    <3>1. g = [i \in 0 .. k + 1 |-> g[i]]
      OBVIOUS
    <3> HIDE DEF g
    <3>2. QED BY <2>3, <3>1 DEF IsTurns
  <2>5. QED BY <2>4
<1>3. n \in T
  <2> HIDE DEF T
  <2>1. QED BY <1>1, <1>2, Induction
<1>4. IsTurns(d, n, n, Turns(d, n))
  BY <1>3 DEF Turns
<1>5. Consume(d, n) = Turns(d, n)[n]
  BY DEF Consume, Turns, IsTurns
<1> DEFINE f == Turns(d, n)
<1> HIDE DEF f
<1>6. \A i \in 0 .. n : f[i] = IF i = 0 THEN start ELSE Round(f[i - 1], n)
  BY <1>4 DEF IsTurns, f
<1>7. f[0] = start /\ \A i \in 1 .. n : f[i] = Round(f[i - 1], n)
  BY <1>6
<1>8. QED BY <1>5, <1>7 DEF f

\* get_batch and skip take the next values, until they have enough or nothing
\* more can be read.
LEMMA ConsumeAt ==
    ASSUME Reading, given \in Seq(Values), NEW d \in Decoders, NEW p \in Nat, StandsAt(d, p),
           NEW n \in Nat
    PROVE  Tallies(Consume(d, n), p, n) /\ Ends(Consume(d, n), n)
<1> DEFINE f == Turns(d, n)
           T == {k \in Nat : k <= n => /\ Tallies(f[k], p, n)
                                       /\ Ends(f[k], n) \/ Len(f[k].out) >= k}
<1>1. /\ Consume(d, n) = f[n] /\ f[0] = [d |-> d, out |-> <<>>]
      /\ \A i \in 1 .. n : f[i] = Round(f[i - 1], n)
  BY TurnsAre
<1> HIDE DEF f
<1>2. 0 \in T
  <2>1. f[0] \in Tally /\ f[0].d = d /\ f[0].out = <<>> /\ Len(f[0].out) = 0
    BY <1>1 DEF Tally
  <2>2. p + 0 = p /\ p <= Len(given)
    BY DEF StandsAt
  <2>3. NextGiven(<<>>, p)
    BY <2>2 DEF NextGiven
  <2>4. Tallies(f[0], p, n)
    BY <2>1, <2>2, <2>3 DEF Tallies
  <2>5. QED BY <2>1, <2>4
<1>3. ASSUME NEW k \in Nat, k \in T PROVE k + 1 \in T
  <2> SUFFICES ASSUME k + 1 <= n
               PROVE  /\ Tallies(f[k + 1], p, n)
                      /\ Ends(f[k + 1], n) \/ Len(f[k + 1].out) >= k + 1
    OBVIOUS
  <2>1. k + 1 \in 1 .. n /\ (k + 1) - 1 = k /\ k <= n
    OBVIOUS
  <2>2. f[k + 1] = Round(f[k], n)
    BY <1>1, <2>1
  <2>3. Tallies(f[k], p, n) /\ (Ends(f[k], n) \/ Len(f[k].out) >= k)
    BY <1>3, <2>1
  <2> DEFINE t == f[k]
             u == f[k + 1]
  <2> HIDE DEF t, u
  <2>4. Tallies(t, p, n) /\ (Ends(t, n) \/ Len(t.out) >= k) /\ u = Round(t, n)
    BY <2>2, <2>3 DEF t, u
  <2>5. /\ Tallies(u, p, n)
        /\ Ends(t, n) => u = t
        /\ ~Ends(t, n) => Ends(u, n) \/ Len(u.out) > Len(t.out)
    BY <2>4, RoundAt
  <2>6. Len(t.out) \in Nat /\ Len(u.out) \in Nat
    BY <2>4, <2>5 DEF Tallies, Tally
  <2>7. Ends(u, n) \/ Len(u.out) >= k + 1
    BY <2>4, <2>5, <2>6
  <2>8. QED BY <2>5, <2>7 DEF u
<1>4. n \in T
  <2> HIDE DEF T
  <2>1. QED BY <1>2, <1>3, Induction
<1>5. Tallies(f[n], p, n) /\ (Ends(f[n], n) \/ Len(f[n].out) >= n)
  BY <1>4
<1> DEFINE c == f[n]
<1> HIDE DEF c
<1>6. Tallies(c, p, n) /\ (Ends(c, n) \/ Len(c.out) >= n)
  BY <1>5 DEF c
<1>7. Len(c.out) \in Nat /\ Len(c.out) <= n
  BY <1>6 DEF Tallies, Tally
<1>8. Ends(c, n)
  BY <1>6, <1>7 DEF Ends
<1>9. QED BY <1>1, <1>6, <1>8 DEF c

\* A decoder that has no next value has come to the end.
LEMMA NoMore ==
    ASSUME Reading, NEW d \in Decoders, NEW p, StandsAt(d, p), ~HasNext(d)
    PROVE  p = Len(given) /\ (d.ok <=> IsWhole(stream))
<1>1. d.at \in Nat /\ d.at > 0 /\ d.left \in Nat /\ d.ok \in BOOLEAN /\ Len(stream) \in Nat
  BY PlaceIs DEF Decoders
<1>2. CASE ~d.ok
  BY <1>2 DEF StandsAt
<1>3. CASE d.ok
  <2>1. d.left = 0 /\ ~(d.at <= Len(stream))
    BY <1>1, <1>3 DEF HasNext
  <2>2. Passed(d.at - 1) /\ p = Place(d.at - 1)
    BY <1>3, <2>1 DEF StandsAt, Between
  <2>3. d.at - 1 = Len(stream)
    BY <1>1, <2>1, <2>2 DEF Passed
  <2>4. Len(stream) \in 0 .. Len(stream)
    BY <1>1
  <2>5. IsWhole(stream) /\ Len(given) = Place(Len(stream))
    BY <2>2, <2>3, <2>4, EndIs
  <2>6. QED BY <1>3, <2>2, <2>3, <2>5
<1>4. QED BY <1>2, <1>3

LEMMA StandsAtKept ==
    ASSUME UNCHANGED <<stream, given>>, NEW d, NEW p, StandsAt(d, p)
    PROVE  StandsAt(d, p)'
BY DEF StandsAt, Between, Inside, InRle, InPacked, InHand, Passed, Place

\* Any call keeps the invariant.
LEMMA CallKeeps ==
    ASSUME HybridInv, NEW op \in {"get", "batch", "skip"}, NEW n \in Nat,
           Call(op, n, Consume(dec, n))
    PROVE  HybridInv'
<1>1. /\ phase = "decode" /\ phase' = phase /\ enc' = enc /\ stream' = stream /\ given' = given
      /\ dec' = Consume(dec, n).d /\ from' = from + Len(result.out)
      /\ result' = [op |-> op, asked |-> n, out |-> Consume(dec, n).out]
  BY DEF Call
<1>2. Types /\ Decoding
  BY <1>1 DEF HybridInv
<1>3. /\ stream \in Seq(Runs) /\ given \in Seq(Values) /\ dec \in Decoders /\ from \in Nat
      /\ result \in Results /\ Reading /\ Len(given) \in Nat
  BY <1>2 DEF Types, Decoding, Reading
<1>4. PICK p \in Nat : p = from + Len(result.out)
  BY <1>3 DEF Results
<1>5. PICK c : c = Consume(dec, n)
  OBVIOUS
<1>6. Tallies(c, p, n) /\ Ends(c, n)
  BY <1>2, <1>3, <1>4, <1>5, ConsumeAt DEF Decoding
<1>7. /\ c.d \in Decoders /\ c.out \in Seq(Values) /\ Len(c.out) \in Nat /\ Len(c.out) <= n
      /\ NextGiven(c.out, p) /\ StandsAt(c.d, p + Len(c.out))
  BY <1>6 DEF Tallies, Tally
<1>8. /\ dec' = c.d /\ from' = p /\ result'.out = c.out /\ result'.asked = n
      /\ result' \in Results
  BY <1>1, <1>4, <1>5, <1>7 DEF Results
<1>9. Types'
  BY <1>1, <1>2, <1>4, <1>7, <1>8 DEF Types
<1>10. DeliveredInOrder'
  <2>1. p + Len(c.out) <= Len(given) /\ IsSlice(c.out, given, p, Len(c.out))
    BY <1>7 DEF NextGiven, IsSlice
  <2>2. SubSeq(given, p + 1, p + Len(c.out)) = c.out
    BY <1>3, <1>7, <2>1, SliceIs
  <2>3. QED BY <1>1, <1>8, <2>1, <2>2 DEF DeliveredInOrder
<1>11. ShortMeansEnd'
  <2>1. ASSUME Len(c.out) < n
        PROVE  p + Len(c.out) = Len(given) /\ (c.d.ok <=> IsWhole(stream))
    <3>1. ~HasNext(c.d)
      BY <1>6, <1>7, <2>1 DEF Ends
    <3>2. QED BY <1>3, <1>7, <3>1, NoMore
  <2>2. QED BY <1>1, <1>8, <2>1 DEF ShortMeansEnd
<1>12. StandsAt(dec, from + Len(result.out))'
  <2>1. PICK d, q : d = c.d /\ q = p + Len(c.out)
    OBVIOUS
  <2>2. StandsAt(d, q)'
    BY <1>1, <1>7, <2>1, StandsAtKept
  <2>3. dec' = d /\ from' + Len(result'.out) = q
    BY <1>8, <2>1
  <2>4. QED BY <2>2, <2>3 DEF StandsAt, Between, Inside, InRle, InPacked, InHand
<1>13. Decoding'
  <2>1. enc'.count = 0 /\ enc'.pack = <<>> /\ given' = StreamValues(stream')
    BY <1>1, <1>2 DEF Decoding
  <2>2. QED BY <1>10, <1>11, <1>12, <2>1 DEF Decoding
<1>14. QED BY <1>1, <1>9, <1>13 DEF HybridInv

-------------------------------------------------------------------------------
(* The decoders of levels.                                                 *)

\* What there is room for.
Capped(x, max) == SubSeq(x, 1, Smaller(max, Len(x)))

LEMMA CappedIs ==
    ASSUME NEW A, NEW x \in Seq(A), NEW max \in Nat
    PROVE  /\ Capped(x, max) \in Seq(A) /\ Len(Capped(x, max)) = Smaller(max, Len(x))
           /\ \A i \in 1 .. Len(Capped(x, max)) : Capped(x, max)[i] = x[i]
           /\ Len(x) <= max => Capped(x, max) = x
<1>1. Len(x) \in Nat
  OBVIOUS
<1>2. PICK k \in Nat : k = Smaller(max, Len(x)) /\ k <= Len(x) /\ (Len(x) <= max => k = Len(x))
  BY <1>1 DEF Smaller
<1>3. Capped(x, max) = SubSeq(x, 0 + 1, 0 + k)
  <2>1. 0 + 1 = 1 /\ 0 + k = k
    OBVIOUS
  <2>2. QED BY <1>2, <2>1 DEF Capped
<1>4. SubSeq(x, 0 + 1, 0 + k) \in Seq(A) /\ IsSlice(SubSeq(x, 0 + 1, 0 + k), x, 0, k)
  <2>1. 0 + k <= Len(x) /\ 0 \in Nat
    BY <1>2
  <2>2. QED BY <2>1, SliceParts
<1> DEFINE c == Capped(x, max)
<1> HIDE DEF c
<1>5. c \in Seq(A) /\ IsSlice(c, x, 0, k)
  BY <1>3, <1>4 DEF c
<1>6. Len(c) = k /\ \A i \in 1 .. k : c[i] = x[i]
  BY <1>5 DEF IsSlice
<1>7. Len(x) <= max => c = x
  <2>1. SubSeq(x, 1, Len(x)) = x
    BY SubSeqFull
  <2>2. QED BY <1>2, <2>1 DEF c, Capped
<1>8. QED BY <1>2, <1>5, <1>6, <1>7 DEF c

\* Room is left for more only when all that came before is stored.
LEMMA CappedMore ==
    ASSUME NEW A, NEW x \in Seq(A), NEW y \in Seq(A), NEW max \in Nat
    PROVE  /\ Len(Capped(x, max)) \in Nat /\ Len(Capped(x, max)) <= max
           /\ Len(Capped(x, max)) >= max => Capped(x \o y, max) = Capped(x, max)
           /\ Len(Capped(x, max)) < max =>
                 /\ Capped(x, max) = x /\ max - Len(x) \in Nat
                 /\ Capped(x \o y, max) = x \o Capped(y, max - Len(x))
<1>1. /\ Len(x) \in Nat /\ Len(y) \in Nat /\ x \o y \in Seq(A) /\ Len(x \o y) = Len(x) + Len(y)
      /\ IsConcat(x \o y, x, y)
  BY ConcatParts DEF IsConcat
<1> DEFINE z == x \o y
           c == Capped(x, max)
           cz == Capped(z, max)
<1> HIDE DEF z
<1>2. z \in Seq(A) /\ Len(z) = Len(x) + Len(y) /\ IsConcat(z, x, y)
  BY <1>1 DEF z
<1>3. /\ c \in Seq(A) /\ Len(c) = Smaller(max, Len(x)) /\ \A i \in 1 .. Len(c) : c[i] = x[i]
      /\ Len(x) <= max => c = x
  BY CappedIs
<1>4. /\ cz \in Seq(A) /\ Len(cz) = Smaller(max, Len(z)) /\ \A i \in 1 .. Len(cz) : cz[i] = z[i]
  BY <1>2, CappedIs
<1> HIDE DEF c, cz
<1>5. Len(c) \in Nat /\ Len(c) <= max /\ Len(c) <= Len(x)
  BY <1>1, <1>3 DEF Smaller
<1>6. ASSUME Len(c) >= max PROVE cz = c
  <2>1. Len(c) = max /\ max <= Len(x) /\ Len(cz) = max
    BY <1>1, <1>2, <1>3, <1>4, <1>5, <1>6 DEF Smaller
  <2>2. \A i \in 1 .. Len(cz) : cz[i] = c[i]
    <3>1. \A i \in 1 .. max : i \in 1 .. Len(x)
      BY <1>1, <2>1
    <3>2. \A i \in 1 .. max : z[i] = x[i]
      BY <1>2, <3>1 DEF IsConcat
    <3>3. QED BY <1>3, <1>4, <2>1, <3>2
  <2>3. QED BY <1>3, <1>4, <2>1, <2>2, SeqEqual
<1>7. ASSUME Len(c) < max
      PROVE  c = x /\ max - Len(x) \in Nat /\ cz = x \o Capped(y, max - Len(x))
  <2>1. Len(x) < max /\ c = x
    BY <1>1, <1>3, <1>5, <1>7 DEF Smaller
  <2>2. PICK k \in Nat : k = max - Len(x)
    BY <1>1, <2>1
  <2> DEFINE e == Capped(y, k)
             w == x \o e
  <2>3. e \in Seq(A) /\ Len(e) = Smaller(k, Len(y)) /\ \A i \in 1 .. Len(e) : e[i] = y[i]
    BY CappedIs
  <2> HIDE DEF e
  <2>4. w \in Seq(A) /\ IsConcat(w, x, e)
    BY <2>3, ConcatParts
  <2> HIDE DEF w
  <2>5. /\ Len(w) = Len(x) + Len(e) /\ \A i \in 1 .. Len(x) : w[i] = x[i]
        /\ \A i \in 1 .. Len(e) : w[Len(x) + i] = e[i]
    BY <2>4 DEF IsConcat
  <2>6. /\ Len(z) = Len(x) + Len(y) /\ \A i \in 1 .. Len(x) : z[i] = x[i]
        /\ \A i \in 1 .. Len(y) : z[Len(x) + i] = y[i]
    BY <1>2 DEF IsConcat
  <2>7. Len(e) \in Nat /\ Len(e) <= Len(y)
    BY <1>1, <2>3 DEF Smaller
  <2>8. Len(cz) = Len(w)
    BY <1>1, <1>2, <1>4, <2>1, <2>2, <2>3, <2>5 DEF Smaller
  <2>9. ASSUME NEW i \in 1 .. Len(w) PROVE cz[i] = w[i]
    <3>1. cz[i] = z[i]
      BY <1>4, <2>8
    <3>2. CASE i <= Len(x)
      <4>1. i \in 1 .. Len(x)
        BY <1>1, <3>2
      <4>2. QED BY <2>5, <2>6, <3>1, <4>1
    <3>3. CASE ~(i <= Len(x))
      <4>1. PICK j \in 1 .. Len(e) : i = Len(x) + j
        <5>1. i - Len(x) \in 1 .. Len(e) /\ i = Len(x) + (i - Len(x))
          BY <1>1, <2>5, <2>7, <3>3
        <5>2. QED BY <5>1
      <4>2. j \in 1 .. Len(y)
        BY <1>1, <2>7
      <4>3. QED BY <2>3, <2>5, <2>6, <3>1, <4>1, <4>2
    <3>4. QED BY <3>2, <3>3
  <2>10. cz = w
    BY <1>4, <2>4, <2>8, <2>9, SeqEqual
  <2>11. QED BY <2>1, <2>2, <2>10 DEF e, w
<1>8. QED BY <1>5, <1>6, <1>7 DEF c, cz, z

LEMMA RepeatCapped ==
    ASSUME NEW v \in Values, NEW n \in Nat, NEW max \in Nat
    PROVE  Capped(Repeat(v, n), max) = Repeat(v, Smaller(n, max))
<1>1. PICK k \in Nat : k = Smaller(n, max) /\ k = Smaller(max, n) /\ k <= n
  BY DEF Smaller
<1> DEFINE a == Repeat(v, n)
           b == Repeat(v, k)
           c == Capped(a, max)
<1>2. /\ a \in Seq(Values) /\ Len(a) = n /\ \A i \in 1 .. n : a[i] = v
      /\ b \in Seq(Values) /\ Len(b) = k /\ \A i \in 1 .. k : b[i] = v
  BY RepeatType
<1> HIDE DEF a, b
<1>3. c \in Seq(Values) /\ Len(c) = k /\ \A i \in 1 .. Len(c) : c[i] = a[i]
  BY <1>1, <1>2, CappedIs
<1> HIDE DEF c
<1>4. \A i \in 1 .. k : i \in 1 .. n
  BY <1>1
<1>5. \A i \in 1 .. Len(b) : b[i] = c[i]
  BY <1>2, <1>3, <1>4
<1>6. b = c
  BY <1>2, <1>3, <1>5, SeqEqual
<1>7. QED BY <1>1, <1>6 DEF a, b, c

\* A group is stored as far as there is room.
LEMMA GroupStored ==
    ASSUME NEW x \in Seq(Values), NEW group \in Groups, NEW max \in Nat
    PROVE  WithGroup(Capped(x, max), group, max) = Capped(x \o group, max)
<1>1. group \in Seq(Values) /\ Len(group) = Group /\ Group \in Nat
  BY GroupsAreSequences, Constants
<1> DEFINE c == Capped(x, max)
<1>2. /\ Len(c) \in Nat /\ Len(c) <= max
      /\ Len(c) >= max => Capped(x \o group, max) = c
      /\ Len(c) < max => /\ c = x /\ max - Len(x) \in Nat
                         /\ Capped(x \o group, max) = x \o Capped(group, max - Len(x))
  BY <1>1, CappedMore
<1> HIDE DEF c
<1>3. CASE Len(c) >= max
  BY <1>2, <1>3 DEF WithGroup, c
<1>4. CASE Len(c) < max
  <2>1. PICK k \in Nat : k = max - Len(x)
    BY <1>2, <1>4
  <2>2. Smaller(Group, k) = Smaller(k, Len(group))
    BY <1>1 DEF Smaller
  <2>3. ~(Len(c) >= max) /\ c = x
    BY <1>2, <1>4
  <2>4. WithGroup(c, group, max) = x \o SubSeq(group, 1, Smaller(Group, max - Len(x)))
    BY <2>3 DEF WithGroup
  <2>5. WithGroup(c, group, max) = x \o Capped(group, k)
    BY <2>1, <2>2, <2>4 DEF Capped
  <2>6. QED BY <1>2, <1>4, <2>1, <2>5 DEF c
<1>5. QED BY <1>2, <1>3, <1>4

IsAfter(acc, data, max, f) ==
    f = [g \in 0 .. Len(data) |-> IF g = 0 THEN acc ELSE WithGroup(f[g - 1], data[g], max)]
After(acc, data, max) == CHOOSE f : IsAfter(acc, data, max, f)

\* After each group of a run, the groups so far are stored as far as there is room.
LEMMA GroupsStored ==
    ASSUME NEW acc \in Seq(Values), NEW data \in Seq(Groups), NEW max \in Nat, Len(acc) <= max
    PROVE  After(acc, data, max)[Len(data)] = Capped(acc \o FlattenSeq(data), max)
<1> DEFINE g == [i \in 0 .. Len(data) |-> Capped(acc \o UpTo(data, i), max)]
           f == After(acc, data, max)
           T == {k \in Nat : k <= Len(data) => f[k] = g[k]}
<1>1. /\ data \in Seq(Seq(Values)) /\ Len(data) \in Nat
      /\ \A k \in 0 .. Len(data) : UpTo(data, k) \in Seq(Values)
      /\ UpTo(data, 0) = <<>> /\ UpTo(data, Len(data)) = FlattenSeq(data)
      /\ \A k \in 1 .. Len(data) : UpTo(data, k) = UpTo(data, k - 1) \o data[k]
  <2>1. data \in Seq(Seq(Values)) /\ Len(data) \in Nat
        /\ \A k \in 0 .. Len(data) : UpTo(data, k) \in Seq(Values)
    BY GroupsInARow
  <2>2. QED BY <2>1, FlattenUpTo
<1>2. \A i \in 0 .. Len(data) : g[i] = Capped(acc \o UpTo(data, i), max)
  OBVIOUS
<1>3. g = [i \in 0 .. Len(data) |-> g[i]]
  OBVIOUS
<1> HIDE DEF g
<1>4. g[0] = acc
  <2>1. acc \o <<>> = acc
    BY ConcatEmptySeq
  <2>2. Capped(acc, max) = acc
    BY CappedIs
  <2>3. g[0] = Capped(acc \o UpTo(data, 0), max)
    <3>1. 0 \in 0 .. Len(data)
      BY <1>1
    <3>2. QED BY <1>2, <3>1
  <2>4. QED BY <1>1, <2>1, <2>2, <2>3
<1>5. ASSUME NEW k \in 1 .. Len(data) PROVE g[k] = WithGroup(g[k - 1], data[k], max)
  <2>1. k - 1 \in 0 .. Len(data) /\ k \in 0 .. Len(data)
    BY <1>1
  <2> DEFINE u == UpTo(data, k - 1)
             w == data[k]
  <2>2. u \in Seq(Values) /\ w \in Groups /\ w \in Seq(Values) /\ UpTo(data, k) = u \o w
    <3>1. u \in Seq(Values) /\ UpTo(data, k) = u \o w
      BY <1>1, <2>1
    <3>2. w \in Groups
      OBVIOUS
    <3>3. QED BY <3>1, <3>2, GroupsAreSequences
  <2>3. g[k - 1] = Capped(acc \o u, max) /\ g[k] = Capped(acc \o (u \o w), max)
    BY <1>2, <2>1, <2>2
  <2> HIDE DEF u, w
  <2>4. acc \o (u \o w) = (acc \o u) \o w /\ acc \o u \in Seq(Values)
    <3>1. (acc \o u) \o w = acc \o (u \o w)
      BY <2>2, ConcatAssociative
    <3>2. QED BY <2>2, <3>1, ConcatParts
  <2>5. WithGroup(Capped(acc \o u, max), w, max) = Capped((acc \o u) \o w, max)
    BY <2>2, <2>4, GroupStored
  <2>6. QED BY <2>3, <2>4, <2>5 DEF w
<1>6. IsAfter(acc, data, max, g)
  <2>1. \A i \in 0 .. Len(data) :
            g[i] = IF i = 0 THEN acc ELSE WithGroup(g[i - 1], data[i], max)
    BY <1>1, <1>4, <1>5
  <2>2. QED BY <1>3, <2>1 DEF IsAfter
<1>7. IsAfter(acc, data, max, f)
  BY <1>6 DEF After
<1> HIDE DEF f
<1>8. \A i \in 0 .. Len(data) :
          f[i] = IF i = 0 THEN acc ELSE WithGroup(f[i - 1], data[i], max)
  BY <1>7 DEF IsAfter
<1>9. 0 \in T
  BY <1>1, <1>4, <1>8
<1>10. ASSUME NEW k \in Nat, k \in T PROVE k + 1 \in T
  <2> SUFFICES ASSUME k + 1 <= Len(data) PROVE f[k + 1] = g[k + 1]
    OBVIOUS
  <2>1. k + 1 \in 1 .. Len(data) /\ k + 1 \in 0 .. Len(data) /\ (k + 1) - 1 = k /\ k + 1 # 0
        /\ k <= Len(data)
    BY <1>1
  <2>2. f[k] = g[k]
    BY <1>10, <2>1
  <2>3. f[k + 1] = WithGroup(f[k], data[k + 1], max)
    BY <1>8, <2>1
  <2>4. g[k + 1] = WithGroup(g[k], data[k + 1], max)
    BY <1>5, <2>1
  <2>5. QED BY <2>2, <2>3, <2>4
<1>11. Len(data) \in T
  <2> HIDE DEF T
  <2>1. QED BY <1>1, <1>9, <1>10, Induction
<1>12. f[Len(data)] = g[Len(data)] /\ Len(data) \in 0 .. Len(data)
  BY <1>1, <1>11
<1>13. QED BY <1>1, <1>2, <1>12 DEF f

\* A run is stored as far as there is room, of either kind.
LEMMA RunStored ==
    ASSUME NEW r \in Runs, r.n # 0, ~Incomplete(r), NEW acc \in Seq(Values), NEW max \in Nat,
           Len(acc) < max
    PROVE  LevelsAfterRun(r, max, acc) = Capped(acc \o RunValues(r), max)
<1>1. Len(acc) \in Nat /\ r.n \in Nat /\ RunValues(r) \in Seq(Values) /\ r.kind \in {"rle", "packed"}
  BY KindsOfRuns, RunValuesType
<1>2. CASE r.kind = "rle"
  <2>1. r.data # <<>> /\ r.data[1] \in Values /\ RunValues(r) = Repeat(r.data[1], r.n)
    BY <1>1, <1>2, KindsOfRuns, RunValuesType DEF Incomplete
  <2>2. Capped(acc, max) = acc
    BY <1>1, CappedIs
  <2>3. Capped(acc \o RunValues(r), max) = acc \o Capped(RunValues(r), max - Len(acc))
        /\ max - Len(acc) \in Nat
    BY <1>1, <2>2, CappedMore
  <2>4. Capped(Repeat(r.data[1], r.n), max - Len(acc))
          = Repeat(r.data[1], Smaller(r.n, max - Len(acc)))
    BY <1>1, <2>1, <2>3, RepeatCapped
  <2>5. QED BY <1>2, <2>1, <2>3, <2>4 DEF LevelsAfterRun
<1>3. CASE r.kind = "packed"
  <2>1. r.data \in Seq(Groups) /\ RunValues(r) = FlattenSeq(r.data)
    BY <1>3, KindsOfRuns, RunValuesType
  <2>2. LevelsAfterRun(r, max, acc) = After(acc, r.data, max)[Len(r.data)]
    BY <1>3 DEF LevelsAfterRun, After, IsAfter
  <2>3. Len(acc) <= max
    BY <1>1
  <2>4. QED BY <2>1, <2>2, <2>3, GroupsStored
<1>4. QED BY <1>1, <1>2, <1>3

\* The same for any run that is whole, the empty ones included.
LEMMA RunSwept ==
    ASSUME NEW x \in Seq(Values), NEW r \in Runs, ~Incomplete(r), NEW max \in Nat
    PROVE  WithRun(Capped(x, max), r, max) = Capped(x \o RunValues(r), max)
<1>1. RunValues(r) \in Seq(Values) /\ r.n \in Nat
  BY RunValuesType, KindsOfRuns
<1> DEFINE c == Capped(x, max)
           y == RunValues(r)
<1>2. /\ Len(c) \in Nat /\ Len(c) <= max
      /\ Len(c) >= max => Capped(x \o y, max) = c
      /\ Len(c) < max => c = x
  BY <1>1, CappedMore
<1> HIDE DEF c
<1>3. CASE Len(c) >= max
  BY <1>2, <1>3 DEF WithRun, c
<1>4. CASE Len(c) < max /\ r.n = 0
  <2>1. Empty(r)
    <3>1. r.kind # "cut"
      BY DEF Incomplete
    <3>2. QED BY <1>4, <3>1 DEF Empty
  <2>2. y = <<>>
    <3>1. Len(y) = 0
      BY <2>1, EmptyRuns
    <3>2. QED BY <1>1, <3>1
  <2>3. x \o y = x
    BY <2>2, ConcatEmptySeq
  <2>4. WithRun(c, r, max) = c
    BY <1>4 DEF WithRun
  <2>5. QED BY <2>3, <2>4 DEF c
<1>5. CASE Len(c) < max /\ r.n # 0
  <2>1. c = x /\ ~(Len(c) >= max)
    BY <1>2, <1>5
  <2>2. WithRun(c, r, max) = LevelsAfterRun(r, max, x)
    BY <1>5, <2>1 DEF WithRun
  <2>3. Len(x) < max
    BY <1>5, <2>1
  <2>4. QED BY <1>5, <2>2, <2>3, RunStored DEF c
<1>6. QED BY <1>2, <1>3, <1>4, <1>5

IsSweep(s, max, f) ==
    f = [i \in 0 .. Len(s) |-> IF i = 0 THEN <<>> ELSE WithRun(f[i - 1], s[i], max)]
Sweep(s, max) == CHOOSE f : IsSweep(s, max, f)

\* The values of the first runs of a whole stream.
FirstRuns(s, i) == UpTo(RunsValues(s), i)

LEMMA FirstRunsAre ==
    ASSUME NEW s \in Seq(Runs), IsWhole(s)
    PROVE  /\ Len(s) \in Nat /\ FirstRuns(s, 0) = <<>>
           /\ FirstRuns(s, Len(s)) = StreamValues(s)
           /\ \A i \in 0 .. Len(s) : FirstRuns(s, i) \in Seq(Values)
           /\ \A i \in 1 .. Len(s) : s[i] \in Runs /\ ~Incomplete(s[i])
           /\ \A i \in 1 .. Len(s) : FirstRuns(s, i) = FirstRuns(s, i - 1) \o RunValues(s[i])
<1> DEFINE v == RunsValues(s)
<1>1. v \in Seq(Seq(Values)) /\ Len(v) = Len(s) /\ \A i \in 1 .. Len(s) : v[i] = RunValues(s[i])
  BY RunsValuesType
<1>2. StreamValues(s) = FlattenSeq(v)
  BY StreamValuesIs
<1>3. \A i : FirstRuns(s, i) = UpTo(v, i)
  BY DEF FirstRuns
<1> HIDE DEF v
<1>4. /\ UpTo(v, 0) = <<>> /\ UpTo(v, Len(v)) = FlattenSeq(v)
      /\ \A c \in 0 .. Len(v) : UpTo(v, c) \in Seq(Values)
      /\ \A c \in 1 .. Len(v) : UpTo(v, c) = UpTo(v, c - 1) \o v[c]
  BY <1>1, FlattenUpTo
<1>5. \A i \in 1 .. Len(s) : s[i] \in Runs /\ ~Incomplete(s[i])
  BY DEF IsWhole
<1>6. \A i \in 1 .. Len(s) : FirstRuns(s, i) = FirstRuns(s, i - 1) \o RunValues(s[i])
  BY <1>1, <1>3, <1>4
<1>7. \A i \in 0 .. Len(s) : FirstRuns(s, i) \in Seq(Values)
  BY <1>1, <1>3, <1>4
<1>8. Len(s) \in Nat /\ FirstRuns(s, 0) = <<>> /\ FirstRuns(s, Len(s)) = StreamValues(s)
  BY <1>1, <1>2, <1>3, <1>4
<1>9. QED BY <1>5, <1>6, <1>7, <1>8

\* carquet_rle_decode_levels gives what there is room for, and all of it.
LEMMA LevelsDecoded ==
    ASSUME NEW s \in Seq(Runs), IsWhole(s), NEW max \in Nat
    PROVE  DecodeLevels(s, max) = Capped(StreamValues(s), max)
<1> DEFINE g == [i \in 0 .. Len(s) |-> Capped(FirstRuns(s, i), max)]
           f == Sweep(s, max)
           T == {k \in Nat : k <= Len(s) => f[k] = g[k]}
<1>1. /\ Len(s) \in Nat /\ FirstRuns(s, 0) = <<>>
      /\ FirstRuns(s, Len(s)) = StreamValues(s)
      /\ \A i \in 0 .. Len(s) : FirstRuns(s, i) \in Seq(Values)
      /\ \A i \in 1 .. Len(s) : s[i] \in Runs /\ ~Incomplete(s[i])
      /\ \A i \in 1 .. Len(s) : FirstRuns(s, i) = FirstRuns(s, i - 1) \o RunValues(s[i])
  BY FirstRunsAre
<1>2. \A i \in 0 .. Len(s) : g[i] = Capped(FirstRuns(s, i), max)
  OBVIOUS
<1>3. g = [i \in 0 .. Len(s) |-> g[i]]
  OBVIOUS
<1> HIDE DEF g
<1>4. g[0] = <<>>
  <2>1. <<>> \in Seq(Values) /\ Len(<<>>) <= max
    OBVIOUS
  <2>2. Capped(<<>>, max) = <<>>
    BY <2>1, CappedIs
  <2>3. 0 \in 0 .. Len(s)
    BY <1>1
  <2>4. QED BY <1>1, <1>2, <2>2, <2>3
<1>5. ASSUME NEW k \in 1 .. Len(s) PROVE g[k] = WithRun(g[k - 1], s[k], max)
  <2>1. k - 1 \in 0 .. Len(s) /\ k \in 0 .. Len(s)
    BY <1>1
  <2>2. /\ FirstRuns(s, k - 1) \in Seq(Values) /\ s[k] \in Runs /\ ~Incomplete(s[k])
        /\ g[k - 1] = Capped(FirstRuns(s, k - 1), max)
        /\ g[k] = Capped(FirstRuns(s, k - 1) \o RunValues(s[k]), max)
    BY <1>1, <1>2, <2>1
  <2>3. QED BY <2>2, RunSwept
<1>6. IsSweep(s, max, g)
  <2>1. \A i \in 0 .. Len(s) : g[i] = IF i = 0 THEN <<>> ELSE WithRun(g[i - 1], s[i], max)
    BY <1>1, <1>4, <1>5
  <2>2. QED BY <1>3, <2>1 DEF IsSweep
<1>7. IsSweep(s, max, f)
  BY <1>6 DEF Sweep
<1>8. DecodeLevels(s, max) = f[Len(s)]
  BY DEF DecodeLevels, Sweep, IsSweep
<1> HIDE DEF f
<1>9. \A i \in 0 .. Len(s) : f[i] = IF i = 0 THEN <<>> ELSE WithRun(f[i - 1], s[i], max)
  BY <1>7 DEF IsSweep
<1>10. 0 \in T
  BY <1>1, <1>4, <1>9
<1>11. ASSUME NEW k \in Nat, k \in T PROVE k + 1 \in T
  <2> SUFFICES ASSUME k + 1 <= Len(s) PROVE f[k + 1] = g[k + 1]
    OBVIOUS
  <2>1. k + 1 \in 1 .. Len(s) /\ k + 1 \in 0 .. Len(s) /\ (k + 1) - 1 = k /\ k + 1 # 0
        /\ k <= Len(s)
    BY <1>1
  <2>2. f[k] = g[k]
    BY <1>11, <2>1
  <2>3. f[k + 1] = WithRun(f[k], s[k + 1], max)
    BY <1>9, <2>1
  <2>4. g[k + 1] = WithRun(g[k], s[k + 1], max)
    BY <1>5, <2>1
  <2>5. QED BY <2>2, <2>3, <2>4
<1>12. Len(s) \in T
  <2> HIDE DEF T
  <2>1. QED BY <1>1, <1>10, <1>11, Induction
<1>13. f[Len(s)] = g[Len(s)] /\ Len(s) \in 0 .. Len(s)
  BY <1>1, <1>12
<1>14. QED BY <1>1, <1>2, <1>8, <1>13

\* Values as a bitmap has them: where the ones are, how many they are, and how
\* many values there are.
Bits(x) == [bits |-> Ones(x), present |-> Cardinality(Ones(x)), count |-> Len(x)]
Shifted(S, n) == {n + i : i \in S}

LEMMA ShiftedIs ==
    ASSUME NEW n \in Nat, NEW m \in Nat, NEW S \in SUBSET (1 .. m)
    PROVE  /\ IsFiniteSet(S) /\ IsFiniteSet(Shifted(S, n))
           /\ Cardinality(Shifted(S, n)) = Cardinality(S) /\ Cardinality(S) \in Nat
<1>1. IsFiniteSet(1 .. m)
  BY FS_Interval
<1>2. IsFiniteSet(S) /\ Cardinality(S) \in Nat
  BY <1>1, FS_Subset, FS_CardinalityType
<1> DEFINE f == [i \in S |-> n + i]
           U == Shifted(S, n)
<1>3. S \subseteq Nat
  OBVIOUS
<1>4. f \in [S -> U]
  BY DEF Shifted
<1>5. \A a, b \in S : f[a] = f[b] => a = b
  <2> SUFFICES ASSUME NEW a \in S, NEW b \in S, n + a = n + b PROVE a = b
    OBVIOUS
  <2>1. a \in Nat /\ b \in Nat
    BY <1>3
  <2>2. QED BY <2>1
<1>6. \A u \in U : \E i \in S : f[i] = u
  BY DEF Shifted
<1>7. ExistsBijection(S, U)
  <2> HIDE DEF f, U
  <2>1. DOMAIN f = S
    BY <1>4
  <2>2. f \in Injection(S, U)
    BY <1>4, <1>5, <2>1 DEF Injection, IsInjective
  <2>3. f \in Surjection(S, U)
    BY <1>4, <1>6 DEF Surjection
  <2>4. QED BY <2>2, <2>3 DEF ExistsBijection, Bijection
<1> HIDE DEF f, U
<1>8. IsFiniteSet(U) /\ Cardinality(U) = Cardinality(S)
  BY <1>2, <1>7, FS_Bijection
<1>9. QED BY <1>2, <1>8 DEF U

\* The bits of what follows are set behind those of what came before.
LEMMA BitsMore ==
    ASSUME NEW x \in Seq(Values), NEW y \in Seq(Values)
    PROVE  Bits(x \o y) = [bits |-> Ones(x) \cup Shifted(Ones(y), Len(x)),
                           present |-> Cardinality(Ones(x)) + Cardinality(Ones(y)),
                           count |-> Len(x) + Len(y)]
<1> DEFINE z == x \o y
           a == Ones(x)
           b == Ones(y)
           S == Shifted(b, Len(x))
<1>1. Len(x) \in Nat /\ Len(y) \in Nat /\ DOMAIN x = 1 .. Len(x) /\ DOMAIN y = 1 .. Len(y)
  OBVIOUS
<1>2. z \in Seq(Values) /\ IsConcat(z, x, y)
  BY ConcatParts
<1> HIDE DEF z
<1>3. /\ Len(z) = Len(x) + Len(y) /\ DOMAIN z = 1 .. Len(z)
      /\ \A i \in 1 .. Len(x) : z[i] = x[i]
      /\ \A i \in 1 .. Len(y) : z[Len(x) + i] = y[i]
  BY <1>2 DEF IsConcat
<1>4. /\ \A i : i \in a <=> i \in 1 .. Len(x) /\ x[i] = 1
      /\ \A i : i \in b <=> i \in 1 .. Len(y) /\ y[i] = 1
      /\ \A i : i \in Ones(z) <=> i \in 1 .. Len(x) + Len(y) /\ z[i] = 1
      /\ \A i : i \in S <=> \E j \in b : i = Len(x) + j
  BY <1>1, <1>3 DEF Ones, Shifted
<1> HIDE DEF a, b, S
<1>5. Ones(z) = a \cup S
  <2>1. ASSUME NEW i \in a PROVE i \in Ones(z)
    <3>1. i \in 1 .. Len(x) /\ i \in 1 .. Len(x) + Len(y) /\ z[i] = 1
      BY <1>1, <1>3, <1>4
    <3>2. QED BY <1>4, <3>1
  <2>2. ASSUME NEW i \in S PROVE i \in Ones(z)
    <3>1. PICK j \in b : i = Len(x) + j
      BY <1>4
    <3>2. j \in 1 .. Len(y) /\ y[j] = 1
      BY <1>4
    <3>3. i \in 1 .. Len(x) + Len(y)
      BY <1>1, <3>1, <3>2
    <3>4. z[i] = 1
      BY <1>3, <3>1, <3>2
    <3>5. QED BY <1>4, <3>3, <3>4
  <2>3. ASSUME NEW i \in Ones(z) PROVE i \in a \cup S
    <3>1. i \in 1 .. Len(x) + Len(y) /\ z[i] = 1
      BY <1>4
    <3>2. CASE i <= Len(x)
      <4>1. i \in 1 .. Len(x)
        BY <1>1, <3>1, <3>2
      <4>2. QED BY <1>3, <1>4, <3>1, <4>1
    <3>3. CASE ~(i <= Len(x))
      <4>1. PICK j \in 1 .. Len(y) : i = Len(x) + j
        <5>1. i - Len(x) \in 1 .. Len(y) /\ i = Len(x) + (i - Len(x))
          BY <1>1, <3>1, <3>3
        <5>2. QED BY <5>1
      <4>2. y[j] = 1
        BY <1>3, <3>1, <4>1
      <4>3. j \in b
        BY <1>4, <4>2
      <4>4. QED BY <1>4, <4>1, <4>3
    <3>4. QED BY <3>2, <3>3
  <2>4. QED BY <2>1, <2>2, <2>3
<1>6. a \cap S = {}
  <2> SUFFICES ASSUME NEW i \in a, i \in S PROVE FALSE
    OBVIOUS
  <2>1. PICK j \in b : i = Len(x) + j
    BY <1>4
  <2>2. j \in 1 .. Len(y) /\ i \in 1 .. Len(x)
    BY <1>4
  <2>3. QED BY <1>1, <2>1, <2>2
<1>7. Cardinality(a \cup S) = Cardinality(a) + Cardinality(b)
  <2>1. a \in SUBSET (1 .. Len(x)) /\ b \in SUBSET (1 .. Len(y))
    BY <1>4
  <2>2. IsFiniteSet(a) /\ Cardinality(a) \in Nat
    BY <1>1, <2>1, ShiftedIs
  <2>3. IsFiniteSet(S) /\ Cardinality(S) = Cardinality(b) /\ Cardinality(b) \in Nat
    BY <1>1, <2>1, ShiftedIs DEF S
  <2>4. Cardinality(a \cup S) = Cardinality(a) + Cardinality(S) - Cardinality(a \cap S)
    BY <2>2, <2>3, FS_Union
  <2>5. Cardinality(a \cap S) = 0
    BY <1>6, FS_EmptySet
  <2>6. QED BY <2>2, <2>3, <2>4, <2>5
<1>8. Bits(z) = [bits |-> a \cup S, present |-> Cardinality(a) + Cardinality(b),
                 count |-> Len(x) + Len(y)]
  BY <1>3, <1>5, <1>7 DEF Bits
<1>9. QED BY <1>8 DEF z, a, b, S

\* The bitmap after a run that is whole has the bits of what there is room for.
LEMMA BitsSwept ==
    ASSUME NEW x \in Seq(Values), NEW r \in Runs, ~Incomplete(r), NEW max \in Nat
    PROVE  WithBits(Bits(Capped(x, max)), r, max) = Bits(Capped(x \o RunValues(r), max))
<1> DEFINE c == Capped(x, max)
           y == RunValues(r)
<1>1. y \in Seq(Values) /\ r.n \in Nat
  BY RunValuesType, KindsOfRuns
<1>2. /\ Len(c) \in Nat /\ Len(c) <= max
      /\ Len(c) >= max => Capped(x \o y, max) = c
      /\ Len(c) < max => /\ c = x /\ max - Len(x) \in Nat
                         /\ Capped(x \o y, max) = x \o Capped(y, max - Len(x))
  BY <1>1, CappedMore
<1> HIDE DEF c
<1>3. /\ Bits(c).count = Len(c) /\ Bits(c).bits = Ones(c)
      /\ Bits(c).present = Cardinality(Ones(c))
  BY DEF Bits
<1>4. CASE Len(c) >= max
  <2>1. WithBits(Bits(c), r, max) = Bits(c)
    BY <1>3, <1>4 DEF WithBits
  <2>2. QED BY <1>2, <1>4, <2>1 DEF c
<1>5. CASE Len(c) < max /\ r.n = 0
  <2>1. Empty(r)
    <3>1. r.kind # "cut"
      BY DEF Incomplete
    <3>2. QED BY <1>5, <3>1 DEF Empty
  <2>2. y = <<>>
    <3>1. Len(y) = 0
      BY <2>1, EmptyRuns
    <3>2. QED BY <1>1, <3>1
  <2>3. x \o y = x
    BY <2>2, ConcatEmptySeq
  <2>4. WithBits(Bits(c), r, max) = Bits(c)
    BY <1>5 DEF WithBits
  <2>5. QED BY <2>3, <2>4 DEF c
<1>6. CASE Len(c) < max /\ r.n # 0
  <2>1. c = x /\ ~(Len(c) >= max) /\ Len(x) \in Nat
    BY <1>2, <1>6
  <2>2. PICK k \in Nat : k = max - Len(x) /\ 0 < k
    <3>1. max - Len(x) \in Nat /\ 0 < max - Len(x)
      BY <1>2, <1>6, <2>1
    <3>2. QED BY <3>1
  <2> DEFINE new == LevelsAfterRun(r, k, <<>>)
             e == Capped(y, k)
  <2>3. new = e
    <3>1. <<>> \in Seq(Values) /\ Len(<<>>) < k /\ <<>> \o y = y
      BY <1>1, <2>2, ConcatEmptySeq
    <3>2. QED BY <1>6, <3>1, RunStored
  <2>4. e \in Seq(Values)
    BY <1>1, CappedIs
  <2> HIDE DEF e
  <2>5. WithBits(Bits(c), r, max)
          = [bits |-> Ones(x) \cup {Len(x) + i : i \in Ones(e)},
             present |-> Cardinality(Ones(x)) + Cardinality(Ones(e)),
             count |-> Len(x) + Len(e)]
    BY <1>3, <1>6, <2>1, <2>2, <2>3 DEF WithBits
  <2>6. WithBits(Bits(c), r, max) = Bits(x \o e)
    BY <2>4, <2>5, BitsMore DEF Shifted
  <2>7. QED BY <1>2, <1>6, <2>2, <2>6 DEF c, e
<1>7. QED BY <1>2, <1>4, <1>5, <1>6

IsBitSweep(s, max, f) ==
    f = [i \in 0 .. Len(s) |-> IF i = 0 THEN [bits |-> {}, present |-> 0, count |-> 0]
                               ELSE WithBits(f[i - 1], s[i], max)]
BitSweep(s, max) == CHOOSE f : IsBitSweep(s, max, f)

\* carquet_rle_decode_to_bitmap gives the bits of what there is room for.
LEMMA BitmapDecoded ==
    ASSUME NEW s \in Seq(Runs), IsWhole(s), NEW max \in Nat
    PROVE  DecodeToBitmap(s, max) = Bits(Capped(StreamValues(s), max))
<1> DEFINE g == [i \in 0 .. Len(s) |-> Bits(Capped(FirstRuns(s, i), max))]
           f == BitSweep(s, max)
           none == [bits |-> {}, present |-> 0, count |-> 0]
           T == {k \in Nat : k <= Len(s) => f[k] = g[k]}
<1>1. /\ Len(s) \in Nat /\ FirstRuns(s, 0) = <<>>
      /\ FirstRuns(s, Len(s)) = StreamValues(s)
      /\ \A i \in 0 .. Len(s) : FirstRuns(s, i) \in Seq(Values)
      /\ \A i \in 1 .. Len(s) : s[i] \in Runs /\ ~Incomplete(s[i])
      /\ \A i \in 1 .. Len(s) : FirstRuns(s, i) = FirstRuns(s, i - 1) \o RunValues(s[i])
  BY FirstRunsAre
<1>2. \A i \in 0 .. Len(s) : g[i] = Bits(Capped(FirstRuns(s, i), max))
  OBVIOUS
<1>3. g = [i \in 0 .. Len(s) |-> g[i]]
  OBVIOUS
<1> HIDE DEF g
<1>4. g[0] = none
  <2>1. <<>> \in Seq(Values) /\ Len(<<>>) = 0 /\ Len(<<>>) <= max
    OBVIOUS
  <2>2. Capped(<<>>, max) = <<>>
    BY <2>1, CappedIs
  <2>3. 0 \in 0 .. Len(s)
    BY <1>1
  <2>4. Ones(<<>>) = {} /\ Cardinality({}) = 0
    BY FS_EmptySet DEF Ones
  <2>5. Bits(<<>>) = none
    BY <2>1, <2>4 DEF Bits
  <2>6. QED BY <1>1, <1>2, <2>2, <2>3, <2>5
<1> HIDE DEF none
<1>5. ASSUME NEW k \in 1 .. Len(s) PROVE g[k] = WithBits(g[k - 1], s[k], max)
  <2>1. k - 1 \in 0 .. Len(s) /\ k \in 0 .. Len(s)
    BY <1>1
  <2>2. /\ FirstRuns(s, k - 1) \in Seq(Values) /\ s[k] \in Runs /\ ~Incomplete(s[k])
        /\ g[k - 1] = Bits(Capped(FirstRuns(s, k - 1), max))
        /\ g[k] = Bits(Capped(FirstRuns(s, k - 1) \o RunValues(s[k]), max))
    BY <1>1, <1>2, <2>1
  <2>3. QED BY <2>2, BitsSwept
<1>6. IsBitSweep(s, max, g)
  <2>1. \A i \in 0 .. Len(s) : g[i] = IF i = 0 THEN none ELSE WithBits(g[i - 1], s[i], max)
    BY <1>1, <1>4, <1>5
  <2>2. QED BY <1>3, <2>1 DEF IsBitSweep, none
<1>7. IsBitSweep(s, max, f)
  BY <1>6 DEF BitSweep
<1>8. DecodeToBitmap(s, max) = f[Len(s)]
  BY DEF DecodeToBitmap, BitSweep, IsBitSweep
<1> HIDE DEF f
<1>9. \A i \in 0 .. Len(s) : f[i] = IF i = 0 THEN none ELSE WithBits(f[i - 1], s[i], max)
  BY <1>7 DEF IsBitSweep, none
<1>10. 0 \in T
  BY <1>1, <1>4, <1>9
<1>11. ASSUME NEW k \in Nat, k \in T PROVE k + 1 \in T
  <2> SUFFICES ASSUME k + 1 <= Len(s) PROVE f[k + 1] = g[k + 1]
    OBVIOUS
  <2>1. k + 1 \in 1 .. Len(s) /\ k + 1 \in 0 .. Len(s) /\ (k + 1) - 1 = k /\ k + 1 # 0
        /\ k <= Len(s)
    BY <1>1
  <2>2. f[k] = g[k]
    BY <1>11, <2>1
  <2>3. f[k + 1] = WithBits(f[k], s[k + 1], max)
    BY <1>9, <2>1
  <2>4. g[k + 1] = WithBits(g[k], s[k + 1], max)
    BY <1>5, <2>1
  <2>5. QED BY <2>2, <2>3, <2>4
<1>12. Len(s) \in T
  <2> HIDE DEF T
  <2>1. QED BY <1>1, <1>10, <1>11, Induction
<1>13. f[Len(s)] = g[Len(s)] /\ Len(s) \in 0 .. Len(s)
  BY <1>1, <1>12
<1>14. QED BY <1>1, <1>2, <1>8, <1>13

-------------------------------------------------------------------------------
(* The theorems.                                                           *)

LEMMA FreshStands ==
    ASSUME Reading
    PROVE  StandsAt(Fresh, 0)
<1>1. Len(stream) \in Nat /\ Place(0) = 0 /\ Len(given) \in Nat
  BY PlaceIs, StreamValuesIs DEF Reading
<1>2. Fresh.ok = TRUE /\ Fresh.left = 0 /\ Fresh.at - 1 = 0
  BY DEF Fresh
<1>3. Passed(0)
  BY <1>1 DEF Passed
<1>4. 0 \in 0 .. Len(given)
  BY <1>1
<1>5. QED BY <1>1, <1>2, <1>3, <1>4 DEF StandsAt, Between

LEMMA InitHolds ==
    ASSUME Init
    PROVE  HybridInv
<1>1. /\ enc = [prev |-> 0, count |-> 0, has |-> FALSE, pack |-> <<>>]
      /\ dec = Fresh /\ from = 0 /\ result = Nothing
  BY DEF Init
<1>2. enc \in Encoders /\ enc.pack = <<>> /\ enc.count = 0 /\ enc.prev = 0 /\ ~enc.has
  BY <1>1, Constants DEF Encoders
<1>3. dec \in Decoders /\ result \in Results /\ from \in Nat
  BY <1>1 DEF Decoders, Results, Fresh, Nothing
<1>4. result.out = <<>> /\ Len(result.out) = 0 /\ result.asked = 0 /\ from + Len(result.out) = 0
  BY <1>1 DEF Nothing
<1>5. CASE phase = "encode" /\ stream = <<>> /\ given = <<>>
  <2>1. Holds(enc, <<>>, (<<>> \o enc.pack) \o Repeat(enc.prev, enc.count))
    <3>1. Len(enc.pack) < Group
      BY <1>2, Constants
    <3>2. QED BY <1>2, <3>1, SpellsNothing, SpellsHolds
  <2>2. (<<>> \o enc.pack) \o Repeat(enc.prev, enc.count) = <<>>
    <3>1. <<>> \in Seq(Values)
      OBVIOUS
    <3>2. QED BY <1>2, <3>1, RepeatNever, ConcatEmptySeq
  <2>3. Encoding
    <3>1. Len(given) <= MaxValues
      BY <1>5, Constants
    <3>2. QED BY <1>1, <1>2, <1>5, <2>1, <2>2, <3>1 DEF Encoding
  <2>4. Types
    <3>1. stream \in Seq(Runs) /\ given \in Seq(Values)
      BY <1>5
    <3>2. QED BY <1>2, <1>3, <1>5, <3>1 DEF Types
  <2>5. QED BY <1>5, <2>3, <2>4 DEF HybridInv
<1>6. CASE phase = "decode" /\ stream \in Streams /\ given = StreamValues(stream)
  <2>1. stream \in Seq(Runs) /\ Reading /\ given \in Seq(Values) /\ Len(given) \in Nat
    BY <1>6, Constants, StreamValuesIs DEF Reading
  <2>2. StandsAt(dec, from + Len(result.out))
    BY <1>1, <1>4, <2>1, FreshStands
  <2>3. DeliveredInOrder
    <3>1. SubSeq(given, from + 1, from + Len(result.out)) = <<>>
      BY <1>1, <1>4, SubSeqEmpty
    <3>2. from + Len(result.out) <= Len(given)
      BY <1>4, <2>1
    <3>3. QED BY <1>4, <3>1, <3>2 DEF DeliveredInOrder
  <2>4. ShortMeansEnd
    <3>1. ~(Len(result.out) < result.asked)
      BY <1>4
    <3>2. QED BY <3>1 DEF ShortMeansEnd
  <2>5. Decoding
    BY <1>2, <1>6, <2>2, <2>3, <2>4 DEF Decoding
  <2>6. Types
    BY <1>2, <1>3, <1>6, <2>1 DEF Types
  <2>7. QED BY <1>6, <2>5, <2>6 DEF HybridInv
<1>7. QED BY <1>5, <1>6 DEF Init

LEMMA NextHolds ==
    ASSUME HybridInv, [Next]_vars
    PROVE  HybridInv'
<1>1. ASSUME NEW v \in Values, Put(v) PROVE HybridInv'
  BY <1>1, PutKeeps DEF Put
<1>2. ASSUME NEW v \in Values, NEW n \in 2 .. MaxRepeat, PutRepeat(v, n) PROVE HybridInv'
  <2>1. n \in Nat /\ n > 0
    BY Constants
  <2>2. QED BY <1>2, <2>1, PutKeeps DEF PutRepeat
<1>3. CASE Flush
  BY <1>3, FlushKeeps
<1>4. CASE Get
  BY <1>4, CallKeeps DEF Get
<1>5. ASSUME NEW n \in 0 .. MaxRepeat, GetBatch(n) \/ Skip(n) PROVE HybridInv'
  <2>1. n \in Nat
    BY Constants
  <2>2. QED BY <1>5, <2>1, CallKeeps DEF GetBatch, Skip
<1>6. CASE UNCHANGED vars
  BY <1>6 DEF vars, HybridInv, Types, Encoding, Decoding, DeliveredInOrder, ShortMeansEnd,
     StandsAt, Between, Inside, InRle, InPacked, InHand, Passed, Place
<1>7. QED BY <1>1, <1>2, <1>3, <1>4, <1>5, <1>6 DEF Next

\* What is put is held by the encoder and its stream, and what is read was
\* given: for every width of values, size of groups and sequence of calls.
THEOREM HybridInvariant == Spec => []HybridInv
<1>1. Init => HybridInv
  BY InitHolds
<1>2. HybridInv /\ [Next]_vars => HybridInv'
  BY NextHolds
<1>3. QED BY <1>1, <1>2, PTL DEF Spec

\* The stream, the bit-pack buffer and the current run are the values put, in
\* order, whatever was put: no run is written before what came before it, and no
\* group is padded (rle.c, flush_bitpack and carquet_rle_encoder_flush).
THEOREM EncodedIsGivenHolds == Spec => []EncodedIsGiven
<1>1. HybridInv => EncodedIsGiven
  <2> SUFFICES ASSUME HybridInv PROVE EncodedIsGiven
    OBVIOUS
  <2>1. CASE phase = "encode"
    <3>1. Holds(enc, stream, given)
      BY <2>1 DEF HybridInv, Encoding
    <3>2. /\ Written(stream) \in Seq(Values) /\ Spells(stream, Written(stream))
          /\ given = (Written(stream) \o enc.pack) \o Repeat(enc.prev, enc.count)
      BY <3>1, HoldsWords
    <3>3. StreamValues(stream) = Written(stream) /\ IsWhole(stream)
      BY <3>2, SpellsType DEF Spells
    <3>4. QED BY <3>2, <3>3 DEF EncodedIsGiven
  <2>2. CASE phase = "decode"
    <3>1. Decoding /\ Types
      BY <2>2 DEF HybridInv
    <3>2. given = StreamValues(stream) /\ enc.pack = <<>> /\ Repeat(enc.prev, enc.count) = <<>>
          /\ given \in Seq(Values)
      BY <3>1, RepeatNever DEF Decoding, Types
    <3>3. (given \o <<>>) \o <<>> = given
      BY <3>2, ConcatEmptySeq
    <3>4. QED BY <2>2, <3>2, <3>3 DEF EncodedIsGiven
  <2>3. QED BY <2>1, <2>2 DEF HybridInv, Types
<1>2. QED BY <1>1, HybridInvariant, PTL

LEMMA NothingIsDelivered ==
    ASSUME Types, Encoding
    PROVE  DeliveredInOrder /\ ShortMeansEnd
<1>1. from = 0 /\ result.out = <<>> /\ result.asked = 0 /\ Len(result.out) = 0
      /\ Len(given) \in Nat
  BY DEF Types, Encoding, Nothing
<1>2. SubSeq(given, from + 1, from + Len(result.out)) = <<>>
  BY <1>1, SubSeqEmpty
<1>3. from + Len(result.out) <= Len(given) /\ ~(Len(result.out) < result.asked)
  BY <1>1
<1>4. QED BY <1>1, <1>2, <1>3 DEF DeliveredInOrder, ShortMeansEnd

\* Any mix of get, get_batch and skip takes exactly the next values, from any
\* stream, whole or cut: a group that was taken in part is continued, a skip
\* counts values (rle.c, carquet_rle_decoder_get_batch and _skip).
THEOREM DeliveredInOrderHolds == Spec => []DeliveredInOrder
<1>1. HybridInv => DeliveredInOrder
  BY NothingIsDelivered DEF HybridInv, Types, Decoding
<1>2. QED BY <1>1, HybridInvariant, PTL

\* Less than was asked for means that the values have ended, and it is an error
\* exactly when the stream is cut short (rle.c, start_new_run and
\* fill_bitpack_buffer): no value is lost without one.
THEOREM ShortMeansEndHolds == Spec => []ShortMeansEnd
<1>1. HybridInv => ShortMeansEnd
  BY NothingIsDelivered DEF HybridInv, Types, Decoding
<1>2. QED BY <1>1, HybridInvariant, PTL

\* The two decoders that go over a stream in one sweep give its first values,
\* as levels or as bits, whichever run or group the limit falls into, of any
\* whole stream (rle.c, carquet_rle_decode_levels and _to_bitmap): a nullable
\* column has the same nulls whichever of the two reads it.
THEOREM LevelsAgreeHolds == Spec => []LevelsAgree
<1>1. HybridInv => LevelsAgree
  <2> SUFFICES ASSUME HybridInv, phase = "decode", result = Nothing, IsWhole(stream),
                      NEW max \in 0 .. Len(given) + 1
               PROVE  LET levels == SubSeq(given, 1, Smaller(max, Len(given)))
                          ones   == Ones(levels)
                      IN  /\ DecodeLevels(stream, max) = levels
                          /\ DecodeToBitmap(stream, max)
                               = [bits |-> ones, present |-> Cardinality(ones),
                                  count |-> Len(levels)]
    BY DEF LevelsAgree
  <2>1. given = StreamValues(stream) /\ stream \in Seq(Runs) /\ max \in Nat
    BY DEF HybridInv, Types, Decoding
  <2>2. DecodeLevels(stream, max) = Capped(given, max)
    BY <2>1, LevelsDecoded
  <2>3. DecodeToBitmap(stream, max) = Bits(Capped(given, max))
    BY <2>1, BitmapDecoded
  <2>4. QED BY <2>2, <2>3 DEF Bits, Capped
<1>2. QED BY <1>1, HybridInvariant, PTL
===============================================================================
