----------------------------- MODULE PruningProofs -----------------------------
(***************************************************************************)
(* What is there is not passed over: by the bounds of pages, of columns    *)
(* that are not of floats; by those of a chunk, of pages without an empty  *)
(* byte array; and by a bloom filter.                                      *)
(***************************************************************************)
EXTENDS BloomFilter, PageBounds, SequenceLemmas, TLAPS

-------------------------------------------------------------------------------
(* The order of values.                                                    *)

\* The values of a kind of columns: integers are sequences of one word, floats
\* those that have a place among them.
Sort(k) == IF k = "bytes" THEN Seq(Nat)
           ELSE IF k = "floats" THEN IndexedValues["floats"]
           ELSE {v \in Seq(Nat) : Len(v) = 1}

LEMMA SortOfIndexed == \A k \in Kinds : IndexedValues[k] \subseteq Sort(k)
<1>1. IndexedValues \in [Kinds -> SUBSET Seq(Nat)]
  BY PageBoundsAssumption
<1>2. \A v \in IndexedValues["signed"] : Len(v) = 1
  BY PageBoundsAssumption
<1>3. \A v \in IndexedValues["unsigned"] : Len(v) = 1
  BY PageBoundsAssumption
<1>4. QED BY <1>1, <1>2, <1>3 DEF Sort, Kinds

LEMMA WordOf ==
    ASSUME NEW k \in {"signed", "unsigned"}, NEW v \in Sort(k)
    PROVE  v[1] \in Nat
<1>1. v \in Seq(Nat) /\ Len(v) = 1
  BY DEF Sort
<1>2. 1 \in 1 .. Len(v)
  BY <1>1
<1>3. QED BY <1>1, <1>2

\* a comes before b because of the byte at n: it is smaller, or a has none.
FirstDifference(a, b, n) ==
    /\ n \in 1 .. Len(b) /\ n - 1 <= Len(a)
    /\ \A i \in 1 .. n - 1 : a[i] = b[i]
    /\ n <= Len(a) => a[n] < b[n]

LEMMA BytesBeforeIs ==
    ASSUME NEW a \in Seq(Nat), NEW b \in Seq(Nat)
    PROVE  BytesBefore(a, b) <=> \E n \in Nat : FirstDifference(a, b, n)
<1>1. /\ Len(a) \in Nat /\ Len(b) \in Nat /\ DOMAIN a = 1 .. Len(a) /\ DOMAIN b = 1 .. Len(b)
  OBVIOUS
<1>2. ASSUME Len(a) <= Len(b)
      PROVE  SubSeq(b, 1, Len(a)) = a <=> \A i \in 1 .. Len(a) : a[i] = b[i]
  <2>1. 0 + 1 = 1 /\ 0 + Len(a) = Len(a) /\ 0 + Len(a) <= Len(b) /\ 0 \in Nat
    BY <1>1, <1>2
  <2> DEFINE c == SubSeq(b, 0 + 1, 0 + Len(a))
  <2>2. c \in Seq(Nat) /\ IsSlice(c, b, 0, Len(a))
    BY <1>1, <2>1, SliceParts
  <2>3. c = SubSeq(b, 1, Len(a))
    BY <2>1
  <2> HIDE DEF c
  <2>4. Len(c) = Len(a) /\ \A i \in 1 .. Len(a) : c[i] = b[i]
    BY <2>2 DEF IsSlice
  <2>5. ASSUME \A i \in 1 .. Len(a) : a[i] = b[i] PROVE c = a
    <3>1. \A i \in 1 .. Len(c) : c[i] = a[i]
      BY <2>4, <2>5
    <3>2. QED BY <2>2, <2>4, <3>1, SeqEqual
  <2>6. QED BY <2>3, <2>4, <2>5
<1>3. ASSUME BytesBefore(a, b) PROVE \E n \in Nat : FirstDifference(a, b, n)
  <2>1. CASE \E n \in DOMAIN a \cap DOMAIN b :
                 a[n] < b[n] /\ \A i \in 1 .. n - 1 : a[i] = b[i]
    <3>1. PICK n \in Nat : /\ n \in 1 .. Len(a) /\ n \in 1 .. Len(b)
                           /\ a[n] < b[n] /\ \A i \in 1 .. n - 1 : a[i] = b[i]
      BY <1>1, <2>1
    <3>2. n - 1 <= Len(a)
      BY <1>1, <3>1
    <3>3. QED BY <3>1, <3>2 DEF FirstDifference
  <2>2. CASE Len(a) < Len(b) /\ SubSeq(b, 1, Len(a)) = a
    <3>1. PICK n \in Nat : n = Len(a) + 1
      BY <1>1
    <3>2. n \in 1 .. Len(b) /\ n - 1 = Len(a) /\ ~(n <= Len(a)) /\ Len(a) <= Len(b)
      BY <1>1, <2>2, <3>1
    <3>3. FirstDifference(a, b, n)
      BY <1>1, <1>2, <2>2, <3>2 DEF FirstDifference
    <3>4. QED BY <3>3
  <2>3. QED BY <1>3, <2>1, <2>2 DEF BytesBefore
<1>4. ASSUME NEW n \in Nat, FirstDifference(a, b, n) PROVE BytesBefore(a, b)
  <2>1. n \in 1 .. Len(b) /\ n - 1 <= Len(a) /\ \A i \in 1 .. n - 1 : a[i] = b[i]
    BY <1>4 DEF FirstDifference
  <2>2. CASE n <= Len(a)
    <3>1. n \in DOMAIN a \cap DOMAIN b /\ a[n] < b[n]
      BY <1>1, <1>4, <2>1, <2>2 DEF FirstDifference
    <3>2. QED BY <2>1, <3>1 DEF BytesBefore
  <2>3. CASE ~(n <= Len(a))
    <3>1. n - 1 = Len(a) /\ Len(a) < Len(b) /\ Len(a) <= Len(b)
      BY <1>1, <2>1, <2>3
    <3>2. SubSeq(b, 1, Len(a)) = a
      BY <1>2, <2>1, <3>1
    <3>3. QED BY <3>1, <3>2 DEF BytesBefore
  <2>4. QED BY <2>2, <2>3
<1>5. QED BY <1>3, <1>4

LEMMA BytesIrreflexive ==
    ASSUME NEW a \in Seq(Nat)
    PROVE  ~BytesBefore(a, a)
<1> SUFFICES ASSUME BytesBefore(a, a) PROVE FALSE
  OBVIOUS
<1>1. PICK n \in Nat : FirstDifference(a, a, n)
  BY BytesBeforeIs
<1>2. n \in 1 .. Len(a) /\ a[n] < a[n] /\ a[n] \in Nat
  BY <1>1 DEF FirstDifference
<1>3. QED BY <1>2

LEMMA BytesTransitive ==
    ASSUME NEW a \in Seq(Nat), NEW b \in Seq(Nat), NEW c \in Seq(Nat),
           BytesBefore(a, b), BytesBefore(b, c)
    PROVE  BytesBefore(a, c)
<1>1. PICK n \in Nat : FirstDifference(a, b, n)
  BY BytesBeforeIs
<1>2. PICK m \in Nat : FirstDifference(b, c, m)
  BY BytesBeforeIs
<1>3. /\ n \in 1 .. Len(b) /\ n - 1 <= Len(a) /\ \A i \in 1 .. n - 1 : a[i] = b[i]
      /\ n <= Len(a) => a[n] < b[n]
  BY <1>1 DEF FirstDifference
<1>4. /\ m \in 1 .. Len(c) /\ m - 1 <= Len(b) /\ \A i \in 1 .. m - 1 : b[i] = c[i]
      /\ m <= Len(b) => b[m] < c[m]
  BY <1>2 DEF FirstDifference
<1>5. /\ Len(a) \in Nat /\ Len(b) \in Nat /\ Len(c) \in Nat
      /\ \A i \in 1 .. Len(a) : a[i] \in Nat
      /\ \A i \in 1 .. Len(b) : b[i] \in Nat
      /\ \A i \in 1 .. Len(c) : c[i] \in Nat
  OBVIOUS
<1>6. PICK k \in Nat : k <= n /\ k <= m /\ (k = n \/ k = m)
  <2>1. CASE n <= m
    <3>1. n <= n /\ n <= m
      BY <2>1
    <3>2. QED BY <3>1
  <2>2. CASE ~(n <= m)
    <3>1. m <= n /\ m <= m
      BY <2>2
    <3>2. QED BY <3>1
  <2>3. QED BY <2>1, <2>2
<1>7. \A i \in 1 .. k - 1 : a[i] = c[i]
  <2>1. \A i \in 1 .. k - 1 : i \in 1 .. n - 1 /\ i \in 1 .. m - 1
    BY <1>6
  <2>2. QED BY <1>3, <1>4, <2>1
<1>8. k \in 1 .. Len(c) /\ k - 1 <= Len(a)
  BY <1>3, <1>4, <1>5, <1>6
<1>9. ASSUME k <= Len(a) PROVE a[k] < c[k]
  <2>1. k \in 1 .. Len(a) /\ k \in 1 .. Len(c) /\ k \in 1 .. Len(b)
    BY <1>3, <1>4, <1>5, <1>6, <1>9
  <2>2. a[k] \in Nat /\ b[k] \in Nat /\ c[k] \in Nat
    BY <1>5, <2>1
  <2>3. CASE k = n /\ k = m
    <3>1. a[k] < b[k]
      BY <1>3, <1>9, <2>3
    <3>2. b[k] < c[k]
      BY <1>4, <2>1, <2>3
    <3>3. QED BY <2>2, <3>1, <3>2
  <2>4. CASE k = n /\ k # m
    <3>1. k \in 1 .. m - 1
      BY <1>6, <2>1, <2>4
    <3>2. QED BY <1>3, <1>4, <1>9, <2>2, <2>4, <3>1
  <2>5. CASE k = m /\ k # n
    <3>1. k \in 1 .. n - 1
      BY <1>6, <2>1, <2>5
    <3>2. k <= Len(b)
      BY <2>1
    <3>3. QED BY <1>3, <1>4, <2>2, <2>5, <3>1, <3>2
  <2>6. QED BY <1>6, <2>3, <2>4, <2>5
<1>10. FirstDifference(a, c, k)
  BY <1>7, <1>8, <1>9 DEF FirstDifference
<1>11. QED BY <1>10, BytesBeforeIs

LEMMA BytesTotal ==
    ASSUME NEW a \in Seq(Nat), NEW b \in Seq(Nat), a # b
    PROVE  BytesBefore(a, b) \/ BytesBefore(b, a)
<1> DEFINE Same(n) == n <= Len(a) /\ n <= Len(b) /\ a[n] = b[n]
           D == {n \in Nat : n > 0 /\ ~Same(n)}
<1>1. /\ Len(a) \in Nat /\ Len(b) \in Nat
      /\ \A i \in 1 .. Len(a) : a[i] \in Nat
      /\ \A i \in 1 .. Len(b) : b[i] \in Nat
  OBVIOUS
<1>2. Len(a) + 1 \in D
  BY <1>1
<1>3. PICK m \in D : \A n \in D : m <= n
  <2>1. D \subseteq Nat /\ D # {}
    BY <1>2
  <2> HIDE DEF D
  <2>2. QED BY <2>1, LeastNatural
<1>4. m \in Nat /\ m > 0 /\ ~Same(m)
  OBVIOUS
<1>5. \A i \in 1 .. m - 1 : i <= Len(a) /\ i <= Len(b) /\ a[i] = b[i]
  <2> SUFFICES ASSUME NEW i \in 1 .. m - 1 PROVE Same(i)
    OBVIOUS
  <2>1. i \in Nat /\ i > 0 /\ ~(m <= i)
    BY <1>4
  <2>2. QED BY <1>3, <2>1
<1>6. m - 1 <= Len(a) /\ m - 1 <= Len(b)
  <2>1. CASE m = 1
    BY <1>1, <2>1
  <2>2. CASE m # 1
    <3>1. m - 1 \in 1 .. m - 1
      BY <1>4, <2>2
    <3>2. QED BY <1>5, <3>1
  <2>3. QED BY <2>1, <2>2
<1>7. CASE ~(m <= Len(a)) /\ ~(m <= Len(b))
  <2>1. Len(a) = m - 1 /\ Len(b) = m - 1
    BY <1>1, <1>4, <1>6, <1>7
  <2>2. \A i \in 1 .. Len(a) : a[i] = b[i]
    BY <1>5, <2>1
  <2>3. a = b
    BY <2>1, <2>2, SeqEqual
  <2>4. QED BY <2>3
<1>8. CASE m <= Len(b) /\ (m <= Len(a) => a[m] < b[m])
  <2>1. m \in 1 .. Len(b)
    BY <1>1, <1>4, <1>8
  <2>2. FirstDifference(a, b, m)
    BY <1>5, <1>6, <1>8, <2>1 DEF FirstDifference
  <2>3. QED BY <1>4, <2>2, BytesBeforeIs
<1>9. CASE m <= Len(a) /\ (m <= Len(b) => b[m] < a[m])
  <2>1. m \in 1 .. Len(a)
    BY <1>1, <1>4, <1>9
  <2>2. FirstDifference(b, a, m)
    BY <1>5, <1>6, <1>9, <2>1 DEF FirstDifference
  <2>3. QED BY <1>4, <2>2, BytesBeforeIs
<1>10. CASE m <= Len(a) /\ m <= Len(b)
  <2>1. a[m] # b[m] /\ m \in 1 .. Len(a) /\ m \in 1 .. Len(b)
    BY <1>1, <1>4, <1>10
  <2>2. a[m] < b[m] \/ b[m] < a[m]
    BY <1>1, <2>1
  <2>3. QED BY <1>8, <1>9, <1>10, <2>2
<1>11. QED BY <1>7, <1>8, <1>9, <1>10

\* compare_stat_values orders the values of a column.
LEMMA Ordered ==
    ASSUME NEW k \in Kinds, NEW a \in Sort(k), NEW b \in Sort(k), NEW c \in Sort(k)
    PROVE  /\ ~Before(k, a, a)
           /\ Before(k, a, b) /\ Before(k, b, c) => Before(k, a, c)
           /\ Before(k, a, c) => Before(k, a, b) \/ Before(k, b, c)
<1>1. CASE k = "bytes"
  <2>1. a \in Seq(Nat) /\ b \in Seq(Nat) /\ c \in Seq(Nat)
    BY <1>1 DEF Sort
  <2>2. \A x, y \in Seq(Nat) : Before(k, x, y) <=> BytesBefore(x, y)
    BY <1>1 DEF Before
  <2>3. ASSUME Before(k, a, c), ~Before(k, b, c) PROVE Before(k, a, b)
    <3>1. CASE a = b
      BY <2>3, <3>1
    <3>2. CASE BytesBefore(b, a)
      <4>1. BytesBefore(b, c)
        BY <2>1, <2>2, <2>3, <3>2, BytesTransitive
      <4>2. QED BY <2>1, <2>2, <2>3, <4>1
    <3>3. CASE BytesBefore(a, b)
      BY <2>1, <2>2, <3>3
    <3>4. QED BY <2>1, <3>1, <3>2, <3>3, BytesTotal
  <2>4. ~Before(k, a, a)
    BY <2>1, <2>2, BytesIrreflexive
  <2>5. Before(k, a, b) /\ Before(k, b, c) => Before(k, a, c)
    BY <2>1, <2>2, BytesTransitive
  <2>6. QED BY <2>3, <2>4, <2>5
<1>2. CASE k = "signed"
  <2>1. a[1] \in Nat /\ b[1] \in Nat /\ c[1] \in Nat
    BY <1>2, WordOf
  <2>2. \A w \in Nat : AsSigned(w) \in Int
    BY PageBoundsAssumption DEF AsSigned
  <2>3. \A x, y : Before(k, x, y) <=> AsSigned(x[1]) < AsSigned(y[1])
    BY <1>2 DEF Before
  <2>4. PICK x \in Int, y \in Int, z \in Int :
            x = AsSigned(a[1]) /\ y = AsSigned(b[1]) /\ z = AsSigned(c[1])
    BY <2>1, <2>2
  <2>5. QED BY <2>3, <2>4
<1>3. CASE k = "unsigned"
  <2>1. a[1] \in Nat /\ b[1] \in Nat /\ c[1] \in Nat
    BY <1>3, WordOf
  <2>2. \A x, y : Before(k, x, y) <=> x[1] < y[1]
    BY <1>3 DEF Before
  <2>3. QED BY <2>1, <2>2
<1>4. CASE k = "floats"
  <2>1. PICK x \in Int, y \in Int, z \in Int :
            x = FloatNumber[a] /\ y = FloatNumber[b] /\ z = FloatNumber[c]
    BY <1>4, PageBoundsAssumption DEF Sort
  <2>2. \A v, w : Before(k, v, w) <=> FloatNumber[v] < FloatNumber[w]
    BY <1>4 DEF Before
  <2>3. QED BY <2>1, <2>2
<1>5. QED BY <1>1, <1>2, <1>3, <1>4 DEF Kinds

\* A finite set has an element that no other comes before.
LEMMA FirstOfSet ==
    ASSUME NEW R, NEW S, IsFiniteSet(S), S # {},
           \A a \in S : <<a, a>> \notin R,
           \A a, b, c \in S : <<a, b>> \in R /\ <<b, c>> \in R => <<a, c>> \in R
    PROVE  \E v \in S : \A w \in S : <<w, v>> \notin R
<1> DEFINE First(s) == \E v \in s : \A w \in s : <<w, v>> \notin R
           T == {n \in Nat : \A s \in SUBSET S : Cardinality(s) = n => s = {} \/ First(s)}
<1>1. 0 \in T
  <2>1. ASSUME NEW s \in SUBSET S, Cardinality(s) = 0 PROVE s = {}
    BY <2>1, FS_EmptySet, FS_Subset
  <2>2. QED BY <2>1
<1>2. ASSUME NEW n \in Nat, n \in T PROVE n + 1 \in T
  <2> SUFFICES ASSUME NEW s \in SUBSET S, Cardinality(s) = n + 1, s # {} PROVE First(s)
    OBVIOUS
  <2> DEFINE e == Some(s)
             r == s \ {e}
  <2>1. e \in s /\ Cardinality(r) = n
    <3>1. IsFiniteSet(s)
      BY FS_Subset
    <3>2. e \in s /\ Cardinality(r) = Cardinality(s) - 1
      BY <3>1, SomeOf
    <3>3. QED BY <3>2
  <2> HIDE DEF e
  <2>2. s = r \cup {e} /\ r \in SUBSET S /\ e \in S
    BY <2>1
  <2>3. CASE r = {}
    <3>1. s = {e}
      BY <2>2, <2>3
    <3>2. QED BY <2>2, <3>1
  <2>4. CASE r # {}
    <3>1. First(r)
      BY <1>2, <2>1, <2>2, <2>4
    <3>2. PICK v \in r : \A w \in r : <<w, v>> \notin R
      BY <3>1
    <3>3. CASE <<e, v>> \in R
      <4>1. \A w \in r : <<w, e>> \notin R
        BY <2>2, <3>2, <3>3
      <4>2. \A w \in s : <<w, e>> \notin R
        BY <2>2, <4>1
      <4>3. QED BY <2>1, <4>2
    <3>4. CASE <<e, v>> \notin R
      <4>1. v \in s /\ \A w \in s : <<w, v>> \notin R
        BY <2>2, <3>2, <3>4
      <4>2. QED BY <4>1
    <3>5. QED BY <3>3, <3>4
  <2>5. QED BY <2>3, <2>4
<1>3. Nat \subseteq T
  <2> HIDE DEF T
  <2>1. QED BY <1>1, <1>2, Induction
<1>4. Cardinality(S) \in Nat
  BY FS_CardinalityType
<1>5. QED BY <1>3, <1>4

-------------------------------------------------------------------------------
(* Bounds.                                                                 *)

\* What column_index_builder takes the bounds of a page to be: two of its
\* values, and none before the one or behind the other.
LEMMA ExtremesAre ==
    ASSUME NEW k \in Kinds, NEW S, IsFiniteSet(S), S # {}, S \subseteq Sort(k)
    PROVE  /\ Extremes(k, S).min \in S /\ Extremes(k, S).max \in S
           /\ \A w \in S : ~Before(k, w, Extremes(k, S).min) /\ ~Before(k, Extremes(k, S).max, w)
<1> DEFINE R == {p \in S \X S : Before(k, p[1], p[2])}
           Q == {p \in S \X S : Before(k, p[2], p[1])}
<1>1. \A a, b \in S : (<<a, b>> \in R <=> Before(k, a, b)) /\ (<<a, b>> \in Q <=> Before(k, b, a))
  OBVIOUS
<1>2. \A a \in S : ~Before(k, a, a)
  BY Ordered
<1>3. \A a, b, c \in S : Before(k, a, b) /\ Before(k, b, c) => Before(k, a, c)
  BY Ordered
<1> HIDE DEF R, Q
<1>4. \E v \in S : \A w \in S : ~Before(k, w, v)
  <2>1. \A a \in S : <<a, a>> \notin R
    BY <1>1, <1>2
  <2>2. \A a, b, c \in S : <<a, b>> \in R /\ <<b, c>> \in R => <<a, c>> \in R
    BY <1>1, <1>3
  <2>3. \E v \in S : \A w \in S : <<w, v>> \notin R
    BY <2>1, <2>2, FirstOfSet
  <2>4. QED BY <1>1, <2>3
<1>5. \E v \in S : \A w \in S : ~Before(k, v, w)
  <2>1. \A a \in S : <<a, a>> \notin Q
    BY <1>1, <1>2
  <2>2. \A a, b, c \in S : <<a, b>> \in Q /\ <<b, c>> \in Q => <<a, c>> \in Q
    BY <1>1, <1>3
  <2>3. \E v \in S : \A w \in S : <<w, v>> \notin Q
    BY <2>1, <2>2, FirstOfSet
  <2>4. QED BY <1>1, <2>3
<1>6. Least(k, S) \in S /\ \A w \in S : ~Before(k, w, Least(k, S))
  BY <1>4 DEF Least
<1>7. Greatest(k, S) \in S /\ \A w \in S : ~Before(k, Greatest(k, S), w)
  BY <1>5 DEF Greatest
<1>8. Extremes(k, S).min = Least(k, S) /\ Extremes(k, S).max = Greatest(k, S)
  BY DEF Extremes, Bounds
<1>9. QED BY <1>6, <1>7, <1>8

\* A lower bound that is cut short is still one.
LEMMA ShortenedBefore ==
    ASSUME NEW b \in Seq(Nat), NEW v \in Seq(Nat), Len(b) > BoundLength,
           BytesBefore(v, Shortened(b))
    PROVE  BytesBefore(v, b)
<1>1. BoundLength \in Nat /\ Len(b) \in Nat
  BY PageBoundsAssumption
<1>2. 0 \in Nat /\ 0 + BoundLength <= Len(b) /\ 0 + 1 = 1 /\ 0 + BoundLength = BoundLength
  BY <1>1
<1> DEFINE c == SubSeq(b, 0 + 1, 0 + BoundLength)
<1>3. c \in Seq(Nat) /\ IsSlice(c, b, 0, BoundLength)
  BY <1>1, <1>2, SliceParts
<1>4. c = Shortened(b)
  BY <1>2 DEF Shortened
<1> HIDE DEF c
<1>5. Len(c) = BoundLength /\ \A i \in 1 .. BoundLength : c[i] = b[i]
  BY <1>1, <1>3 DEF IsSlice
<1>6. PICK n \in Nat : FirstDifference(v, c, n)
  BY <1>3, <1>4, BytesBeforeIs
<1>7. /\ n \in 1 .. BoundLength /\ n - 1 <= Len(v)
      /\ \A i \in 1 .. n - 1 : v[i] = c[i]
      /\ n <= Len(v) => v[n] < c[n]
  BY <1>5, <1>6 DEF FirstDifference
<1>8. \A i \in 1 .. n - 1 : i \in 1 .. BoundLength
  BY <1>1, <1>7
<1>9. n \in 1 .. Len(b)
  BY <1>1, <1>7
<1>10. \A i \in 1 .. n - 1 : v[i] = b[i]
  BY <1>5, <1>7, <1>8
<1>11. n <= Len(v) => v[n] < b[n]
  BY <1>5, <1>7
<1>12. FirstDifference(v, b, n)
  BY <1>7, <1>9, <1>10, <1>11 DEF FirstDifference
<1>13. QED BY <1>12, BytesBeforeIs

\* An upper bound that is cut short and raised comes behind what it stands for.
LEMMA RaisedIs ==
    ASSUME NEW b \in Seq(Nat), Len(b) > BoundLength, Raised(b) # <<>>
    PROVE  Raised(b) \in Seq(Nat) /\ BytesBefore(b, Raised(b))
<1>1. BoundLength \in Nat /\ Len(b) \in Nat
  BY PageBoundsAssumption
<1> DEFINE kept == {n \in 1 .. BoundLength : b[n] < ByteMax}
           last == CHOOSE n \in kept : \A m \in kept : m <= n
           r == [SubSeq(b, 1, last) EXCEPT ![last] = @ + 1]
<1>2. kept # {} /\ Raised(b) = r
  BY DEF Raised
<1>3. last \in kept
  <2> DEFINE T == {BoundLength - n : n \in kept}
  <2>1. T \subseteq Nat /\ T # {}
    <3>1. \A n \in kept : BoundLength - n \in Nat
      BY <1>1
    <3> HIDE DEF kept
    <3>2. QED BY <1>2, <3>1
  <2>2. PICK t \in T : \A u \in T : t <= u
    <3> HIDE DEF T
    <3>1. QED BY <2>1, LeastNatural
  <2>3. PICK n \in kept : t = BoundLength - n
    OBVIOUS
  <2>4. ASSUME NEW m \in kept PROVE m <= n
    <3>1. m \in Nat /\ n \in Nat
      BY <1>1
    <3>2. BoundLength - m \in T
      OBVIOUS
    <3>3. BoundLength - n <= BoundLength - m
      BY <2>2, <2>3, <3>2
    <3>4. QED BY <1>1, <3>1, <3>3
  <2> HIDE DEF kept, T
  <2>5. \E x \in kept : \A m \in kept : m <= x
    BY <2>4
  <2>6. QED BY <2>5
<1> HIDE DEF last
<1>4. last \in 1 .. BoundLength
  BY <1>3
<1>5. last \in Nat /\ 0 \in Nat /\ 0 + last <= Len(b) /\ 0 + 1 = 1 /\ 0 + last = last
  BY <1>1, <1>4
<1> DEFINE c == SubSeq(b, 0 + 1, 0 + last)
<1>6. c \in Seq(Nat) /\ IsSlice(c, b, 0, last)
  BY <1>5, SliceParts
<1>7. c = SubSeq(b, 1, last)
  BY <1>5
<1> HIDE DEF c
<1>8. Len(c) = last /\ \A i \in 1 .. last : c[i] = b[i] /\ c[i] \in Nat
  <2>1. Len(c) = last /\ \A i \in 1 .. last : c[i] = b[i]
    BY <1>5, <1>6 DEF IsSlice
  <2>2. \A i \in 1 .. Len(c) : c[i] \in Nat
    BY <1>6
  <2>3. QED BY <2>1, <2>2
<1>9. r = [c EXCEPT ![last] = @ + 1]
  BY <1>7
<1> HIDE DEF r
<1>10. last \in 1 .. Len(c)
  BY <1>1, <1>4, <1>8
<1>11. r \in Seq(Nat) /\ Len(r) = last /\ r[last] = c[last] + 1
       /\ \A i \in 1 .. last - 1 : r[i] = c[i]
  <2>1. r \in Seq(Nat) /\ Len(r) = Len(c)
    <3>1. c[last] + 1 \in Nat
      BY <1>4, <1>8, <1>10
    <3>2. PICK x \in Nat : x = c[last] + 1
      BY <3>1
    <3>3. r = [c EXCEPT ![last] = x]
      BY <1>9, <3>2
    <3>4. QED BY <1>6, <1>10, <3>3
  <2>2. DOMAIN c = 1 .. last
    BY <1>6, <1>8
  <2>3. r[last] = c[last] + 1
    BY <1>8, <1>9, <1>10, <2>2
  <2>4. \A i \in 1 .. last - 1 : i \in 1 .. last /\ i # last
    BY <1>5
  <2>5. \A i \in 1 .. last - 1 : r[i] = c[i]
    BY <1>9, <2>2, <2>4
  <2>6. QED BY <1>8, <2>1, <2>3, <2>5
<1>12. last \in 1 .. Len(r) /\ last - 1 <= Len(b)
  BY <1>5, <1>8, <1>10, <1>11
<1>13. \A i \in 1 .. last - 1 : b[i] = r[i]
  <2>1. \A i \in 1 .. last - 1 : i \in 1 .. last
    BY <1>5
  <2>2. QED BY <1>8, <1>11, <2>1
<1>14. b[last] < r[last]
  <2>1. c[last] = b[last] /\ c[last] \in Nat
    BY <1>8, <1>10
  <2>2. QED BY <1>11, <2>1
<1>15. FirstDifference(b, r, last)
  BY <1>12, <1>13, <1>14 DEF FirstDifference
<1>16. QED BY <1>2, <1>5, <1>11, <1>15, BytesBeforeIs

\* What is within the bounds of a chunk is within those of its footer.
LEMMA FooterHolds ==
    ASSUME NEW k \in Kinds, NEW lo \in Sort(k), NEW hi \in Sort(k), NEW v \in Sort(k),
           ~Before(k, v, lo), ~Before(k, hi, v)
    PROVE  Within(k, FooterBounds(k, Bounds(lo, hi)), v)
<1> DEFINE b == Bounds(lo, hi)
           f == FooterBounds(k, b)
<1>1. b.min = lo /\ b.max = hi
  BY DEF Bounds
<1> HIDE DEF b
<1>2. CASE ~AreThere(b)
  <2>1. f.min = <<>> /\ f.max = <<>>
    BY <1>2 DEF FooterBounds, NoBounds, Bounds
  <2>2. QED BY <2>1 DEF Within, IsThere, b
<1>3. CASE AreThere(b)
  <2>1. /\ f.min = IF IsLong(k, lo) THEN Shortened(lo) ELSE lo
        /\ f.max = IF IsLong(k, hi) THEN Raised(hi) ELSE hi
    BY <1>1, <1>3 DEF FooterBounds, Bounds
  <2> HIDE DEF f
  <2>2. IsThere(f.min) => ~Before(k, v, f.min)
    <3>1. CASE ~IsLong(k, lo)
      BY <2>1, <3>1
    <3>2. CASE IsLong(k, lo)
      <4>1. k = "bytes" /\ Len(lo) > BoundLength /\ f.min = Shortened(lo)
        BY <2>1, <3>2 DEF IsLong
      <4>2. lo \in Seq(Nat) /\ v \in Seq(Nat)
        BY <4>1 DEF Sort
      <4>3. BytesBefore(v, Shortened(lo)) => BytesBefore(v, lo)
        BY <4>1, <4>2, ShortenedBefore
      <4>4. QED BY <4>1, <4>3 DEF Before
    <3>3. QED BY <3>1, <3>2
  <2>3. IsThere(f.max) => ~Before(k, f.max, v)
    <3>1. CASE ~IsLong(k, hi)
      BY <2>1, <3>1
    <3>2. CASE IsLong(k, hi)
      <4> SUFFICES ASSUME f.max # <<>>, Before(k, f.max, v) PROVE FALSE
        BY DEF IsThere
      <4>1. k = "bytes" /\ Len(hi) > BoundLength /\ f.max = Raised(hi)
        BY <2>1, <3>2 DEF IsLong
      <4>2. hi \in Seq(Nat) /\ v \in Seq(Nat)
        BY <4>1 DEF Sort
      <4>3. Raised(hi) \in Seq(Nat) /\ BytesBefore(hi, Raised(hi))
        BY <4>1, <4>2, RaisedIs
      <4>4. BytesBefore(Raised(hi), v)
        BY <4>1 DEF Before
      <4>5. BytesBefore(hi, v)
        BY <4>2, <4>3, <4>4, BytesTransitive
      <4>6. QED BY <4>1, <4>5 DEF Before
    <3>3. QED BY <3>1, <3>2
  <2>4. Within(k, f, v)
    BY <2>2, <2>3 DEF Within
  <2>5. QED BY <2>4 DEF f, b
<1>4. QED BY <1>2, <1>3

\* v lies between the bounds of a chunk, which are there.
Covers(k, bounds, v) ==
    AreThere(bounds) /\ ~Before(k, v, bounds.min) /\ ~Before(k, bounds.max, v)
There(k) == Sort(k) \ {<<>>}
AllBounds(k) == {Bounds(lo, hi) : lo \in There(k), hi \in There(k)} \cup {NoBounds}

LEMMA BoundsWithin ==
    ASSUME NEW k \in Kinds, NEW bounds \in AllBounds(k), NEW v \in Sort(k), Covers(k, bounds, v)
    PROVE  Within(k, FooterBounds(k, bounds), v)
<1>1. AreThere(bounds) /\ ~Before(k, v, bounds.min) /\ ~Before(k, bounds.max, v)
  BY DEF Covers
<1>2. bounds # NoBounds
  BY <1>1 DEF AreThere, IsThere, NoBounds, Bounds
<1>3. PICK lo \in Sort(k), hi \in Sort(k) : bounds = Bounds(lo, hi)
  BY <1>2 DEF AllBounds, There
<1>4. bounds.min = lo /\ bounds.max = hi
  BY <1>3 DEF Bounds
<1>5. QED BY <1>1, <1>3, <1>4, FooterHolds

\* merge_page_statistics keeps what the bounds cover, and adds the page's values
\* if neither of its bounds is empty.
LEMMA MergedCovers ==
    ASSUME NEW k \in Kinds, NEW bounds \in AllBounds(k),
           NEW S, IsFiniteSet(S), S \subseteq Sort(k)
    PROVE  LET page == Extremes(k, S)
               both == Merged(k, bounds, page)
           IN  /\ both \in AllBounds(k)
               /\ \A v \in Sort(k) : Covers(k, bounds, v) => Covers(k, both, v)
               /\ AreThere(page) => \A v \in S : Covers(k, both, v)
<1> DEFINE page == Extremes(k, S)
           both == Merged(k, bounds, page)
<1>1. CASE ~AreThere(page)
  <2>1. both = bounds
    BY <1>1 DEF Merged
  <2>2. QED BY <1>1, <2>1
<1>2. CASE AreThere(page)
  <2>1. S # {}
    BY <1>2 DEF Extremes, NoBounds, Bounds, AreThere, IsThere
  <2>2. /\ page.min \in S /\ page.max \in S
        /\ \A w \in S : ~Before(k, w, page.min) /\ ~Before(k, page.max, w)
    BY <2>1, ExtremesAre
  <2>3. page.min \in Sort(k) /\ page.max \in Sort(k) /\ page.min # <<>> /\ page.max # <<>>
    BY <1>2, <2>2 DEF AreThere, IsThere
  <2> HIDE DEF page
  <2>4. CASE bounds = NoBounds
    <3>1. both = Bounds(page.min, page.max)
      BY <1>2, <2>4 DEF Merged
    <3>2. both.min = page.min /\ both.max = page.max /\ both \in AllBounds(k)
      BY <2>3, <3>1 DEF Bounds, AllBounds, There
    <3>3. \A v : ~Covers(k, bounds, v)
      BY <2>4 DEF Covers, AreThere, IsThere, NoBounds, Bounds
    <3>4. \A v \in S : Covers(k, both, v)
      BY <2>2, <2>3, <3>2 DEF Covers, AreThere, IsThere
    <3>5. QED BY <3>2, <3>3, <3>4 DEF page
  <2>5. CASE bounds # NoBounds
    <3>1. PICK lo \in There(k), hi \in There(k) : bounds = Bounds(lo, hi)
      BY <2>5 DEF AllBounds
    <3> USE DEF There
    <3>2. bounds.min = lo /\ bounds.max = hi
      BY <3>1 DEF Bounds
    <3> DEFINE low == IF Before(k, page.min, lo) THEN page.min ELSE lo
               high == IF Before(k, hi, page.max) THEN page.max ELSE hi
    <3>3. both = Bounds(low, high)
      BY <1>2, <2>5, <3>2 DEF Merged
    <3>4. both.min = low /\ both.max = high
      BY <3>3 DEF Bounds
    <3>5. low \in There(k) /\ high \in There(k)
      BY <2>3
    <3>6. both \in AllBounds(k)
      BY <3>3, <3>5 DEF AllBounds
    <3>7. ASSUME NEW v \in Sort(k), ~Before(k, v, lo) \/ ~Before(k, v, page.min)
          PROVE  ~Before(k, v, low)
      <4>1. CASE Before(k, page.min, lo)
        BY <2>3, <3>7, <4>1, Ordered
      <4>2. CASE ~Before(k, page.min, lo)
        BY <2>3, <3>7, <4>2, Ordered
      <4>3. QED BY <4>1, <4>2
    <3>8. ASSUME NEW v \in Sort(k), ~Before(k, hi, v) \/ ~Before(k, page.max, v)
          PROVE  ~Before(k, high, v)
      <4>1. CASE Before(k, hi, page.max)
        BY <2>3, <3>8, <4>1, Ordered
      <4>2. CASE ~Before(k, hi, page.max)
        BY <2>3, <3>8, <4>2, Ordered
      <4>3. QED BY <4>1, <4>2
    <3>9. AreThere(both)
      BY <3>4, <3>5 DEF AreThere, IsThere
    <3> HIDE DEF low, high
    <3>10. ASSUME NEW v \in Sort(k), Covers(k, bounds, v) PROVE Covers(k, both, v)
      <4>1. ~Before(k, v, lo) /\ ~Before(k, hi, v)
        BY <3>2, <3>10 DEF Covers
      <4>2. ~Before(k, v, low) /\ ~Before(k, high, v)
        BY <3>7, <3>8, <4>1
      <4>3. QED BY <3>4, <3>9, <4>2 DEF Covers
    <3>11. ASSUME NEW v \in S PROVE Covers(k, both, v)
      <4>1. ~Before(k, v, low) /\ ~Before(k, high, v)
        BY <2>2, <3>7, <3>8
      <4>2. QED BY <3>4, <3>9, <4>1 DEF Covers
    <3>12. QED BY <3>6, <3>10, <3>11 DEF page
  <2>6. QED BY <2>4, <2>5
<1>3. QED BY <1>1, <1>2

-------------------------------------------------------------------------------
(* The pages of a chunk.                                                   *)

Page(k)    == [values : SUBSET IndexedValues[k], nulls : Nat]
Entries(k) == {Entry(k, s, n) : s \in SUBSET IndexedValues[k], n \in Nat}
Place      == [offset : Nat, compressed_page_size : Nat, first_row_index : Nat, raw : Nat]

IndexTypes ==
    /\ kind \in Kinds
    /\ pages \in Seq(Page(kind)) /\ column \in Seq(Entries(kind)) /\ offsets \in Seq(Place)
    /\ Len(column) = Len(pages) /\ Len(offsets) = Len(pages)

FinitelyMuchIsHeld ==
    \A i \in 1 .. Len(pages) : IsFiniteSet(pages[i].values)

\* The index says of every page what was in it when it was added.
EntriesArePages ==
    \A i \in 1 .. Len(pages) : column[i] = Entry(kind, pages[i].values, pages[i].nulls)

PlacesAreOrdered ==
    \A i \in 1 .. Len(pages) : \A j \in 1 .. i - 1 :
        /\ offsets[j].offset + offsets[j].compressed_page_size <= offsets[i].offset
        /\ offsets[j].first_row_index + Held(pages[j]) <= offsets[i].first_row_index

\* The bounds of the chunk cover the pages that were merged into them.
BoundsCoverPages ==
    /\ chunkBounds \in AllBounds(kind)
    /\ \A i \in 1 .. Len(pages) : AreThere(column[i]) =>
          \A v \in pages[i].values : Covers(kind, chunkBounds, v)

IndexInv ==
    IndexTypes /\ FinitelyMuchIsHeld /\ EntriesArePages /\ BoundsCoverPages /\ PlacesAreOrdered

LEMMA IndexInvInit == IndexInit => IndexInv
<1> SUFFICES ASSUME IndexInit PROVE IndexInv
  OBVIOUS
<1>1. /\ kind \in Kinds /\ pages = <<>> /\ column = <<>> /\ offsets = <<>>
      /\ chunkBounds = NoBounds
  BY DEF IndexInit
<1>2. Len(pages) = 0 /\ DOMAIN pages = {} /\ 1 .. Len(pages) = {}
  BY <1>1
<1>3. IndexTypes
  BY <1>1 DEF IndexTypes
<1>4. FinitelyMuchIsHeld /\ EntriesArePages /\ PlacesAreOrdered
  BY <1>2 DEF FinitelyMuchIsHeld, EntriesArePages, PlacesAreOrdered
<1>5. BoundsCoverPages
  BY <1>1, <1>2 DEF BoundsCoverPages, AllBounds
<1>6. QED BY <1>3, <1>4, <1>5 DEF IndexInv

\* A page is held by as many values as it has, and its nulls.
LEMMA HeldIsNat ==
    ASSUME NEW k, NEW page \in Page(k), IsFiniteSet(page.values)
    PROVE  Held(page) \in Nat
<1>1. page.nulls \in Nat
  BY DEF Page
<1>2. Cardinality(page.values) \in Nat
  BY FS_CardinalityType
<1>3. QED BY <1>1, <1>2 DEF Held

\* The place of the next page is behind that of the last.
LEMMA LocationIs ==
    ASSUME NEW k, NEW held \in Seq(Page(k)), NEW locations \in Seq(Place), NEW n \in Nat,
           Len(held) = n, Len(locations) = n,
           \A i \in 1 .. n : Held(held[i]) \in Nat
    PROVE  /\ Location(held, locations) \in Place
           /\ n > 0 =>
                /\ Location(held, locations).offset
                     = locations[n].offset + locations[n].compressed_page_size
                /\ Location(held, locations).first_row_index
                     = locations[n].first_row_index + Held(held[n])
<1>1. CASE n = 0
  <2>1. locations = <<>>
    BY <1>1
  <2>2. Location(held, locations)
          = [offset |-> 4, compressed_page_size |-> 7, first_row_index |-> 0, raw |-> 9]
    BY <2>1 DEF Location
  <2>3. Location(held, locations) \in Place
    BY <2>2 DEF Place
  <2>4. QED BY <1>1, <2>3
<1>2. CASE n > 0
  <2>1. locations # <<>> /\ n \in 1 .. n
    BY <1>2
  <2> DEFINE last == locations[n]
             rows == Held(held[n])
  <2>2. Location(held, locations)
          = [offset |-> last.offset + last.compressed_page_size,
             compressed_page_size |-> last.compressed_page_size + 1,
             first_row_index |-> last.first_row_index + rows, raw |-> last.raw + 1]
    BY <2>1 DEF Location
  <2>3. last \in Place /\ rows \in Nat
    BY <2>1
  <2> HIDE DEF last, rows
  <2>4. /\ last.offset \in Nat /\ last.compressed_page_size \in Nat
        /\ last.first_row_index \in Nat /\ last.raw \in Nat
    BY <2>3 DEF Place
  <2>5. Location(held, locations) \in Place
    BY <2>2, <2>3, <2>4 DEF Place
  <2>6. /\ Location(held, locations).offset = last.offset + last.compressed_page_size
        /\ Location(held, locations).first_row_index = last.first_row_index + rows
    BY <2>2
  <2>7. QED BY <2>5, <2>6 DEF last, rows
<1>3. QED BY <1>1, <1>2

LEMMA IndexInvStep == IndexInv /\ [IndexNext]_indexVars => IndexInv'
<1> SUFFICES ASSUME IndexInv, [IndexNext]_indexVars PROVE IndexInv'
  OBVIOUS
<1>0. IndexTypes /\ FinitelyMuchIsHeld /\ EntriesArePages /\ BoundsCoverPages /\ PlacesAreOrdered
  BY DEF IndexInv
<1>1. CASE UNCHANGED indexVars
  BY <1>0, <1>1 DEF indexVars, IndexInv, IndexTypes, FinitelyMuchIsHeld, EntriesArePages,
                    BoundsCoverPages, PlacesAreOrdered
<1>2. ASSUME NEW S \in SUBSET IndexedValues[kind], NEW nulls \in 0 .. MaxNulls,
             AddPage(S, nulls)
      PROVE  IndexInv'
  <2> DEFINE page  == [values |-> S, nulls |-> nulls]
             entry == Entry(kind, S, nulls)
             place == Location(pages, offsets)
             n     == Len(pages)
  <2>1. /\ IsFiniteSet(S) /\ kind' = kind /\ pages' = Append(pages, page)
        /\ column' = Append(column, entry) /\ offsets' = Append(offsets, place)
        /\ chunkBounds' = Merged(kind, chunkBounds, Extremes(kind, S))
    BY <1>2 DEF AddPage
  <2>2. /\ kind \in Kinds /\ n \in Nat /\ Len(column) = n /\ Len(offsets) = n
        /\ pages \in Seq(Page(kind)) /\ column \in Seq(Entries(kind)) /\ offsets \in Seq(Place)
    BY <1>0 DEF IndexTypes
  <2>3. page \in Page(kind) /\ page.values = S /\ page.nulls = nulls
    BY DEF Page
  <2>4. entry \in Entries(kind)
    BY DEF Entries
  <2>5. \A i \in 1 .. n : Held(pages[i]) \in Nat
    <3>1. \A i \in 1 .. n : pages[i] \in Page(kind) /\ IsFiniteSet(pages[i].values)
      BY <1>0, <2>2 DEF FinitelyMuchIsHeld
    <3>2. QED BY <3>1, HeldIsNat
  <2>6. /\ place \in Place
        /\ n > 0 =>
             /\ place.offset = offsets[n].offset + offsets[n].compressed_page_size
             /\ place.first_row_index = offsets[n].first_row_index + Held(pages[n])
    <3> HIDE DEF n
    <3>1. QED BY <2>2, <2>5, LocationIs DEF n
  <2> HIDE DEF page, entry, place
  <2>7. /\ pages' \in Seq(Page(kind)) /\ Len(pages') = n + 1 /\ pages'[n + 1] = page
        /\ \A i \in 1 .. n : pages'[i] = pages[i]
    BY <2>1, <2>2, <2>3
  <2>8. /\ column' \in Seq(Entries(kind)) /\ Len(column') = n + 1 /\ column'[n + 1] = entry
        /\ \A i \in 1 .. n : column'[i] = column[i]
    BY <2>1, <2>2, <2>4
  <2>9. /\ offsets' \in Seq(Place) /\ Len(offsets') = n + 1 /\ offsets'[n + 1] = place
        /\ \A i \in 1 .. n : offsets'[i] = offsets[i]
    BY <2>1, <2>2, <2>6
  <2>10. IndexTypes'
    BY <2>1, <2>2, <2>7, <2>8, <2>9 DEF IndexTypes
  <2>11. \A i \in 1 .. n + 1 : i \in 1 .. n \/ i = n + 1
    BY <2>2
  <2>12. FinitelyMuchIsHeld'
    <3>1. \A i \in 1 .. n + 1 : IsFiniteSet(pages'[i].values)
      BY <1>0, <2>1, <2>3, <2>7, <2>11 DEF FinitelyMuchIsHeld
    <3>2. QED BY <2>7, <3>1 DEF FinitelyMuchIsHeld
  <2>13. EntriesArePages'
    <3>1. entry = Entry(kind', page.values, page.nulls)
      BY <2>1, <2>3 DEF entry
    <3>2. QED BY <1>0, <2>1, <2>7, <2>8, <2>11, <3>1 DEF EntriesArePages
  <2>14. PlacesAreOrdered'
    <3> SUFFICES ASSUME NEW i \in 1 .. n + 1, NEW j \in 1 .. i - 1
                 PROVE  /\ offsets'[j].offset + offsets'[j].compressed_page_size <= offsets'[i].offset
                        /\ offsets'[j].first_row_index + Held(pages'[j])
                             <= offsets'[i].first_row_index
      BY <2>7 DEF PlacesAreOrdered, Held
    <3>1. j \in 1 .. n /\ offsets'[j] = offsets[j] /\ pages'[j] = pages[j]
      <4>1. j \in 1 .. n
        BY <2>2
      <4>2. QED BY <2>7, <2>9, <4>1
    <3>2. CASE i \in 1 .. n
      <4>1. offsets'[i] = offsets[i]
        BY <2>9, <3>2
      <4>2. QED BY <1>0, <3>1, <3>2, <4>1 DEF PlacesAreOrdered
    <3>3. CASE i = n + 1
      <4>1. n > 0 /\ n \in 1 .. n /\ offsets'[i] = place
        BY <2>2, <2>9, <3>1, <3>3
      <4>2. /\ offsets[n] \in Place /\ offsets[j] \in Place
            /\ Held(pages[n]) \in Nat /\ Held(pages[j]) \in Nat
        BY <2>2, <2>5, <3>1, <4>1
      <4>3. /\ offsets[n].offset \in Nat /\ offsets[n].compressed_page_size \in Nat
            /\ offsets[n].first_row_index \in Nat
            /\ offsets[j].offset \in Nat /\ offsets[j].compressed_page_size \in Nat
            /\ offsets[j].first_row_index \in Nat
        BY <4>2 DEF Place
      <4>4. place.offset \in Nat /\ place.first_row_index \in Nat
        BY <2>6 DEF Place
      <4>5. CASE j = n
        BY <2>6, <3>1, <4>1, <4>2, <4>3, <4>5
      <4>6. CASE j # n
        <5>1. j \in 1 .. n - 1
          BY <2>2, <3>1, <4>6
        <5>2. /\ offsets[j].offset + offsets[j].compressed_page_size <= offsets[n].offset
              /\ offsets[j].first_row_index + Held(pages[j]) <= offsets[n].first_row_index
          BY <1>0, <4>1, <5>1 DEF PlacesAreOrdered
        <5>3. PICK a \in Nat, b \in Nat, c \in Nat, d \in Nat, e \in Nat :
                  /\ a = offsets[j].offset /\ b = offsets[j].compressed_page_size
                  /\ c = offsets[n].offset /\ d = offsets[n].compressed_page_size /\ e = place.offset
          BY <4>3, <4>4
        <5>4. a + b <= c /\ e = c + d
          BY <2>6, <4>1, <5>2, <5>3
        <5>5. a + b <= e
          BY <5>4
        <5>6. PICK f \in Nat, g \in Nat, h \in Nat, k \in Nat, l \in Nat :
                  /\ f = offsets[j].first_row_index /\ g = Held(pages[j])
                  /\ h = offsets[n].first_row_index /\ k = Held(pages[n])
                  /\ l = place.first_row_index
          BY <4>2, <4>3, <4>4
        <5>7. f + g <= h /\ l = h + k
          BY <2>6, <4>1, <5>2, <5>6
        <5>8. f + g <= l
          BY <5>7
        <5>9. QED BY <3>1, <4>1, <5>3, <5>5, <5>6, <5>8
      <4>7. QED BY <4>5, <4>6
    <3>4. QED BY <2>11, <3>2, <3>3
  <2>15. BoundsCoverPages'
    <3>1. S \subseteq Sort(kind) /\ chunkBounds \in AllBounds(kind)
      BY <1>0, <2>2, SortOfIndexed DEF BoundsCoverPages
    <3>2. /\ chunkBounds' \in AllBounds(kind)
          /\ \A v \in Sort(kind) : Covers(kind, chunkBounds, v) => Covers(kind, chunkBounds', v)
          /\ AreThere(Extremes(kind, S)) => \A v \in S : Covers(kind, chunkBounds', v)
      BY <2>1, <2>2, <3>1, MergedCovers
    <3>3. ASSUME NEW i \in 1 .. n + 1, AreThere(column'[i]), NEW v \in pages'[i].values
          PROVE  Covers(kind, chunkBounds', v)
      <4>1. CASE i \in 1 .. n
        <5>1. pages'[i] = pages[i] /\ column'[i] = column[i] /\ pages[i] \in Page(kind)
          BY <2>2, <2>7, <2>8, <4>1
        <5>2. v \in Sort(kind)
          BY <2>2, <3>3, <5>1, SortOfIndexed DEF Page
        <5>3. QED BY <1>0, <3>2, <3>3, <4>1, <5>1, <5>2 DEF BoundsCoverPages
      <4>2. CASE i = n + 1
        <5>1. v \in S /\ AreThere(entry)
          BY <2>3, <2>7, <2>8, <3>3, <4>2
        <5>2. entry.min = Extremes(kind, S).min /\ entry.max = Extremes(kind, S).max
          BY DEF entry, Entry
        <5>3. AreThere(Extremes(kind, S))
          BY <5>1, <5>2 DEF AreThere
        <5>4. QED BY <3>2, <5>1, <5>3
      <4>3. QED BY <2>11, <4>1, <4>2
    <3>4. QED BY <2>1, <2>7, <3>2, <3>3 DEF BoundsCoverPages
  <2>16. QED BY <2>10, <2>12, <2>13, <2>14, <2>15 DEF IndexInv
<1>3. QED BY <1>1, <1>2 DEF IndexNext

\* A page that has a value between the ends asked for is not passed over, unless
\* the values are floats.
LEMMA PageMightHold ==
    ASSUME NEW k \in Kinds, k # "floats", NEW S, IsFiniteSet(S), S \subseteq Sort(k), NEW nulls,
           NEW v \in S, NEW lows \in SUBSET Sort(k), NEW highs \in SUBSET Sort(k),
           IsRangeOf(k, v, lows, highs)
    PROVE  MightHold(k, Entry(k, S, nulls), lows, highs)
<1> DEFINE e == Entry(k, S, nulls)
<1>1. e.null_page = FALSE /\ e.min = Extremes(k, S).min /\ e.max = Extremes(k, S).max
  BY DEF Entry
<1>2. e.min \in S /\ e.max \in S /\ ~Before(k, v, e.min) /\ ~Before(k, e.max, v)
  BY <1>1, ExtremesAre
<1> HIDE DEF e
<1>3. e.min \in Sort(k) /\ e.max \in Sort(k) /\ v \in Sort(k)
  BY <1>2
<1>4. ASSUME NEW high \in highs PROVE ~IndexBefore(k, high, e.min)
  <2>1. high \in Sort(k) /\ ~Before(k, high, v)
    BY DEF IsRangeOf
  <2>2. ~Before(k, high, e.min)
    BY <1>2, <1>3, <2>1, Ordered
  <2>3. QED BY <2>2 DEF IndexBefore
<1>5. ASSUME NEW low \in lows PROVE ~IndexBefore(k, e.max, low)
  <2>1. low \in Sort(k) /\ ~Before(k, v, low)
    BY DEF IsRangeOf
  <2>2. ~Before(k, e.max, low)
    BY <1>2, <1>3, <2>1, Ordered
  <2>3. QED BY <2>2 DEF IndexBefore
<1>6. MightHold(k, e, lows, highs)
  BY <1>1, <1>4, <1>5 DEF MightHold
<1>7. QED BY <1>6 DEF e

LEMMA IndexInvFinds == IndexInv => IndexFindsPages
<1> SUFFICES ASSUME IndexInv PROVE IndexFindsPages
  OBVIOUS
<1>1. IndexTypes /\ FinitelyMuchIsHeld /\ EntriesArePages /\ BoundsCoverPages /\ PlacesAreOrdered
  BY DEF IndexInv
<1>2. /\ kind \in Kinds /\ DOMAIN pages = 1 .. Len(pages)
      /\ \A i \in 1 .. Len(pages) : pages[i] \in Page(kind)
  BY <1>1 DEF IndexTypes
<1>3. IndexedValues[kind] \subseteq Sort(kind)
  BY <1>2, SortOfIndexed
<1>4. \A i \in 1 .. Len(pages) : pages[i].values \subseteq Sort(kind) /\ IsFiniteSet(pages[i].values)
  BY <1>1, <1>2, <1>3 DEF Page, FinitelyMuchIsHeld
<1>5. ASSUME kind # "floats", NEW i \in DOMAIN pages, NEW v \in pages[i].values,
             NEW lows \in Ends(kind), NEW highs \in Ends(kind), IsRangeOf(kind, v, lows, highs)
      PROVE  MightHold(kind, column[i], lows, highs)
  <2>1. i \in 1 .. Len(pages) /\ lows \in SUBSET Sort(kind) /\ highs \in SUBSET Sort(kind)
    BY <1>2, <1>3 DEF Ends
  <2>2. MightHold(kind, Entry(kind, pages[i].values, pages[i].nulls), lows, highs)
    BY <1>2, <1>4, <1>5, <2>1, PageMightHold
  <2>3. QED BY <1>1, <2>1, <2>2 DEF EntriesArePages
<1>6. ASSUME NEW i \in DOMAIN pages, AreThere(column[i]), NEW v \in pages[i].values
      PROVE  Within(kind, FooterBounds(kind, chunkBounds), v)
  <2>1. i \in 1 .. Len(pages) /\ v \in Sort(kind) /\ chunkBounds \in AllBounds(kind)
    BY <1>1, <1>2, <1>4 DEF BoundsCoverPages
  <2>2. Covers(kind, chunkBounds, v)
    BY <1>1, <1>6, <2>1 DEF BoundsCoverPages
  <2>3. QED BY <1>2, <2>1, <2>2, BoundsWithin
<1>7. kind # "floats" => AllPagesAreFound
  BY <1>5 DEF AllPagesAreFound, PageIsFound
<1>8. QED BY <1>1, <1>2, <1>6, <1>7 DEF IndexFindsPages, PlacesAreOrdered

\* IndexFindsPages of every chunk that the writer indexes page by page, however
\* many pages it has, however long bounds may be, whatever the widths and values:
\* of columns of integers and of byte arrays carquet_column_index_page_might_match
\* finds all pages with a value in the range asked for (of floats it does not, see
\* AllPagesAreFound); the bounds that merge_page_statistics keeps and
\* build_file_metadata shortens hold all values of the pages that were merged,
\* which those with an empty byte array are not; and no two pages share a byte or
\* a row in the offset index.
THEOREM PagesAreFound == IndexSpec => []IndexFindsPages
<1>1. IndexInit => IndexInv
  BY IndexInvInit
<1>2. IndexInv /\ [IndexNext]_indexVars => IndexInv'
  BY IndexInvStep
<1>3. IndexInv => IndexFindsPages
  BY IndexInvFinds
<1>4. QED BY <1>1, <1>2, <1>3, PTL DEF IndexSpec

-------------------------------------------------------------------------------
(* Bloom filters.                                                          *)

\* Every bit that can be set.
AllBits == UNION {BitsOf(hash, bytes) : hash \in Hashes, bytes \in Int}

Types ==
    /\ filter \in [Filters -> [bytes : Int, bits : SUBSET AllBits]]
    /\ values \in [Filters -> SUBSET Hashes]
    /\ file \in [numBytes : Int, bytes : Int, bits : SUBSET AllBits]
    /\ stored \in SUBSET Hashes

\* What is in the file is whole, or shorter than its header says; and if it is
\* whole it has the bits of every value stored.
FileIsHonest ==
    /\ file.bytes <= file.numBytes
    /\ file.bytes = file.numBytes => \A hash \in stored : BitsOf(hash, file.numBytes) \subseteq file.bits

\* NoFalseNegatives alone is not inductive: a filter may come from the file.
BloomInv == Types /\ FileIsHonest /\ NoFalseNegatives

LEMMA SelectedBits == \A hash \in Hashes, bytes \in Int : BitsOf(hash, bytes) \subseteq AllBits
  BY DEF AllBits

LEMMA RoundedIsInt == \A bytes \in 0 .. MaxBytes : Rounded(bytes) \in Int
  BY BloomAssumption DEF Rounded

\* It holds of the first state, where nothing is in any filter.
LEMMA BloomInvInit == BloomInit => BloomInv
  BY DEF BloomInit, BloomInv, Types, FileIsHonest, NoFalseNegatives, NoFilter, NoFile

\* Every call keeps it.
LEMMA BloomInvStep == BloomInv /\ [BloomNext]_bloomVars => BloomInv'
<1> SUFFICES ASSUME BloomInv, [BloomNext]_bloomVars PROVE BloomInv'
  OBVIOUS
<1> USE DEF BloomInv
<1>1. CASE UNCHANGED bloomVars
  BY <1>1 DEF bloomVars, Types, FileIsHonest, NoFalseNegatives, Check
<1>2. ASSUME NEW f \in Filters, Create(f) PROVE BloomInv'
  <2>1. PICK n \in 0 .. MaxBytes :
           filter' = [filter EXCEPT ![f] = [bytes |-> Rounded(n), bits |-> {}]]
    BY <1>2 DEF Create
  <2>2. Types'
    BY <1>2, <2>1, RoundedIsInt DEF Create, Types
  <2>3. FileIsHonest'
    BY <1>2 DEF Create, FileIsHonest
  <2>4. NoFalseNegatives'
    BY <1>2, <2>1 DEF Create, NoFalseNegatives, Check, Types
  <2> QED BY <2>2, <2>3, <2>4
<1>3. ASSUME NEW f \in Filters, NEW hash \in Hashes, Insert(f, hash) PROVE BloomInv'
  <2>1. BitsOf(hash, filter[f].bytes) \subseteq AllBits
    BY SelectedBits DEF Types
  <2>2. Types'
    BY <1>3, <2>1 DEF Insert, Types
  <2>3. FileIsHonest'
    BY <1>3 DEF Insert, FileIsHonest
  <2>4. ASSUME NEW g \in Filters, NEW h \in values'[g] PROVE Check(filter'[g], h)
    <3>1. filter'[g].bytes = filter[g].bytes /\ filter[g].bits \subseteq filter'[g].bits
      BY <1>3 DEF Insert, Types
    <3>2. CASE h \in values[g]
      BY <3>1, <3>2 DEF NoFalseNegatives, Check
    <3>3. CASE h \notin values[g]
      <4>1. g = f /\ h = hash
        BY <1>3, <2>4, <3>3 DEF Insert, Types
      <4>2. BitsOf(hash, filter[f].bytes) \subseteq filter'[f].bits
        BY <1>3 DEF Insert, Types
      <4> QED BY <3>1, <4>1, <4>2 DEF Check
    <3> QED BY <3>2, <3>3
  <2>5. NoFalseNegatives'
    BY <2>4 DEF NoFalseNegatives, Check
  <2> QED BY <2>2, <2>3, <2>5
<1>4. ASSUME NEW f \in Filters, NEW g \in Filters, Merge(f, g) PROVE BloomInv'
  <2>1. Types'
    BY <1>4 DEF Merge, Types
  <2>2. FileIsHonest'
    BY <1>4 DEF Merge, FileIsHonest
  <2>3. ASSUME NEW x \in Filters, NEW h \in values'[x] PROVE Check(filter'[x], h)
    <3>1. filter'[x].bytes = filter[x].bytes /\ filter[x].bits \subseteq filter'[x].bits
      BY <1>4 DEF Merge, Types
    <3>2. CASE h \in values[x]
      BY <3>1, <3>2 DEF NoFalseNegatives, Check
    <3>3. CASE h \notin values[x]
      <4>1. x = f /\ h \in values[g]
        BY <1>4, <2>3, <3>3 DEF Merge, Types
      <4>2. BitsOf(h, filter[g].bytes) \subseteq filter[g].bits
        BY <4>1 DEF NoFalseNegatives, Check
      <4>3. filter[g].bits \subseteq filter'[f].bits /\ filter[g].bytes = filter[f].bytes
        BY <1>4 DEF Merge, Types
      <4> QED BY <3>1, <4>1, <4>2, <4>3 DEF Check
    <3> QED BY <3>2, <3>3
  <2>4. NoFalseNegatives'
    BY <2>3 DEF NoFalseNegatives, Check
  <2> QED BY <2>1, <2>2, <2>4
<1>5. ASSUME NEW f \in Filters, Write(f) PROVE BloomInv'
  <2>1. Types'
    BY <1>5 DEF Write, Types
  <2>2. FileIsHonest'
    BY <1>5 DEF Write, FileIsHonest, NoFalseNegatives, Check, Types
  <2>3. NoFalseNegatives'
    BY <1>5 DEF Write, NoFalseNegatives, Check
  <2> QED BY <2>1, <2>2, <2>3
<1>6. ASSUME CutFile PROVE BloomInv'
  <2>1. PICK n \in 0 .. file.bytes - 1 :
           file' = [file EXCEPT !.bytes = n,
                                !.bits = {b \in @ : (b.block + 1) * BlockBytes <= n}]
    BY <1>6 DEF CutFile
  <2>2. file.bytes \in Int /\ file.numBytes \in Int /\ file.bits \subseteq AllBits
    BY DEF Types
  <2>3. /\ file' \in [numBytes : Int, bytes : Int, bits : SUBSET AllBits]
        /\ file'.bytes = n /\ file'.numBytes = file.numBytes
    <3> DEFINE left == {b \in file.bits : (b.block + 1) * BlockBytes <= n}
    <3>1. left \subseteq AllBits
      BY <2>2
    <3>2. file' = [file EXCEPT !.bytes = n, !.bits = left]
      BY <2>1
    <3>3. n \in Int
      BY <2>2
    <3> HIDE DEF left
    <3> QED BY <3>1, <3>2, <3>3 DEF Types
  <2>4. Types'
    BY <1>6, <2>3 DEF CutFile, Types
  <2>5. file'.bytes < file'.numBytes
    BY <2>2, <2>3 DEF FileIsHonest
  <2>6. FileIsHonest'
    BY <2>4, <2>5 DEF FileIsHonest, Types
  <2>7. NoFalseNegatives'
    BY <1>6 DEF CutFile, NoFalseNegatives, Check
  <2> QED BY <2>4, <2>6, <2>7
<1>7. ASSUME NEW f \in Filters, ReadFilter(f) PROVE BloomInv'
  <2>1. file.bytes = file.numBytes
    <3>1. file.bytes \in Int /\ file.numBytes \in Int
      BY DEF Types
    <3> QED BY <1>7, <3>1 DEF ReadFilter, FileIsHonest
  <2>2. Types'
    BY <1>7 DEF ReadFilter, Types
  <2>3. FileIsHonest'
    BY <1>7 DEF ReadFilter, FileIsHonest
  <2>4. NoFalseNegatives'
    BY <1>7, <2>1 DEF ReadFilter, FileIsHonest, NoFalseNegatives, Check, Types
  <2> QED BY <2>2, <2>3, <2>4
<1>8. ASSUME NEW f \in Filters, Destroy(f) PROVE BloomInv'
  <2>1. Types'
    BY <1>8 DEF Destroy, Types, NoFilter
  <2>2. FileIsHonest'
    BY <1>8 DEF Destroy, FileIsHonest
  <2>3. NoFalseNegatives'
    BY <1>8 DEF Destroy, NoFalseNegatives, Check, Types, NoFilter
  <2> QED BY <2>1, <2>2, <2>3
<1> QED
  BY <1>1, <1>2, <1>3, <1>4, <1>5, <1>6, <1>7, <1>8 DEF BloomNext

\* carquet_bloom_filter_check_hash never denies a value that was inserted, came
\* in by a merge, or was stored in the file and read back.
THEOREM NeverDenies == BloomSpec => []NoFalseNegatives
<1>1. BloomInv => NoFalseNegatives
  BY DEF BloomInv
<1> QED BY BloomInvInit, BloomInvStep, <1>1, PTL DEF BloomSpec
===============================================================================
