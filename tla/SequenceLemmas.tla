---------------------------- MODULE SequenceLemmas ----------------------------
(***************************************************************************)
(* What the community operators FlattenSeq and FoldSeq give, as the proofs *)
(* of this project need it.                                                *)
(***************************************************************************)
EXTENDS Integers, Sequences, FiniteSets, SequencesExt, SequenceTheorems,
        FiniteSetTheorems, WellFoundedInduction, TLAPS

-------------------------------------------------------------------------------
(* Induction over the naturals, about a set of numbers.                    *)

LEMMA LeastNatural ==
    ASSUME NEW T, T \subseteq Nat, T # {}
    PROVE  \E m \in T : \A n \in T : m <= n
<1>1. IsWellFoundedOn({p \in Nat \X Nat : p[1] < p[2]}, Nat)
  BY NatLessThanWellFounded DEF OpToRel
<1>2. PICK m \in T : \A n \in T : <<n, m>> \notin {p \in Nat \X Nat : p[1] < p[2]}
  BY <1>1, WFMin
<1>3. ASSUME NEW n \in T PROVE m <= n
  <2>1. n \in Nat /\ m \in Nat
    OBVIOUS
  <2>2. ~(n < m)
    BY <1>2, <2>1
  <2>3. QED BY <2>1, <2>2
<1>4. QED BY <1>3

LEMMA Induction ==
    ASSUME NEW T, 0 \in T, \A n \in Nat : n \in T => n + 1 \in T
    PROVE  Nat \subseteq T
<1> SUFFICES ASSUME Nat \ T # {} PROVE FALSE
  OBVIOUS
<1>1. PICK m \in Nat \ T : \A n \in Nat \ T : m <= n
  BY LeastNatural
<1>2. m # 0 /\ m - 1 \in Nat
  BY <1>1
<1>3. m - 1 \in T
  BY <1>1, <1>2
<1>4. QED BY <1>1, <1>2, <1>3

-------------------------------------------------------------------------------
(* FlattenSeq.                                                             *)

\* What FlattenSeq computes on the way: the first i sequences in a row.
Flattening(seqs, n) ==
    CHOOSE f : f = [i \in 1 .. n |-> IF i = 1 THEN seqs[i] ELSE f[i - 1] \o seqs[i]]

IsFlattening(seqs, n, f) ==
    f = [i \in 1 .. n |-> IF i = 1 THEN seqs[i] ELSE f[i - 1] \o seqs[i]]

LEMMA FlatteningExists ==
    ASSUME NEW seqs, NEW n \in Nat
    PROVE  IsFlattening(seqs, n, Flattening(seqs, n))
<1> DEFINE T == {m \in Nat : \E f : IsFlattening(seqs, m, f)}
<1>1. 0 \in T
  <2>1. IsFlattening(seqs, 0, [i \in 1 .. 0 |-> <<>>])
    BY DEF IsFlattening
  <2>2. QED BY <2>1
<1>2. ASSUME NEW m \in Nat, m \in T PROVE m + 1 \in T
  <2>1. PICK f : IsFlattening(seqs, m, f)
    BY <1>2
  <2> DEFINE g == [i \in 1 .. m + 1 |->
                      IF i = 1 THEN seqs[i] ELSE f[i - 1] \o seqs[i]]
  <2>2. ASSUME NEW i \in 1 .. m PROVE f[i] = g[i]
    <3>1. f[i] = IF i = 1 THEN seqs[i] ELSE f[i - 1] \o seqs[i]
      BY <2>1 DEF IsFlattening
    <3>2. i \in 1 .. m + 1
      OBVIOUS
    <3>3. QED BY <3>1, <3>2
  <2>3. ASSUME NEW i \in 1 .. m + 1
        PROVE  g[i] = IF i = 1 THEN seqs[i] ELSE g[i - 1] \o seqs[i]
    <3>1. i # 1 => i - 1 \in 1 .. m
      OBVIOUS
    <3>2. QED BY <2>2, <3>1
  <2>4. IsFlattening(seqs, m + 1, g)
    BY <2>3 DEF IsFlattening
  <2>5. QED BY <2>4
<1> HIDE DEF T
<1>3. n \in T
  BY <1>1, <1>2, Induction
<1>4. \E f : IsFlattening(seqs, n, f)
  BY <1>3 DEF T
<1>5. QED BY <1>4 DEF IsFlattening, Flattening

\* The values of a flattening, one after the other.
LEMMA FlatteningValues ==
    ASSUME NEW seqs, NEW n \in Nat, NEW i \in 1 .. n
    PROVE  Flattening(seqs, n)[i]
             = IF i = 1 THEN seqs[i] ELSE Flattening(seqs, n)[i - 1] \o seqs[i]
<1> DEFINE f == Flattening(seqs, n)
<1>1. f = [j \in 1 .. n |-> IF j = 1 THEN seqs[j] ELSE f[j - 1] \o seqs[j]]
  BY FlatteningExists DEF IsFlattening
<1> HIDE DEF f
<1>2. f[i] = IF i = 1 THEN seqs[i] ELSE f[i - 1] \o seqs[i]
  BY <1>1
<1>3. QED BY <1>2 DEF f

LEMMA FlattenSeqIs ==
    ASSUME NEW seqs, Len(seqs) \in Nat
    PROVE  FlattenSeq(seqs) = IF Len(seqs) = 0 THEN seqs
                              ELSE Flattening(seqs, Len(seqs))[Len(seqs)]
BY DEF FlattenSeq, Flattening

Agree(f, g, k) == \A i \in 1 .. k : f[i] = g[i]

\* Two flattenings agree as far as their sequences do.
LEMMA FlatteningsAgree ==
    ASSUME NEW s, NEW t, NEW m \in Nat, NEW n \in Nat, NEW k \in Nat,
           k <= m, k <= n, Agree(s, t, k)
    PROVE  Agree(Flattening(s, m), Flattening(t, n), k)
<1> USE DEF Agree
<1> DEFINE T == {j \in Nat : j \in 1 .. k => Flattening(s, m)[j] = Flattening(t, n)[j]}
<1>1. 0 \in T
  OBVIOUS
<1>2. ASSUME NEW j \in Nat, j \in T PROVE j + 1 \in T
  <2> SUFFICES ASSUME j + 1 \in 1 .. k
               PROVE  Flattening(s, m)[j + 1] = Flattening(t, n)[j + 1]
    OBVIOUS
  <2>1. PICK i \in 1 .. k : i = j + 1
    OBVIOUS
  <2>2. i \in 1 .. m /\ i \in 1 .. n /\ i - 1 = j
    BY <2>1
  <2>3. /\ Flattening(s, m)[i] = IF i = 1 THEN s[i] ELSE Flattening(s, m)[i - 1] \o s[i]
        /\ Flattening(t, n)[i] = IF i = 1 THEN t[i] ELSE Flattening(t, n)[i - 1] \o t[i]
    BY <2>2, FlatteningValues, Zenon
  <2>4. i # 1 => Flattening(s, m)[i - 1] = Flattening(t, n)[i - 1]
    BY <1>2, <2>1, <2>2
  <2>5. QED BY <2>1, <2>3, <2>4
<1> HIDE DEF T
<1>3. Nat \subseteq T
  BY <1>1, <1>2, Induction
<1>4. QED BY <1>3 DEF T

LEMMA FlatteningType ==
    ASSUME NEW A, NEW s \in Seq(Seq(A)), NEW i \in 1 .. Len(s)
    PROVE  Flattening(s, Len(s))[i] \in Seq(A)
<1> DEFINE T == {j \in Nat : j \in 1 .. Len(s) => Flattening(s, Len(s))[j] \in Seq(A)}
<1>1. 0 \in T
  OBVIOUS
<1>2. ASSUME NEW j \in Nat, j \in T PROVE j + 1 \in T
  <2> SUFFICES ASSUME j + 1 \in 1 .. Len(s)
               PROVE  Flattening(s, Len(s))[j + 1] \in Seq(A)
    OBVIOUS
  <2>1. (j + 1) - 1 = j /\ Len(s) \in Nat
    OBVIOUS
  <2>2. Flattening(s, Len(s))[j + 1]
          = IF j + 1 = 1 THEN s[j + 1] ELSE Flattening(s, Len(s))[j] \o s[j + 1]
    <3>1. Flattening(s, Len(s))[j + 1]
            = IF j + 1 = 1 THEN s[j + 1] ELSE Flattening(s, Len(s))[(j + 1) - 1] \o s[j + 1]
      BY <2>1, FlatteningValues
    <3>2. QED BY <2>1, <3>1
  <2>3. j + 1 # 1 => Flattening(s, Len(s))[j] \in Seq(A)
    BY <1>2
  <2>4. s[j + 1] \in Seq(A)
    OBVIOUS
  <2>5. QED BY <2>2, <2>3, <2>4, ConcatProperties
<1> HIDE DEF T
<1>3. Nat \subseteq T
  BY <1>1, <1>2, Induction
<1>4. QED BY <1>3 DEF T

LEMMA FlattenEmpty == FlattenSeq(<<>>) = <<>>
BY DEF FlattenSeq

LEMMA FlattenType ==
    ASSUME NEW A, NEW s \in Seq(Seq(A))
    PROVE  FlattenSeq(s) \in Seq(A)
<1>1. CASE Len(s) = 0
  <2>1. s = <<>>
    BY <1>1
  <2>2. <<>> \in Seq(A)
    OBVIOUS
  <2>3. QED BY <2>1, <2>2, FlattenEmpty
<1>2. CASE Len(s) # 0
  <2>1. Len(s) \in 1 .. Len(s)
    BY <1>2
  <2>2. QED BY <1>2, <2>1, FlatteningType, FlattenSeqIs
<1>3. QED BY <1>1, <1>2

LEMMA FlattenAppend ==
    ASSUME NEW A, NEW s \in Seq(Seq(A)), NEW e \in Seq(A)
    PROVE  FlattenSeq(Append(s, e)) = FlattenSeq(s) \o e
<1> DEFINE t == Append(s, e)
           n == Len(s)
<1>1. /\ n \in Nat /\ Len(t) = n + 1 /\ t[n + 1] = e
      /\ \A i \in 1 .. n : s[i] = t[i]
  OBVIOUS
<1> HIDE DEF t, n
<1>2. FlattenSeq(t) = Flattening(t, n + 1)[n + 1]
  BY <1>1, FlattenSeqIs
<1>3. n + 1 \in 1 .. n + 1 /\ n + 1 \in Nat /\ (n + 1) - 1 = n
  BY <1>1
<1>4. Flattening(t, n + 1)[n + 1]
        = IF n + 1 = 1 THEN t[n + 1] ELSE Flattening(t, n + 1)[n] \o t[n + 1]
  <2>1. Flattening(t, n + 1)[n + 1]
          = IF n + 1 = 1 THEN t[n + 1] ELSE Flattening(t, n + 1)[(n + 1) - 1] \o t[n + 1]
    BY <1>3, FlatteningValues
  <2>2. QED BY <1>3, <2>1
<1>5. CASE n = 0
  <2>1. FlattenSeq(t) = e
    BY <1>1, <1>2, <1>4, <1>5
  <2>2. s = <<>>
    BY <1>5 DEF n
  <2>3. QED BY <2>1, <2>2, FlattenEmpty, ConcatEmptySeq DEF t
<1>6. CASE n # 0
  <2>1. n \in 1 .. n /\ n <= n /\ n <= n + 1 /\ n + 1 # 1
    BY <1>1, <1>6
  <2>2. Agree(s, t, n)
    BY <1>1 DEF Agree
  <2>3. Agree(Flattening(s, n), Flattening(t, n + 1), n)
    BY <1>1, <1>3, <2>1, <2>2, FlatteningsAgree
  <2>4. FlattenSeq(s) = Flattening(s, n)[n]
    BY <1>1, <1>6, FlattenSeqIs DEF n
  <2>5. QED BY <1>1, <1>2, <1>4, <2>1, <2>3, <2>4 DEF t, Agree
<1>7. QED BY <1>5, <1>6

\* The first c sequences in a row.
UpTo(s, c) == FlattenSeq(SubSeq(s, 1, c))

LEMMA FlattenUpTo ==
    ASSUME NEW A, NEW s \in Seq(Seq(A))
    PROVE  /\ UpTo(s, 0) = <<>>
           /\ UpTo(s, Len(s)) = FlattenSeq(s)
           /\ \A c \in 0 .. Len(s) : UpTo(s, c) \in Seq(A)
           /\ \A c \in 1 .. Len(s) : UpTo(s, c) = UpTo(s, c - 1) \o s[c]
<1>1. UpTo(s, 0) = <<>>
  <2>1. SubSeq(s, 1, 0) = <<>>
    BY SubSeqEmpty
  <2>2. QED BY <2>1, FlattenEmpty DEF UpTo
<1>2. UpTo(s, Len(s)) = FlattenSeq(s)
  BY SubSeqFull, Zenon DEF UpTo
<1>3. ASSUME NEW c \in 0 .. Len(s) PROVE SubSeq(s, 1, c) \in Seq(Seq(A))
  BY SubSeqProperties
<1>4. \A c \in 0 .. Len(s) : UpTo(s, c) \in Seq(A)
  BY <1>3, FlattenType DEF UpTo
<1>5. ASSUME NEW c \in 1 .. Len(s) PROVE UpTo(s, c) = UpTo(s, c - 1) \o s[c]
  <2>1. c - 1 \in 0 .. Len(s) /\ s[c] \in Seq(A) /\ 1 \in 1 .. Len(s) /\ c \in 1 .. Len(s)
    OBVIOUS
  <2>2. SubSeq(s, 1, c) = SubSeq(s, 1, c - 1) \o <<s[c]>>
    BY <2>1, SubSeqRecursiveSecond
  <2>3. SubSeq(s, 1, c) = Append(SubSeq(s, 1, c - 1), s[c])
    BY <1>3, <2>1, <2>2, AppendIsConcat
  <2>4. QED BY <1>3, <2>1, <2>3, FlattenAppend DEF UpTo
<1>6. QED BY <1>1, <1>2, <1>4, <1>5

-------------------------------------------------------------------------------
(* Sequences cell by cell.                                                 *)

\* The cells of x are the cells of u, then the cells of v.
IsConcat(x, u, v) ==
    /\ Len(x) = Len(u) + Len(v)
    /\ \A i \in 1 .. Len(u) : x[i] = u[i]
    /\ \A i \in 1 .. Len(v) : x[Len(u) + i] = v[i]

LEMMA ConcatParts ==
    ASSUME NEW A, NEW u \in Seq(A), NEW v \in Seq(A)
    PROVE  u \o v \in Seq(A) /\ IsConcat(u \o v, u, v)
<1> DEFINE x == u \o v
<1>1. /\ x \in Seq(A) /\ Len(x) = Len(u) + Len(v)
      /\ \A i \in 1 .. Len(u) + Len(v) : x[i] = IF i <= Len(u) THEN u[i] ELSE v[i - Len(u)]
  BY ConcatProperties
<1>2. Len(u) \in Nat /\ Len(v) \in Nat
  OBVIOUS
<1> HIDE DEF x
<1>3. \A i \in 1 .. Len(u) : x[i] = u[i]
  BY <1>1, <1>2
<1>4. ASSUME NEW i \in 1 .. Len(v) PROVE x[Len(u) + i] = v[i]
  <2>1. PICK k \in 1 .. Len(u) + Len(v) : k = Len(u) + i /\ ~(k <= Len(u)) /\ k - Len(u) = i
    BY <1>2
  <2>2. QED BY <1>1, <2>1
<1>5. QED BY <1>1, <1>3, <1>4 DEF x, IsConcat

\* The cells of y are the n cells of x behind the first at.
IsSlice(y, x, at, n) == Len(y) = n /\ \A i \in 1 .. n : y[i] = x[at + i]

LEMMA SliceParts ==
    ASSUME NEW A, NEW x \in Seq(A), NEW at \in Nat, NEW n \in Nat, at + n <= Len(x)
    PROVE  /\ SubSeq(x, at + 1, at + n) \in Seq(A)
           /\ IsSlice(SubSeq(x, at + 1, at + n), x, at, n)
<1>1. Len(x) \in Nat
  OBVIOUS
<1>2. PICK a \in Int, b \in Int : a = at + 1 /\ b = at + n
  OBVIOUS
<1>3. \A i \in a .. b : x[i] \in A
  BY <1>1, <1>2
<1>4. /\ SubSeq(x, a, b) \in Seq(A)
      /\ Len(SubSeq(x, a, b)) = IF a <= b THEN b - a + 1 ELSE 0
      /\ \A i \in 1 .. b - a + 1 : SubSeq(x, a, b)[i] = x[a + i - 1]
  BY <1>3, SubSeqProperties
<1>5. (IF a <= b THEN b - a + 1 ELSE 0) = n /\ b - a + 1 = n
  BY <1>2
<1>6. \A i \in 1 .. n : a + i - 1 = at + i
  BY <1>2
<1> DEFINE y == SubSeq(x, a, b)
<1>7. SubSeq(x, at + 1, at + n) = y
  BY <1>2
<1>8. y \in Seq(A) /\ Len(y) = n /\ \A i \in 1 .. n : y[i] = x[at + i]
  <2> HIDE DEF y
  <2>1. QED BY <1>4, <1>5, <1>6 DEF y
<1> HIDE DEF y
<1>9. QED BY <1>7, <1>8 DEF IsSlice

-------------------------------------------------------------------------------
(* Windows of sequences.                                                   *)

LEMMA Window ==
    ASSUME NEW A, NEW u \in Seq(A), NEW v \in Seq(A)
    PROVE  SubSeq(u \o v, Len(u) + 1, Len(u) + Len(v)) = v
<1> DEFINE x == u \o v
<1>1. /\ x \in Seq(A) /\ Len(x) = Len(u) + Len(v)
      /\ \A i \in 1 .. Len(u) + Len(v) : x[i] = IF i <= Len(u) THEN u[i] ELSE v[i - Len(u)]
  BY ConcatProperties
<1> HIDE DEF x
<1> DEFINE m == Len(u) + 1
           n == Len(u) + Len(v)
           y == SubSeq(x, m, n)
<1>2. m \in Int /\ n \in Int /\ n - m + 1 = Len(v) /\ Len(v) \in Nat /\ Len(u) \in Nat
  OBVIOUS
<1>3. \A i \in m .. n : i \in 1 .. Len(x) /\ x[i] \in A
  BY <1>1, <1>2, ElementOfSeq
<1>4. /\ y \in Seq(A) /\ Len(y) = IF m <= n THEN n - m + 1 ELSE 0
      /\ \A i \in 1 .. n - m + 1 : y[i] = x[m + i - 1]
  <2> HIDE DEF m, n
  <2>1. QED BY <1>2, <1>3, SubSeqProperties
<1>5. Len(y) = Len(v)
  BY <1>2, <1>4
<1>6. ASSUME NEW i \in 1 .. Len(v) PROVE y[i] = v[i]
  <2>1. m + i - 1 = Len(u) + i /\ Len(u) + i \in 1 .. Len(u) + Len(v) /\ ~(Len(u) + i <= Len(u))
    BY <1>2
  <2>2. Len(u) + i - Len(u) = i
    BY <1>2
  <2>3. y[i] = x[Len(u) + i]
    BY <1>2, <1>4, <2>1
  <2>4. QED BY <1>1, <2>1, <2>2, <2>3
<1> HIDE DEF y
<1>7. y = v
  BY <1>4, <1>5, <1>6, SeqEqual
<1>8. QED BY <1>7 DEF y, x, m, n

LEMMA WindowKept ==
    ASSUME NEW A, NEW u \in Seq(A), NEW v \in Seq(A), NEW m \in Nat, NEW n \in Nat,
           m + n <= Len(u)
    PROVE  /\ SubSeq(u \o v, m + 1, m + n) = SubSeq(u, m + 1, m + n)
           /\ SubSeq(u, m + 1, m + n) \in Seq(A)
<1>1. CASE n = 0
  <2>1. m + n < m + 1
    BY <1>1
  <2>2. QED BY <2>1, SubSeqEmpty
<1>2. CASE n # 0
  <2>1. m + 1 \in 1 .. Len(u) /\ m + n \in 1 .. Len(u)
    BY <1>2
  <2>2. \A i \in m + 1 .. m + n : u[i] \in A
    BY <2>1
  <2>3. SubSeq(u, m + 1, m + n) \in Seq(A)
    BY <2>1, <2>2, SubSeqProperties
  <2>4. QED BY <2>1, <2>3, SubSeqOfConcat1
<1>3. QED BY <1>1, <1>2

LEMMA WindowShifted ==
    ASSUME NEW A, NEW u \in Seq(A), NEW v \in Seq(A), NEW m \in Nat, NEW n \in Nat,
           m + n <= Len(v)
    PROVE  SubSeq(u \o v, Len(u) + m + 1, Len(u) + m + n) = SubSeq(v, m + 1, m + n)
<1>1. Len(u) \in Nat /\ Len(v) \in Nat
  OBVIOUS
<1>2. CASE n = 0
  <2>1. m + n < m + 1 /\ Len(u) + m + n < Len(u) + m + 1
    BY <1>1, <1>2
  <2>2. /\ m + n \in Int /\ m + 1 \in Int
        /\ Len(u) + m + n \in Int /\ Len(u) + m + 1 \in Int
    BY <1>1
  <2>3. SubSeq(v, m + 1, m + n) = <<>>
    BY <2>1, <2>2, SubSeqEmpty
  <2>4. SubSeq(u \o v, Len(u) + m + 1, Len(u) + m + n) = <<>>
    BY <2>1, <2>2, SubSeqEmpty
  <2>5. QED BY <2>3, <2>4
<1>3. CASE n # 0
  <2> DEFINE a == Len(u) + m + 1
             b == Len(u) + m + n
  <2>1. a \in Len(u) + 1 .. Len(u) + Len(v) /\ b \in Len(u) + 1 .. Len(u) + Len(v)
    BY <1>1, <1>3
  <2>2. a - Len(u) = m + 1 /\ b - Len(u) = m + n
    BY <1>1
  <2> HIDE DEF a, b
  <2>3. SubSeq(u \o v, a, b) = SubSeq(v, a - Len(u), b - Len(u))
    BY <2>1, SubSeqOfConcat2
  <2>4. QED BY <2>2, <2>3 DEF a, b
<1>4. QED BY <1>2, <1>3

\* One row of sequences behind another.
LEMMA FlattenBehind ==
    ASSUME NEW A, NEW s \in Seq(Seq(A)), NEW t \in Seq(Seq(A))
    PROVE  \A n \in 0 .. Len(t) : UpTo(s \o t, Len(s) + n) = FlattenSeq(s) \o UpTo(t, n)
<1>0. \A u, v, w \in Seq(A) : (u \o v) \o w = u \o (v \o w)
  BY ConcatAssociative
<1> DEFINE all == s \o t
           d == Len(s)
           m == Len(t)
           f == FlattenSeq(s)
<1>1. all \in Seq(Seq(A)) /\ Len(all) = d + m /\ d \in Nat /\ m \in Nat
  OBVIOUS
<1>2. \A i \in 1 .. m : all[d + i] = t[i] /\ t[i] \in Seq(A)
  OBVIOUS
<1>3. SubSeq(all, 1, d) = s
  <2>1. SubSeq(s \o t, 1, Len(s)) = s
    <3>1. d \in Nat /\ s \in Seq(Seq(A)) /\ t \in Seq(Seq(A))
      OBVIOUS
    <3>2. SubSeq(s \o t, 0 + 1, 0 + d) = SubSeq(s, 0 + 1, 0 + d)
      BY <3>1, WindowKept
    <3>3. 0 + d = d /\ 0 + 1 = 1
      BY <3>1
    <3>4. SubSeq(s, 1, d) = s
      BY SubSeqFull
    <3>5. QED BY <3>2, <3>3, <3>4
  <2>2. QED BY <2>1
<1>4. f \in Seq(A)
  BY FlattenType
<1> HIDE DEF all, d, m, f
<1>5. UpTo(all, d) = f
  BY <1>3 DEF UpTo, f
<1>6. /\ UpTo(t, 0) = <<>>
      /\ \A n \in 0 .. m : UpTo(t, n) \in Seq(A)
      /\ \A n \in 1 .. m : UpTo(t, n) = UpTo(t, n - 1) \o t[n]
  BY FlattenUpTo DEF m
<1>7. \A n \in 1 .. Len(all) : UpTo(all, n) = UpTo(all, n - 1) \o all[n]
  BY <1>1, FlattenUpTo
<1> DEFINE T == {n \in Nat : n <= m => UpTo(all, d + n) = f \o UpTo(t, n)}
<1>8. 0 \in T
  <2>1. d + 0 = d /\ f \o <<>> = f
    BY <1>1, <1>4, ConcatEmptySeq
  <2>2. QED BY <1>5, <1>6, <2>1
<1>9. ASSUME NEW n \in Nat, n \in T PROVE n + 1 \in T
  <2> SUFFICES ASSUME n + 1 <= m PROVE UpTo(all, d + (n + 1)) = f \o UpTo(t, n + 1)
    OBVIOUS
  <2>1. UpTo(all, d + n) = f \o UpTo(t, n)
    BY <1>1, <1>9
  <2>2. PICK k \in 1 .. Len(all) : k = d + (n + 1) /\ k - 1 = d + n
    BY <1>1
  <2>3. UpTo(all, k) = UpTo(all, k - 1) \o all[k]
    BY <1>7
  <2>4. n + 1 \in 1 .. m /\ n \in 0 .. m /\ (n + 1) - 1 = n
    BY <1>1
  <2>5. all[k] = t[n + 1] /\ t[n + 1] \in Seq(A)
    BY <1>2, <2>2, <2>4
  <2>6. UpTo(t, n) \in Seq(A) /\ UpTo(t, n + 1) = UpTo(t, n) \o t[n + 1]
    BY <1>6, <2>4
  <2>7. (f \o UpTo(t, n)) \o t[n + 1] = f \o (UpTo(t, n) \o t[n + 1])
    <3>1. PICK u \in Seq(A), v \in Seq(A), w \in Seq(A) :
              u = f /\ v = UpTo(t, n) /\ w = t[n + 1]
      BY <1>4, <2>5, <2>6
    <3>2. (u \o v) \o w = u \o (v \o w)
      BY <1>0
    <3>3. QED BY <3>1, <3>2
  <2>8. QED BY <2>1, <2>2, <2>3, <2>5, <2>6, <2>7
<1>10. Nat \subseteq T
  BY <1>8, <1>9, Induction
<1>11. \A n \in 0 .. m : UpTo(all, d + n) = f \o UpTo(t, n)
  BY <1>1, <1>10
<1>12. QED BY <1>11 DEF all, d, m, f

\* Each of the sequences is found in a flattening behind those before it.
FoundIn(s, c, n, at, len) ==
    /\ at + len <= Len(UpTo(s, n))
    /\ SubSeq(UpTo(s, n), at + 1, at + len) = s[c]

LEMMA FlattenPart ==
    ASSUME NEW A, NEW s \in Seq(Seq(A)), NEW c \in 1 .. Len(s)
    PROVE  /\ Len(UpTo(s, c - 1)) \in Nat /\ Len(s[c]) \in Nat
           /\ \A n \in c .. Len(s) :
                  FoundIn(s, c, n, Len(UpTo(s, c - 1)), Len(s[c]))
<1>1. /\ s[c] \in Seq(A) /\ Len(s[c]) \in Nat /\ c \in Nat /\ Len(s) \in Nat
      /\ c \in 0 .. Len(s) /\ c - 1 \in 0 .. Len(s)
  OBVIOUS
<1>2. UpTo(s, c - 1) \in Seq(A) /\ UpTo(s, c) = UpTo(s, c - 1) \o s[c]
  BY <1>1, FlattenUpTo
<1>3. PICK at \in Nat : at = Len(UpTo(s, c - 1))
  BY <1>2
<1>4. PICK len \in Nat : len = Len(s[c])
  BY <1>1
<1> DEFINE T == {k \in Nat : c + k <= Len(s) => FoundIn(s, c, c + k, at, len)}
<1>5. FoundIn(s, c, c, at, len)
  <2>1. Len(UpTo(s, c)) = at + len
    BY <1>1, <1>2, <1>3, <1>4, ConcatProperties
  <2>2. SubSeq(UpTo(s, c), at + 1, at + len) = s[c]
    BY <1>1, <1>2, <1>3, <1>4, Window
  <2>3. QED BY <2>1, <2>2 DEF FoundIn
<1>6. 0 \in T
  <2>1. c + 0 = c
    BY <1>1
  <2>2. QED BY <1>5, <2>1
<1>7. ASSUME NEW k \in Nat, k \in T PROVE k + 1 \in T
  <2> SUFFICES ASSUME c + (k + 1) <= Len(s) PROVE FoundIn(s, c, c + (k + 1), at, len)
    OBVIOUS
  <2>1. PICK m \in 0 .. Len(s) : m = c + k
    BY <1>1
  <2>2. m + 1 \in 1 .. Len(s) /\ m + 1 = c + (k + 1) /\ (m + 1) - 1 = m
    BY <1>1, <2>1
  <2>3. FoundIn(s, c, m, at, len)
    <3>1. c + k <= Len(s)
      BY <2>1
    <3>2. QED BY <1>7, <2>1, <3>1
  <2>4. UpTo(s, m) \in Seq(A) /\ s[m + 1] \in Seq(A)
    <3>1. s[m + 1] \in Seq(A)
      BY <2>2
    <3>2. QED BY <3>1, FlattenUpTo
  <2>5. UpTo(s, m + 1) = UpTo(s, m) \o s[m + 1]
    <3>1. UpTo(s, m + 1) = UpTo(s, (m + 1) - 1) \o s[m + 1]
      BY <2>2, FlattenUpTo
    <3>2. QED BY <2>2, <3>1
  <2>6. at + len <= Len(UpTo(s, m)) /\ SubSeq(UpTo(s, m), at + 1, at + len) = s[c]
    BY <2>3 DEF FoundIn
  <2>7. /\ Len(UpTo(s, m + 1)) = Len(UpTo(s, m)) + Len(s[m + 1])
        /\ Len(UpTo(s, m)) \in Nat /\ Len(s[m + 1]) \in Nat
    BY <2>4, <2>5, ConcatProperties
  <2>8. SubSeq(UpTo(s, m + 1), at + 1, at + len) = s[c]
    <3> DEFINE p == UpTo(s, m)
               q == s[m + 1]
    <3>1. p \in Seq(A) /\ q \in Seq(A) /\ at + len <= Len(p)
      BY <2>4, <2>6
    <3> HIDE DEF p, q
    <3>2. SubSeq(p \o q, at + 1, at + len) = SubSeq(p, at + 1, at + len)
      BY <1>1, <3>1, WindowKept
    <3>3. UpTo(s, m + 1) = p \o q /\ SubSeq(p, at + 1, at + len) = s[c]
      BY <2>5, <2>6 DEF p, q
    <3>4. QED BY <3>2, <3>3
  <2>9. at + len <= Len(UpTo(s, m + 1))
    <3>1. PICK i \in Nat, j \in Nat : i = Len(UpTo(s, m)) /\ j = Len(s[m + 1])
      BY <2>7
    <3>2. at + len <= i /\ Len(UpTo(s, m + 1)) = i + j
      BY <2>6, <2>7, <3>1
    <3>3. QED BY <3>2
  <2>10. FoundIn(s, c, m + 1, at, len)
    BY <2>8, <2>9 DEF FoundIn
  <2>11. QED BY <2>2, <2>10
<1>8. Nat \subseteq T
  <2> HIDE DEF T
  <2>1. QED BY <1>6, <1>7, Induction
<1>9. ASSUME NEW n \in c .. Len(s) PROVE FoundIn(s, c, n, at, len)
  <2>1. n - c \in Nat /\ c + (n - c) = n /\ n <= Len(s)
    BY <1>1
  <2>2. n - c \in T
    BY <1>8, <2>1
  <2>3. QED BY <2>1, <2>2
<1>10. QED BY <1>1, <1>3, <1>4, <1>9

-------------------------------------------------------------------------------
(* FoldSeq with an addition.                                               *)

Some(s) == CHOOSE x \in s : TRUE

\* What the fold computes on the way: the sum over every subset.
IsSumming(f, S, sum) ==
    sum = [s \in SUBSET S |-> IF s = {} THEN 0 ELSE f[Some(s)] + sum[s \ {Some(s)}]]
Summing(f, S) == CHOOSE sum : IsSumming(f, S, sum)
SumOver(f, S) == Summing(f, S)[S]

LEMMA SomeOf ==
    ASSUME NEW s, IsFiniteSet(s), s # {}
    PROVE  /\ Some(s) \in s /\ IsFiniteSet(s \ {Some(s)})
           /\ Cardinality(s) \in Nat /\ Cardinality(s \ {Some(s)}) = Cardinality(s) - 1
<1>1. Some(s) \in s
  BY DEF Some
<1>2. QED BY <1>1, FS_RemoveElement, FS_CardinalityType

LEMMA SummingExists ==
    ASSUME NEW f, NEW S, IsFiniteSet(S)
    PROVE  \E sum : IsSumming(f, S, sum)
<1> DEFINE Next(sum) == [s \in SUBSET S |-> IF s = {} THEN 0
                                            ELSE f[Some(s)] + sum[s \ {Some(s)}]]
           Good(sum, n) == \A s \in SUBSET S : Cardinality(s) <= n => sum[s] = Next(sum)[s]
           T == {n \in Nat : \E sum : Good(sum, n)}
<1>1. 0 \in T
  <2> DEFINE zero == [s \in SUBSET S |-> 0]
  <2>1. ASSUME NEW s \in SUBSET S, Cardinality(s) <= 0 PROVE zero[s] = Next(zero)[s]
    <3>1. IsFiniteSet(s) /\ Cardinality(s) \in Nat
      BY FS_Subset, FS_CardinalityType
    <3>2. Cardinality(s) = 0
      BY <2>1, <3>1
    <3>3. s = {}
      BY <3>1, <3>2, FS_EmptySet
    <3>4. QED BY <3>3
  <2>2. QED BY <2>1
<1>2. ASSUME NEW n \in Nat, n \in T PROVE n + 1 \in T
  <2>1. PICK sum : Good(sum, n)
    BY <1>2
  <2> DEFINE next == Next(sum)
  <2>2. ASSUME NEW s \in SUBSET S, Cardinality(s) <= n + 1 PROVE next[s] = Next(next)[s]
    <3>1. CASE s = {}
      BY <3>1
    <3>2. CASE s # {}
      <4> DEFINE r == s \ {Some(s)}
      <4>1. IsFiniteSet(s)
        BY FS_Subset
      <4>2. r \in SUBSET S /\ Cardinality(r) = Cardinality(s) - 1 /\ Cardinality(s) \in Nat
        BY <3>2, <4>1, SomeOf
      <4>3. Cardinality(r) <= n
        BY <2>2, <4>2
      <4>4. sum[r] = next[r]
        BY <2>1, <4>2, <4>3
      <4>5. next[s] = f[Some(s)] + sum[r] /\ Next(next)[s] = f[Some(s)] + next[r]
        BY <3>2
      <4>6. QED BY <4>4, <4>5
    <3>3. QED BY <3>1, <3>2
  <2>3. Good(next, n + 1)
    BY <2>2
  <2> HIDE DEF Good, next
  <2>4. QED BY <2>3
<1>3. Nat \subseteq T
  <2> HIDE DEF T
  <2>1. QED BY <1>1, <1>2, Induction
<1>4. Cardinality(S) \in Nat
  BY FS_CardinalityType
<1>5. PICK sum : Good(sum, Cardinality(S))
  BY <1>3, <1>4
<1> DEFINE all == [s \in SUBSET S |-> sum[s]]
<1>6. ASSUME NEW s \in SUBSET S
      PROVE  all[s] = IF s = {} THEN 0 ELSE f[Some(s)] + all[s \ {Some(s)}]
  <2>1. Cardinality(s) <= Cardinality(S)
    BY FS_Subset
  <2>2. sum[s] = Next(sum)[s]
    BY <1>5, <2>1
  <2>3. s \ {Some(s)} \in SUBSET S
    OBVIOUS
  <2>4. all[s] = sum[s] /\ all[s \ {Some(s)}] = sum[s \ {Some(s)}]
    BY <2>3
  <2>5. QED BY <2>2, <2>4
<1>7. IsSumming(f, S, all)
  BY <1>6 DEF IsSumming
<1>8. QED BY <1>7

LEMMA SummingValues ==
    ASSUME NEW f, NEW S, IsFiniteSet(S), NEW s \in SUBSET S
    PROVE  Summing(f, S)[s] = IF s = {} THEN 0
                              ELSE f[Some(s)] + Summing(f, S)[s \ {Some(s)}]
<1> DEFINE sum == Summing(f, S)
<1>1. IsSumming(f, S, sum)
  BY SummingExists DEF Summing
<1> HIDE DEF sum
<1>2. sum[s] = IF s = {} THEN 0 ELSE f[Some(s)] + sum[s \ {Some(s)}]
  BY <1>1 DEF IsSumming
<1>3. QED BY <1>2 DEF sum

\* A sum depends on the summands only.
LEMMA SummingsAgree ==
    ASSUME NEW f, NEW g, NEW S, IsFiniteSet(S), NEW R, IsFiniteSet(R),
           NEW u, u \subseteq S, u \subseteq R, \A x \in u : f[x] = g[x]
    PROVE  Summing(f, S)[u] = Summing(g, R)[u]
<1> DEFINE Same(s) == Summing(f, S)[s] = Summing(g, R)[s]
           T == {n \in Nat : \A s \in SUBSET u : Cardinality(s) = n => Same(s)}
<1>0. IsFiniteSet(u)
  BY FS_Subset
<1>1. 0 \in T
  <2>1. ASSUME NEW s \in SUBSET u, Cardinality(s) = 0 PROVE Same(s)
    <3>1. s = {} /\ s \in SUBSET S /\ s \in SUBSET R
      BY <1>0, <2>1, FS_Subset, FS_EmptySet
    <3>2. Summing(f, S)[s] = 0 /\ Summing(g, R)[s] = 0
      BY <3>1, SummingValues
    <3>3. QED BY <3>2
  <2>2. QED BY <2>1
<1>2. ASSUME NEW n \in Nat, n \in T PROVE n + 1 \in T
  <2>1. ASSUME NEW s \in SUBSET u, Cardinality(s) = n + 1 PROVE Same(s)
    <3> DEFINE r == s \ {Some(s)}
    <3>1. IsFiniteSet(s) /\ s # {}
      BY <1>0, <2>1, FS_Subset, FS_EmptySet
    <3>2. Some(s) \in s /\ Cardinality(r) = n /\ r \in SUBSET u
      <4>1. Some(s) \in s /\ Cardinality(r) = Cardinality(s) - 1
        BY <3>1, SomeOf
      <4>2. QED BY <2>1, <4>1
    <3>3. Same(r)
      BY <1>2, <3>2
    <3>4. s \in SUBSET S /\ s \in SUBSET R
      OBVIOUS
    <3>5. /\ Summing(f, S)[s] = f[Some(s)] + Summing(f, S)[r]
          /\ Summing(g, R)[s] = g[Some(s)] + Summing(g, R)[r]
      BY <3>1, <3>4, SummingValues
    <3>6. f[Some(s)] = g[Some(s)]
      BY <3>2
    <3>7. QED BY <3>3, <3>5, <3>6
  <2> HIDE DEF Same
  <2>2. QED BY <2>1
<1>3. Nat \subseteq T
  <2> HIDE DEF T
  <2>1. QED BY <1>1, <1>2, Induction
<1>4. Cardinality(u) \in Nat
  BY <1>0, FS_CardinalityType
<1>5. Cardinality(u) \in T
  BY <1>3, <1>4
<1>6. Same(u)
  <2> HIDE DEF Same
  <2>1. QED BY <1>5
<1>7. QED BY <1>6

LEMMA SumCongruent ==
    ASSUME NEW f, NEW g, NEW S, IsFiniteSet(S), \A x \in S : f[x] = g[x]
    PROVE  SumOver(f, S) = SumOver(g, S)
BY SummingsAgree DEF SumOver

LEMMA SumUnfolds ==
    ASSUME NEW f, NEW S, IsFiniteSet(S)
    PROVE  /\ S = {} => SumOver(f, S) = 0
           /\ S # {} => SumOver(f, S) = f[Some(S)] + SumOver(f, S \ {Some(S)})
<1>1. S \in SUBSET S
  OBVIOUS
<1>2. Summing(f, S)[S] = IF S = {} THEN 0 ELSE f[Some(S)] + Summing(f, S)[S \ {Some(S)}]
  BY <1>1, SummingValues
<1>3. ASSUME S # {} PROVE Summing(f, S)[S \ {Some(S)}] = SumOver(f, S \ {Some(S)})
  <2>1. IsFiniteSet(S \ {Some(S)})
    BY <1>3, SomeOf
  <2>2. QED BY <2>1, SummingsAgree DEF SumOver
<1>4. QED BY <1>2, <1>3 DEF SumOver

LEMMA SumIsNat ==
    ASSUME NEW S, IsFiniteSet(S), NEW f, \A x \in S : f[x] \in Nat
    PROVE  SumOver(f, S) \in Nat
<1> DEFINE T == {n \in Nat : \A s \in SUBSET S : Cardinality(s) = n => SumOver(f, s) \in Nat}
<1>1. 0 \in T
  <2>1. ASSUME NEW s \in SUBSET S, Cardinality(s) = 0 PROVE SumOver(f, s) \in Nat
    <3>1. IsFiniteSet(s)
      BY FS_Subset
    <3>2. s = {}
      BY <2>1, <3>1, FS_EmptySet
    <3>3. SumOver(f, s) = 0
      BY <3>1, <3>2, SumUnfolds
    <3>4. QED BY <3>3
  <2>2. QED BY <2>1
<1>2. ASSUME NEW n \in Nat, n \in T PROVE n + 1 \in T
  <2>1. ASSUME NEW s \in SUBSET S, Cardinality(s) = n + 1 PROVE SumOver(f, s) \in Nat
    <3> DEFINE r == s \ {Some(s)}
    <3>1. IsFiniteSet(s) /\ s # {}
      BY <2>1, FS_Subset, FS_EmptySet
    <3>2. Some(s) \in s /\ Cardinality(r) = Cardinality(s) - 1
      BY <3>1, SomeOf
    <3>3. Cardinality(r) = n /\ r \in SUBSET S
      BY <2>1, <3>2
    <3>4. SumOver(f, r) \in Nat
      BY <1>2, <3>3
    <3>5. SumOver(f, s) = f[Some(s)] + SumOver(f, r)
      BY <3>1, SumUnfolds
    <3>6. f[Some(s)] \in Nat
      BY <3>2
    <3>7. QED BY <3>4, <3>5, <3>6
  <2>2. QED BY <2>1
<1>3. Nat \subseteq T
  <2> HIDE DEF T
  <2>1. QED BY <1>1, <1>2, Induction
<1>4. Cardinality(S) \in Nat
  BY FS_CardinalityType
<1>5. Cardinality(S) \in T
  BY <1>3, <1>4
<1>6. QED BY <1>5

\* The order in which the fold takes the elements does not matter.
LEMMA SumRemove ==
    ASSUME NEW S, IsFiniteSet(S), NEW f, \A x \in S : f[x] \in Nat, NEW e \in S
    PROVE  SumOver(f, S) = f[e] + SumOver(f, S \ {e})
<1> DEFINE Splits(s) == \A x \in s : SumOver(f, s) = f[x] + SumOver(f, s \ {x})
           T == {n \in Nat : \A s \in SUBSET S : Cardinality(s) = n => Splits(s)}
<1>1. 0 \in T
  <2>1. ASSUME NEW s \in SUBSET S, Cardinality(s) = 0 PROVE Splits(s)
    <3>1. s = {}
      BY <2>1, FS_Subset, FS_EmptySet
    <3>2. QED BY <3>1
  <2>2. QED BY <2>1
<1>2. ASSUME NEW n \in Nat, n \in T PROVE n + 1 \in T
  <2>1. ASSUME NEW s \in SUBSET S, Cardinality(s) = n + 1, NEW x \in s
        PROVE  SumOver(f, s) = f[x] + SumOver(f, s \ {x})
    <3> DEFINE y == Some(s)
    <3>1. IsFiniteSet(s) /\ s # {}
      BY FS_Subset
    <3>2. y \in s /\ SumOver(f, s) = f[y] + SumOver(f, s \ {y})
      BY <3>1, SomeOf, SumUnfolds
    <3> HIDE DEF y
    <3>3. CASE x = y
      BY <3>2, <3>3
    <3>4. CASE x # y
      <4> DEFINE sx == s \ {x}
                 sy == s \ {y}
                 sxy == (s \ {x}) \ {y}
      <4>1. IsFiniteSet(sx) /\ Cardinality(sx) = n /\ IsFiniteSet(sy) /\ Cardinality(sy) = n
        <5>1. /\ IsFiniteSet(sx) /\ Cardinality(sx) = Cardinality(s) - 1
              /\ IsFiniteSet(sy) /\ Cardinality(sy) = Cardinality(s) - 1
          BY <3>1, <3>2, FS_RemoveElement
        <5>2. QED BY <2>1, <5>1
      <4>2. sx \in SUBSET S /\ sy \in SUBSET S /\ x \in sy /\ y \in sx
        BY <3>2, <3>4
      <4>3. Splits(sx) /\ Splits(sy)
        BY <1>2, <4>1, <4>2
      <4>4. SumOver(f, sx) = f[y] + SumOver(f, sxy)
        BY <4>2, <4>3
      <4>5. sy \ {x} = sxy
        OBVIOUS
      <4>6. SumOver(f, sy) = f[x] + SumOver(f, sxy)
        BY <4>2, <4>3, <4>5
      <4>7. SumOver(f, sxy) \in Nat /\ f[x] \in Nat /\ f[y] \in Nat
        <5>1. IsFiniteSet(sxy) /\ \A z \in sxy : f[z] \in Nat
          BY <4>1, FS_RemoveElement
        <5>2. QED BY <3>2, <5>1, SumIsNat
      <4>8. QED BY <3>2, <4>4, <4>6, <4>7
    <3>5. QED BY <3>3, <3>4
  <2>2. \A s \in SUBSET S : Cardinality(s) = n + 1 => Splits(s)
    BY <2>1
  <2>3. QED BY <2>2
<1>3. Nat \subseteq T
  <2> HIDE DEF T
  <2>1. QED BY <1>1, <1>2, Induction
<1>4. Cardinality(S) \in Nat
  BY FS_CardinalityType
<1>5. Cardinality(S) \in T
  BY <1>3, <1>4
<1>6. QED BY <1>5

-------------------------------------------------------------------------------
(* Sums along a sequence.                                                  *)

SumAlong(s) == SumOver(s, DOMAIN s)

LEMMA FoldSeqIsSum == \A s : FoldSeq(LAMBDA a, b : a + b, 0, s) = SumAlong(s)
BY DEF FoldSeq, FoldFunction, FoldFunctionOnSet, MapThenFoldSet, SumAlong, SumOver,
       Summing, IsSumming, Some

LEMMA SumAlongAppend ==
    ASSUME NEW s \in Seq(Nat), NEW n \in Nat
    PROVE  /\ SumAlong(s) \in Nat
           /\ SumAlong(Append(s, n)) = SumAlong(s) + n
<1> DEFINE t == Append(s, n)
           m == Len(s)
<1>1. /\ m \in Nat /\ DOMAIN s = 1 .. m /\ DOMAIN t = 1 .. m + 1 /\ t[m + 1] = n
      /\ \A i \in 1 .. m : t[i] = s[i] /\ s[i] \in Nat
  OBVIOUS
<1> HIDE DEF t, m
<1>2. IsFiniteSet(1 .. m) /\ IsFiniteSet(1 .. m + 1)
  BY <1>1, FS_Interval
<1>3. \A i \in 1 .. m + 1 : t[i] \in Nat
  <2>1. \A i \in 1 .. m + 1 : i \in 1 .. m \/ i = m + 1
    BY <1>1
  <2>2. QED BY <1>1, <2>1
<1>4. m + 1 \in 1 .. m + 1 /\ (1 .. m + 1) \ {m + 1} = 1 .. m
  BY <1>1
<1>5. SumOver(t, 1 .. m + 1) = t[m + 1] + SumOver(t, (1 .. m + 1) \ {m + 1})
  BY <1>2, <1>3, <1>4, SumRemove
<1>6. SumOver(t, 1 .. m) = SumOver(s, 1 .. m)
  BY <1>1, <1>2, SumCongruent
<1>7. SumOver(s, 1 .. m) \in Nat
  BY <1>1, <1>2, SumIsNat
<1>8. SumAlong(s) = SumOver(s, 1 .. m) /\ SumAlong(t) = SumOver(t, 1 .. m + 1)
  BY <1>1 DEF SumAlong
<1>9. SumAlong(t) = n + SumAlong(s)
  BY <1>1, <1>4, <1>5, <1>6, <1>8
<1>10. QED BY <1>7, <1>8, <1>9 DEF t

LEMMA SumAlongEmpty == SumAlong(<<>>) = 0
<1>1. DOMAIN <<>> = {}
  OBVIOUS
<1>2. IsFiniteSet({})
  BY FS_EmptySet
<1>3. QED BY <1>1, <1>2, SumUnfolds DEF SumAlong
===============================================================================
