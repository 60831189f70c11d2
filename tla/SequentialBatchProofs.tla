------------------------- MODULE SequentialBatchProofs -------------------------
(***************************************************************************)
(* Proofs about SequentialBatch, for any row groups, pages, columns, batch *)
(* size and number of faults.                                              *)
(***************************************************************************)
EXTENDS SequentialBatch, SequenceLemmas

-------------------------------------------------------------------------------
(* Counting rows along the pages of a chunk.                               *)

\* The rows of the first i pages.
RowsOf(p, i) == Total(SubSeq(p, 1, i))

LEMMA TotalIs == \A p : Total(p) = SumAlong(p)
BY FoldSeqIsSum DEF Total

LEMMA PageRows ==
    ASSUME NEW p \in Seq(Nat \ {0}), NEW i \in 1 .. Len(p)
    PROVE  /\ RowsOf(p, i) = RowsOf(p, i - 1) + p[i]
           /\ p[i] \in Nat \ {0} /\ RowsOf(p, i - 1) \in Nat
<1>1. i - 1 \in 0 .. Len(p) /\ 1 \in 1 .. Len(p) /\ p[i] \in Nat /\ p \in Seq(Nat)
      /\ i \in Int /\ p[i] \in Nat \ {0}
  OBVIOUS
<1>2. SubSeq(p, 1, i) = SubSeq(p, 1, i - 1) \o <<p[i]>>
  BY <1>1, SubSeqRecursiveSecond
<1>3. SubSeq(p, 1, i - 1) \in Seq(Nat)
  BY <1>1, SubSeqProperties
<1>4. SubSeq(p, 1, i) = Append(SubSeq(p, 1, i - 1), p[i])
  BY <1>1, <1>2, <1>3, AppendIsConcat
<1>5. QED BY <1>1, <1>3, <1>4, SumAlongAppend, TotalIs DEF RowsOf

LEMMA AllRows ==
    ASSUME NEW p \in Seq(Nat \ {0})
    PROVE  /\ RowsOf(p, 0) = 0 /\ RowsOf(p, Len(p)) = Total(p)
           /\ \A i \in 0 .. Len(p) :
                  /\ RowsOf(p, i) \in Nat
                  /\ RowsOf(p, i) <= Total(p)
                  /\ i # Len(p) => RowsOf(p, i) < Total(p)
           /\ Total(p) \in Nat
<1>1. RowsOf(p, 0) = 0
  <2>1. SubSeq(p, 1, 0) = <<>>
    BY SubSeqEmpty
  <2>2. QED BY <2>1, SumAlongEmpty, TotalIs DEF RowsOf
<1>2. RowsOf(p, Len(p)) = Total(p)
  BY SubSeqFull, Zenon DEF RowsOf
<1>3. Len(p) \in Nat
  OBVIOUS
<1>4. ASSUME NEW i \in 0 .. Len(p) PROVE RowsOf(p, i) \in Nat
  <2>1. CASE i = 0
    BY <1>1, <2>1
  <2>2. CASE i # 0
    <3>1. i \in 1 .. Len(p)
      BY <1>3, <2>2
    <3>2. PICK a \in Nat, b \in Nat : a = RowsOf(p, i - 1) /\ b = p[i]
      BY <3>1, PageRows
    <3>3. RowsOf(p, i) = a + b
      BY <3>1, <3>2, PageRows
    <3>4. QED BY <3>3
  <2>3. QED BY <2>1, <2>2
<1> DEFINE n == Len(p)
           T == {k \in Nat : k <= n => /\ RowsOf(p, n - k) <= RowsOf(p, n)
                                       /\ k # 0 => RowsOf(p, n - k) < RowsOf(p, n)}
<1>5. 0 \in T
  <2>1. n - 0 = n /\ n \in 0 .. n
    BY <1>3
  <2>2. QED BY <1>4, <2>1
<1>6. ASSUME NEW k \in Nat, k \in T PROVE k + 1 \in T
  <2> SUFFICES ASSUME k + 1 <= n
               PROVE  /\ RowsOf(p, n - (k + 1)) <= RowsOf(p, n)
                      /\ RowsOf(p, n - (k + 1)) < RowsOf(p, n)
    OBVIOUS
  <2>1. PICK i \in 1 .. n : i = n - k
    <3>1. n - k \in 1 .. n
      BY <1>3
    <3>2. QED BY <3>1
  <2>2. i - 1 = n - (k + 1) /\ k <= n /\ n \in 0 .. n /\ i \in 1 .. Len(p)
    BY <1>3, <2>1
  <2>3. /\ RowsOf(p, i) = RowsOf(p, i - 1) + p[i]
        /\ p[i] \in Nat \ {0} /\ RowsOf(p, i - 1) \in Nat
    BY <2>2, PageRows
  <2>4. RowsOf(p, i) <= RowsOf(p, n)
    BY <1>6, <2>1, <2>2
  <2>5. RowsOf(p, n) \in Nat
    BY <1>4, <2>2
  <2> HIDE DEF n
  <2>6. QED BY <2>2, <2>3, <2>4, <2>5
<1>7. Nat \subseteq T
  <2> HIDE DEF T
  <2>1. QED BY <1>5, <1>6, Induction
<1>8. ASSUME NEW i \in 0 .. Len(p)
      PROVE  /\ RowsOf(p, i) <= Total(p)
             /\ i # Len(p) => RowsOf(p, i) < Total(p)
  <2>1. n - i \in Nat /\ n - i <= n /\ n - (n - i) = i /\ (i # n => n - i # 0)
    BY <1>3
  <2>2. n - i \in T
    BY <1>7, <2>1
  <2>3. QED BY <1>2, <2>1, <2>2
<1>9. Total(p) \in Nat
  BY <1>2, <1>3, <1>4
<1>10. QED BY <1>1, <1>2, <1>4, <1>8, <1>9

-------------------------------------------------------------------------------
(* Column readers.                                                         *)

Reader == [passed : Nat, loaded : BOOLEAN, read : Nat, left : Nat]

\* A reader whose counters agree: it stands in one of its pages, and what is
\* left is what lies behind its position.
Whole(g, k, c) ==
    LET p == Pages[g][c]
    IN /\ k.passed <= Len(p)
       /\ k.loaded => k.passed < Len(p) /\ k.read <= p[k.passed + 1]
       /\ (RowsOf(p, k.passed) + IF k.loaded THEN k.read ELSE 0) + k.left = Total(p)

LEMMA Columns ==
    /\ IsFiniteSet(Cols) /\ 1 \in Cols /\ Cols \subseteq Nat
    /\ Len(Pages) \in Nat /\ 1 \in RGs
    /\ \A g \in RGs, c \in Cols : Pages[g][c] \in Seq(Nat \ {0})
<1>1. /\ Pages \in Seq(Seq(Seq(Nat \ {0}))) /\ RGs # {} /\ Cols # {}
      /\ \A g \in RGs : DOMAIN Pages[g] = Cols
  BY SequentialBatchAssumption
<1>2. Len(Pages) \in Nat /\ 1 \in RGs /\ \A g \in RGs : Pages[g] \in Seq(Seq(Nat \ {0}))
  BY <1>1 DEF RGs
<1>3. PICK n \in Nat : Cols = 1 .. n
  <2> DEFINE f == Pages[1]
  <2>1. f \in Seq(Seq(Nat \ {0}))
    BY <1>2
  <2> HIDE DEF f
  <2>2. Len(f) \in Nat /\ DOMAIN f = 1 .. Len(f)
    BY <2>1
  <2>3. QED BY <2>2 DEF f, Cols
<1>4. IsFiniteSet(Cols) /\ 1 \in Cols /\ Cols \subseteq Nat
  <2>1. IsFiniteSet(1 .. n)
    BY <1>3, FS_Interval
  <2>2. 1 .. n # {}
    BY <1>1, <1>3
  <2>3. QED BY <1>3, <2>1, <2>2
<1>5. ASSUME NEW g \in RGs, NEW c \in Cols PROVE Pages[g][c] \in Seq(Nat \ {0})
  BY <1>1, <1>2
<1>6. QED BY <1>2, <1>4, <1>5

\* Where a reader stands, in numbers.
LEMMA ReaderFacts ==
    ASSUME rg \in RGs, NEW c \in Cols, NEW k \in Reader, Whole(rg, k, c)
    PROVE  /\ Available(k, c) \in Nat /\ Available(k, c) <= k.left
           /\ Position(k, c) \in Nat /\ Position(k, c) = Total(Pages[rg][c]) - k.left
           /\ Total(Pages[rg][c]) \in Nat
           /\ k.loaded => /\ PageSize(k, c) \in Nat
                          /\ Position(k, c) = RowsOf(Pages[rg][c], k.passed) + k.read
           /\ ~k.loaded => Position(k, c) = RowsOf(Pages[rg][c], k.passed)
           /\ RowsOf(Pages[rg][c], k.passed) \in Nat
<1> DEFINE p == Pages[rg][c]
<1>1. p \in Seq(Nat \ {0}) /\ Len(p) \in Nat
  BY Columns
<1>2. /\ k.passed \in 0 .. Len(p) /\ k.loaded \in BOOLEAN /\ k.read \in Nat /\ k.left \in Nat
      /\ k.loaded => k.passed + 1 \in 1 .. Len(p)
  BY <1>1 DEF Reader, Whole, Position, PageSize, RowsOf
<1>3. RowsOf(p, k.passed) \in Nat /\ Total(p) \in Nat
  BY <1>1, <1>2, AllRows
<1>4. Position(k, c) = RowsOf(p, k.passed) + IF k.loaded THEN k.read ELSE 0
  BY DEF Position, RowsOf
<1>5. /\ Position(k, c) + k.left = Total(p)
      /\ k.loaded => k.read <= PageSize(k, c) /\ PageSize(k, c) = p[k.passed + 1]
  BY DEF Whole, Position, PageSize, RowsOf, PageSize
<1>6. Position(k, c) \in Nat
  BY <1>2, <1>3, <1>4
<1>7. CASE ~k.loaded
  BY <1>2, <1>3, <1>4, <1>5, <1>7 DEF Available
<1>8. CASE k.loaded
  <2>1. PICK i \in 1 .. Len(p) : i = k.passed + 1
    BY <1>2, <1>8
  <2>2. /\ RowsOf(p, i) = RowsOf(p, i - 1) + p[i] /\ p[i] \in Nat /\ i - 1 = k.passed
    <3>1. i - 1 = k.passed
      BY <1>2, <2>1
    <3> HIDE DEF p
    <3>2. QED BY <1>1, <3>1, PageRows
  <2>3. RowsOf(p, i) <= Total(p)
    BY <1>1, <2>1, AllRows
  <2>4. Available(k, c) = p[i] - k.read
    BY <1>5, <1>8, <2>1 DEF Available
  <2> HIDE DEF p
  <2>5. PICK a \in Nat, b \in Nat, t \in Nat, q \in Nat :
            a = RowsOf(p, k.passed) /\ b = p[i] /\ t = Total(p) /\ q = Position(k, c)
    BY <1>3, <1>6, <2>2
  <2>6. q = a + k.read /\ q + k.left = t /\ a + b <= t /\ k.read <= b
    BY <1>4, <1>5, <1>8, <2>1, <2>2, <2>3, <2>5
  <2>7. Available(k, c) \in Nat /\ Available(k, c) <= k.left
    BY <1>2, <2>4, <2>5, <2>6
  <2>8. Position(k, c) = Total(p) - k.left
    BY <1>2, <2>5, <2>6
  <2>9. PageSize(k, c) \in Nat
    BY <1>5, <1>8, <2>1, <2>2
  <2>10. QED BY <1>3, <1>4, <1>6, <1>8, <2>7, <2>8, <2>9 DEF p
<1>9. QED BY <1>2, <1>7, <1>8

\* Passing an exhausted page moves nothing but the page.
LEMMA PassedWhole ==
    ASSUME rg \in RGs, NEW c \in Cols, NEW k \in Reader, Whole(rg, k, c)
    PROVE  /\ Passed(k, c) \in Reader /\ Whole(rg, Passed(k, c), c)
           /\ Passed(k, c).left = k.left
           /\ ~(k.loaded /\ Available(k, c) > 0) => ~Passed(k, c).loaded
<1> DEFINE p == Pages[rg][c]
<1>1. p \in Seq(Nat \ {0}) /\ Len(p) \in Nat
  BY Columns
<1>2. /\ k.passed \in Nat /\ k.loaded \in BOOLEAN /\ k.read \in Nat /\ k.left \in Nat
      /\ Available(k, c) \in Nat
  BY ReaderFacts DEF Reader
<1>3. CASE ~(k.loaded /\ Available(k, c) = 0)
  <2>1. Passed(k, c) = k
    BY <1>3 DEF Passed
  <2>2. QED BY <1>2, <1>3, <2>1
<1>4. CASE k.loaded /\ Available(k, c) = 0
  <2> DEFINE l == [k EXCEPT !.loaded = FALSE, !.passed = @ + 1]
  <2>1. Passed(k, c) = l
    BY <1>4 DEF Passed
  <2>2. /\ l \in Reader /\ l.left = k.left /\ l.loaded = FALSE /\ l.passed = k.passed + 1
    <3>1. [k EXCEPT !.loaded = FALSE] \in Reader
      BY DEF Reader
    <3>2. ASSUME NEW y \in Reader
          PROVE  /\ [y EXCEPT !.passed = @ + 1] \in Reader
                 /\ [y EXCEPT !.passed = @ + 1].left = y.left
                 /\ [y EXCEPT !.passed = @ + 1].loaded = y.loaded
                 /\ [y EXCEPT !.passed = @ + 1].passed = y.passed + 1
      BY DEF Reader
    <3>3. QED BY <3>1, <3>2 DEF Reader
  <2>3. k.passed < Len(p) /\ Position(k, c) + k.left = Total(p)
    BY <1>4 DEF Whole, Position, PageSize, RowsOf
  <2>4. PICK i \in 1 .. Len(p) : i = k.passed + 1
    BY <1>1, <1>2, <2>3
  <2>5. i - 1 = k.passed /\ RowsOf(p, i) = RowsOf(p, i - 1) + p[i]
    <3>1. i - 1 = k.passed
      BY <1>2, <2>4
    <3> HIDE DEF p, l
    <3>2. QED BY <1>1, <3>1, PageRows
  <2>6. Available(k, c) = p[i] - k.read /\ p[i] \in Nat
    BY <1>1, <1>4, <2>4, PageRows DEF Available, PageSize
  <2>7. p[i] = k.read
    BY <1>2, <1>4, <2>6
  <2>8. Position(k, c) = RowsOf(p, k.passed) + k.read
    BY <1>4, ReaderFacts
  <2> HIDE DEF l
  <2>9. Position(l, c) = RowsOf(p, i) + 0
    BY <2>2, <2>4 DEF Position, RowsOf
  <2>10. RowsOf(p, i) \in Nat
    BY <1>1, <2>4, AllRows
  <2>11. Position(l, c) = Position(k, c)
    BY <2>5, <2>7, <2>8, <2>9, <2>10
  <2>12. Whole(rg, l, c)
    BY <1>1, <2>2, <2>3, <2>4, <2>11 DEF Whole, Position, PageSize, RowsOf
  <2>13. QED BY <2>1, <2>2, <2>12
<1>5. QED BY <1>3, <1>4

\* A reader with something left has a page to load.
LEMMA EnsureWhole ==
    ASSUME rg \in RGs, NEW c \in Cols, NEW k \in Reader, Whole(rg, k, c), k.left > 0
    PROVE  /\ EnsureLoaded(k, c) \in Reader /\ Whole(rg, EnsureLoaded(k, c), c)
           /\ EnsureLoaded(k, c).left = k.left
           /\ EnsureLoaded(k, c).loaded /\ Available(EnsureLoaded(k, c), c) > 0
<1> DEFINE p == Pages[rg][c]
<1>1. CASE k.loaded /\ Available(k, c) > 0
  BY <1>1 DEF EnsureLoaded
<1>2. CASE ~(k.loaded /\ Available(k, c) > 0)
  <2> DEFINE m == Passed(k, c)
             l == [m EXCEPT !.loaded = TRUE, !.read = 0]
  <2>1. EnsureLoaded(k, c) = l
    BY <1>2 DEF EnsureLoaded
  <2>2. m \in Reader /\ Whole(rg, m, c) /\ m.left = k.left /\ ~m.loaded
    BY <1>2, PassedWhole
  <2> HIDE DEF m
  <2>3. /\ l \in Reader /\ l.left = m.left /\ l.loaded = TRUE /\ l.read = 0
        /\ l.passed = m.passed
    BY <2>2 DEF Reader
  <2> HIDE DEF l
  <2>4. p \in Seq(Nat \ {0}) /\ Len(p) \in Nat
    BY Columns
  <2>5. m.passed \in 0 .. Len(p) /\ m.left \in Nat \ {0}
    BY <2>2, <2>4 DEF Reader, Whole, Position, PageSize, RowsOf
  <2>6. /\ Position(m, c) = RowsOf(p, m.passed) /\ RowsOf(p, m.passed) \in Nat
        /\ Position(m, c) + m.left = Total(p) /\ Total(p) \in Nat
    BY <2>2, ReaderFacts DEF Whole, Position, PageSize, RowsOf
  <2>7. m.passed # Len(p)
    <3>1. m.passed = Len(p) => RowsOf(p, m.passed) = Total(p)
      BY <2>4, AllRows
    <3>2. RowsOf(p, m.passed) # Total(p)
      BY <2>5, <2>6
    <3>3. QED BY <3>1, <3>2
  <2>8. PICK i \in 1 .. Len(p) : i = m.passed + 1
    BY <2>4, <2>5, <2>7
  <2>9. p[i] \in Nat \ {0}
    BY <2>4, <2>8, PageRows
  <2>10. PageSize(l, c) = p[i]
    BY <2>3, <2>8 DEF PageSize
  <2>11. Available(l, c) = p[i] - 0
    BY <2>3, <2>10 DEF Available
  <2>12. Position(l, c) = Position(m, c)
    BY <2>2, <2>3 DEF Position
  <2>13. Whole(rg, l, c)
    BY <2>3, <2>4, <2>5, <2>6, <2>7, <2>9, <2>10, <2>12 DEF Whole, Position, PageSize, RowsOf
  <2>14. Available(l, c) > 0
    BY <2>9, <2>11
  <2>15. QED BY <2>1, <2>2, <2>3, <2>13, <2>14
<1>3. QED BY <1>1, <1>2

\* Values move from what is left to what was read.
LEMMA TakeWhole ==
    ASSUME rg \in RGs, NEW c \in Cols, NEW k \in Reader, Whole(rg, k, c), k.loaded,
           NEW n \in Nat, n <= Available(k, c)
    PROVE  /\ Take(k, n) \in Reader /\ Whole(rg, Take(k, n), c)
           /\ Take(k, n).left = k.left - n /\ n <= k.left
<1> DEFINE p == Pages[rg][c]
           l == Take(k, n)
<1>1. /\ k.passed \in Nat /\ k.read \in Nat /\ k.left \in Nat
      /\ Available(k, c) \in Nat /\ Available(k, c) <= k.left
      /\ Available(k, c) = PageSize(k, c) - k.read /\ PageSize(k, c) \in Nat
      /\ RowsOf(p, k.passed) \in Nat
  BY ReaderFacts DEF Reader, Available
<1>2. n <= k.left /\ k.left - n \in Nat /\ k.read + n <= PageSize(k, c)
  BY <1>1
<1>3. /\ l \in Reader /\ l.left = k.left - n /\ l.read = k.read + n /\ l.loaded
      /\ l.passed = k.passed
  <2>1. /\ [k EXCEPT !.read = @ + n] \in Reader
        /\ [k EXCEPT !.read = @ + n].read = k.read + n
        /\ [k EXCEPT !.read = @ + n].left = k.left
        /\ [k EXCEPT !.read = @ + n].loaded = k.loaded
        /\ [k EXCEPT !.read = @ + n].passed = k.passed
    <3>1. PICK r \in Nat : r = k.read + n
      BY <1>1
    <3>2. [k EXCEPT !.read = @ + n] = [k EXCEPT !.read = r]
      BY <3>1
    <3>3. QED BY <3>1, <3>2 DEF Reader
  <2>2. ASSUME NEW y \in Reader, y.left = k.left
        PROVE  /\ [y EXCEPT !.left = @ - n] \in Reader
               /\ [y EXCEPT !.left = @ - n].left = k.left - n
               /\ [y EXCEPT !.left = @ - n].read = y.read
               /\ [y EXCEPT !.left = @ - n].loaded = y.loaded
               /\ [y EXCEPT !.left = @ - n].passed = y.passed
    BY <1>2, <2>2 DEF Reader
  <2>3. l = [[k EXCEPT !.read = @ + n] EXCEPT !.left = @ - n]
    BY DEF Take, Reader
  <2>4. QED BY <2>1, <2>2, <2>3
<1> HIDE DEF l
<1>4. PageSize(l, c) = PageSize(k, c)
  BY <1>3 DEF PageSize
<1>5. /\ Position(l, c) = RowsOf(p, k.passed) + (k.read + n)
      /\ Position(k, c) = RowsOf(p, k.passed) + k.read
  BY <1>3 DEF Position, RowsOf
<1>6. Position(l, c) + l.left = Position(k, c) + k.left
  BY <1>1, <1>3, <1>5
<1>7. k.passed < Len(p) /\ k.passed <= Len(p) /\ Position(k, c) + k.left = Total(p)
  BY DEF Whole, Position, PageSize, RowsOf
<1>8. Whole(rg, l, c)
  BY <1>2, <1>3, <1>4, <1>6, <1>7 DEF Whole, Position, PageSize, RowsOf
<1>9. QED BY <1>2, <1>3, <1>8 DEF l

\* What loading leaves, whether it failed or not.
LEMMA LoadedWhole ==
    ASSUME rg \in RGs, NEW c \in Cols, NEW k \in Reader, Whole(rg, k, c), k.left > 0,
           NEW failing
    PROVE  /\ Loaded(k, c, failing) \in Reader /\ Whole(rg, Loaded(k, c, failing), c)
           /\ Loaded(k, c, failing).left = k.left
BY PassedWhole, EnsureWhole DEF Loaded

LEMMA PeekedWhole ==
    ASSUME rg \in RGs, NEW c \in Cols, NEW k \in Reader, Whole(rg, k, c), NEW failing
    PROVE  /\ Peeked(k, c, failing) \in Reader /\ Whole(rg, Peeked(k, c, failing), c)
           /\ Peeked(k, c, failing).left = k.left
BY LoadedWhole DEF Peeked

-------------------------------------------------------------------------------
(* Row groups and batches.                                                 *)

LEMMA RankType == \A g : Rank(g) \in Nat
<1> SUFFICES ASSUME NEW g PROVE Rank(g) \in Nat
  OBVIOUS
<1>1. IsFiniteSet(1 .. Len(Pages))
  BY Columns, FS_Interval
<1>2. {h \in Selected : h <= g} \subseteq 1 .. Len(Pages)
  BY SequentialBatchAssumption DEF RGs
<1>3. IsFiniteSet({h \in Selected : h <= g})
  BY <1>1, <1>2, FS_Subset
<1>4. QED BY <1>3, FS_CardinalityType DEF Rank

\* The next row group is one that is accepted, or there is none.
LEMMA NextIs ==
    ASSUME NEW g \in 0 .. Len(Pages)
    PROVE  /\ NextSelected(g) \in (g + 1) .. (Len(Pages) + 1)
           /\ NextSelected(g) <= Len(Pages) => NextSelected(g) \in Selected
           /\ \A i \in (g + 1) .. (NextSelected(g) - 1) : i \notin Selected
<1> DEFINE S == {h \in (g + 1) .. (Len(Pages) + 1) : h \in Selected \cup {Len(Pages) + 1}}
<1>1. Len(Pages) \in Nat
  BY Columns
<1>2. Len(Pages) + 1 \in S /\ S \subseteq Nat
  BY <1>1
<1>3. PICK m \in S : \A n \in S : m <= n
  BY <1>2, LeastNatural
<1>4. ASSUME NEW i \in (g + 1) .. (m - 1) PROVE i \notin Selected
  <2>1. i \in (g + 1) .. (Len(Pages) + 1) /\ ~(m <= i)
    BY <1>1, <1>3
  <2>2. QED BY <1>3, <2>1
<1>5. \E h \in (g + 1) .. (Len(Pages) + 1) :
        /\ h \in Selected \cup {Len(Pages) + 1}
        /\ \A i \in (g + 1) .. (h - 1) : i \notin Selected
  BY <1>3, <1>4
<1>6. /\ NextSelected(g) \in (g + 1) .. (Len(Pages) + 1)
      /\ NextSelected(g) \in Selected \cup {Len(Pages) + 1}
      /\ \A i \in (g + 1) .. (NextSelected(g) - 1) : i \notin Selected
  BY <1>5 DEF NextSelected
<1>7. QED BY <1>1, <1>6

\* Trimming a batch to the windows neither lengthens nor empties it.
LEMMA ClampIs ==
    ASSUME NEW readers, \A c \in Cols : Available(readers[c], c) \in Nat, NEW n \in Nat
    PROVE  /\ Clamp(readers, n) \in 0 .. n
           /\ n > 0 => Clamp(readers, n) > 0
<1> DEFINE W == {IF IsView(c) THEN Available(readers[c], c) ELSE 0 : c \in Cols}
<1>1. W \subseteq Nat /\ W # {}
  BY Columns
<1>2. Clamp(readers, n) = IF 0 \in W THEN n ELSE Smaller(n, Smallest(W))
  BY DEF Clamp
<1> HIDE DEF W
<1>3. \E m \in W : \A x \in W : m <= x
  BY <1>1, LeastNatural
<1>4. Smallest(W) \in W
  BY <1>3 DEF Smallest
<1>5. Smallest(W) \in Nat /\ (0 \notin W => Smallest(W) # 0)
  BY <1>1, <1>4
<1>6. QED BY <1>2, <1>5 DEF Smaller

LEMMA RowsFromType ==
    ASSUME NEW k, NEW c, NEW n \in Nat, Position(k, c) \in Nat
    PROVE  /\ RowsFrom(k, c, n) \in Seq(Nat \X Nat) /\ Len(RowsFrom(k, c, n)) = n
<1>1. Rank(rg) \in Nat
  BY RankType
<1>2. QED BY <1>1 DEF RowsFrom

-------------------------------------------------------------------------------
(* The two counts.                                                         *)

Types ==
    /\ rg \in 0 .. Len(Pages) + 1 /\ opened \in BOOLEAN
    /\ cr \in [Cols -> Reader]
    /\ pc \in {"user", "end", "open", "load", "read", "crashed"}
    /\ rows \in 0 .. BatchSize
    /\ todo \in [Cols -> {"todo", "reading", "done"}]
    /\ readError \in BOOLEAN /\ holds \in BOOLEAN
    /\ out \in [Cols -> Seq(Nat \X Nat)]
    /\ faults \in Nat

\* Where next() is within the row groups: a row group it is in is accepted,
\* and only where it has none, or none any more, do its readers not matter.
Placed ==
    /\ rg \in RGs => rg \in Selected
    /\ rg \notin RGs => cr[1].left = 0
    /\ pc = "open" => rg \in RGs
    /\ pc \in {"load", "read"} => opened /\ rg \in RGs

Counted == opened /\ rg \in RGs /\ pc # "open" =>
               \A c \in Cols : Whole(rg, cr[c], c)

Counts == Types /\ Placed /\ Counted

LEMMA CountsInit == Init => Counts
<1> SUFFICES ASSUME Init PROVE Counts
  OBVIOUS
<1>1. 0 \notin RGs /\ 1 \in Cols /\ Len(Pages) \in Nat
  BY Columns DEF RGs
<1>2. Types
  <2>1. [passed |-> 0, loaded |-> FALSE, read |-> 0, left |-> 0] \in Reader
    BY DEF Reader
  <2>2. <<>> \in Seq(Nat \X Nat) /\ BatchSize \in Nat
    BY SequentialBatchAssumption
  <2>3. cr \in [Cols -> Reader] /\ out \in [Cols -> Seq(Nat \X Nat)]
    BY <2>1, <2>2 DEF Init
  <2>4. todo \in [Cols -> {"todo", "reading", "done"}]
    BY DEF Init
  <2>5. rg \in 0 .. Len(Pages) + 1 /\ rows \in 0 .. BatchSize
    BY <1>1, <2>2 DEF Init
  <2>6. QED BY <2>3, <2>4, <2>5 DEF Init, Types
<1>3. Placed /\ Counted
  BY <1>1 DEF Init, Placed, Counted
<1>4. QED BY <1>2, <1>3 DEF Counts

\* Steps that touch no reader.
LEMMA CountedStays ==
    ASSUME Counted, pc # "open", UNCHANGED <<rg, opened, cr>>
    PROVE  Counted'
BY DEF Counted

LEMMA CountsCall == ASSUME Counts, CallNext PROVE Counts'
<1> USE DEF Counts
<1>1. Len(Pages) \in Nat /\ RGs = 1 .. Len(Pages) /\ rg \in 0 .. Len(Pages) + 1
  BY Columns DEF RGs, Types
<1>2. pc = "user" /\ holds' = FALSE
      /\ UNCHANGED <<opened, cr, rows, todo, readError, out, faults>>
  BY DEF CallNext
<1>3. CASE rg > 0 /\ ~opened
  <2>1. pc' = "crashed" /\ rg' = rg
    BY <1>3 DEF CallNext
  <2>2. QED BY <1>2, <2>1, CountedStays DEF Types, Placed
<1>4. CASE ~(rg > 0 /\ ~opened) /\ ~NeedsRowGroup
  <2>1. pc' = "load" /\ rg' = rg
    BY <1>4 DEF CallNext
  <2>2. opened /\ rg \in RGs
    BY <1>1, <1>4 DEF NeedsRowGroup, Placed, Types
  <2>3. QED BY <1>2, <2>1, <2>2, CountedStays DEF Types, Placed
<1>5. CASE ~(rg > 0 /\ ~opened) /\ NeedsRowGroup
  <2>1. /\ rg' = IF rg > Len(Pages) THEN rg ELSE NextSelected(rg)
        /\ pc' = IF rg' > Len(Pages) THEN "end" ELSE "open"
    BY <1>5 DEF CallNext
  <2>2. cr[1].left = 0
    BY <1>1, <1>5 DEF NeedsRowGroup, Placed
  <2>3. rg' \in 1 .. Len(Pages) + 1 /\ (rg' <= Len(Pages) => rg' \in Selected)
    <3>1. CASE rg > Len(Pages)
      BY <1>1, <2>1, <3>1
    <3>2. CASE ~(rg > Len(Pages))
      <4>1. rg \in 0 .. Len(Pages)
        BY <1>1, <3>2
      <4>2. QED BY <1>1, <2>1, <3>2, <4>1, NextIs
    <3>3. QED BY <3>1, <3>2
  <2>4. Types'
    <3>1. rg' \in 0 .. Len(Pages) + 1
      BY <1>1, <2>3
    <3>2. pc' \in {"end", "open"}
      BY <2>1
    <3>3. QED BY <1>2, <3>1, <3>2 DEF Types
  <2>5. Placed'
    BY <1>1, <1>2, <2>1, <2>2, <2>3 DEF Placed
  <2>6. Counted'
    BY <1>1, <2>1, <2>3 DEF Counted
  <2>7. QED BY <2>4, <2>5, <2>6
<1>6. QED BY <1>3, <1>4, <1>5

LEMMA CountsOpen == ASSUME Counts, Open PROVE Counts'
<1> USE DEF Counts
<1>1. /\ pc = "open" /\ opened' = TRUE /\ pc' = "load" /\ rg \in RGs
      /\ UNCHANGED <<rg, rows, todo, readError, out, holds, faults>>
      /\ cr' = [c \in Cols |-> [passed |-> 0, loaded |-> FALSE, read |-> 0,
                                left |-> Total(Pages[rg][c])]]
  BY DEF Open, Placed
<1>2. ASSUME NEW c \in Cols PROVE cr'[c] \in Reader /\ Whole(rg, cr'[c], c)
  <2>1. /\ RowsOf(Pages[rg][c], 0) = 0 /\ Total(Pages[rg][c]) \in Nat
        /\ Len(Pages[rg][c]) \in Nat
    BY <1>1, Columns, AllRows
  <2>2. cr'[c] = [passed |-> 0, loaded |-> FALSE, read |-> 0, left |-> Total(Pages[rg][c])]
    BY <1>1
  <2>3. QED BY <2>1, <2>2 DEF Reader, Whole
<1>3. cr' \in [Cols -> Reader]
  BY <1>1, <1>2
<1>4. QED BY <1>1, <1>2, <1>3 DEF Types, Placed, Counted

\* Steps that move readers of the row group, keeping every other part.
LEMMA CountsMoved ==
    ASSUME Counts, pc \in {"load", "read"}, pc' \in {"user", "read"},
           UNCHANGED <<rg, opened>>,
           cr' \in [Cols -> Reader], \A c \in Cols : Whole(rg, cr'[c], c),
           rows' \in 0 .. BatchSize, readError' \in BOOLEAN, holds' \in BOOLEAN,
           todo' \in [Cols -> {"todo", "reading", "done"}],
           out' \in [Cols -> Seq(Nat \X Nat)], faults' \in Nat
    PROVE  Counts'
BY DEF Counts, Types, Placed, Counted

\* What the readers are before a step that moves them.
LEMMA CountsNow ==
    ASSUME Counts, pc \in {"load", "read"}
    PROVE  /\ rg \in RGs /\ opened
           /\ \A c \in Cols : cr[c] \in Reader /\ Whole(rg, cr[c], c) /\ cr[c].left \in Nat
BY DEF Counts, Types, Placed, Counted, Reader

LEMMA CountsPreloadFails == ASSUME Counts, PreloadFails PROVE Counts'
<1>1. PICK bad \in Cols :
          cr' = [c \in Cols |-> IF c <= bad /\ cr[c].left > 0
                                     /\ (c = bad \/ Available(cr[c], c) = 0)
                                THEN Loaded(cr[c], c, {bad}) ELSE cr[c]]
  BY DEF PreloadFails
<1>2. /\ pc = "load" /\ pc' = "user" /\ faults' = faults + 1
      /\ UNCHANGED <<rg, opened, rows, todo, readError, out, holds>>
  BY DEF PreloadFails, Return
<1>3. ASSUME NEW c \in Cols PROVE cr'[c] \in Reader /\ Whole(rg, cr'[c], c)
  <2>1. cr[c] \in Reader /\ Whole(rg, cr[c], c) /\ rg \in RGs
    BY <1>2, CountsNow
  <2>2. cr'[c] = IF c <= bad /\ cr[c].left > 0 /\ (c = bad \/ Available(cr[c], c) = 0)
                 THEN Loaded(cr[c], c, {bad}) ELSE cr[c]
    BY <1>1
  <2>3. QED BY <2>1, <2>2, LoadedWhole
<1>4. cr' \in [Cols -> Reader]
  BY <1>1, <1>3
<1>5. QED BY <1>2, <1>3, <1>4, CountsMoved DEF Counts, Types

\* The readers of LoadPages, after the preload and after the peek.
Preloaded == [c \in Cols |-> IF AllPlain /\ cr[c].left > 0 /\ Available(cr[c], c) = 0
                             THEN EnsureLoaded(cr[c], c) ELSE cr[c]]
Peek(failing) == [c \in Cols |-> Peeked(Preloaded[c], c, failing)]

LEMMA PeekWhole ==
    ASSUME Counts, pc = "load", NEW failing, NEW c \in Cols
    PROVE  /\ Peek(failing)[c] \in Reader /\ Whole(rg, Peek(failing)[c], c)
           /\ Peek(failing)[c].left = cr[c].left
           /\ Available(Peek(failing)[c], c) \in Nat
<1>1. rg \in RGs /\ cr[c] \in Reader /\ Whole(rg, cr[c], c)
  BY CountsNow
<1>2. /\ Preloaded[c] \in Reader /\ Whole(rg, Preloaded[c], c)
      /\ Preloaded[c].left = cr[c].left
  BY <1>1, EnsureWhole DEF Preloaded
<1>3. Peek(failing)[c] = Peeked(Preloaded[c], c, failing)
  BY DEF Peek
<1>4. QED BY <1>1, <1>2, <1>3, PeekedWhole, ReaderFacts

LEMMA LoadPagesIs ==
    ASSUME Counts, LoadPages
    PROVE  /\ pc = "load" /\ pc' = "read" /\ cr[1].left > 0 /\ readError' = FALSE
           /\ UNCHANGED <<rg, opened, holds, status, cursor>>
           /\ todo' = [c \in Cols |-> "todo"] /\ out' = [c \in Cols |-> <<>>]
           /\ \E failing \in SUBSET Cols :
                  /\ faults' = faults + Cardinality(failing) /\ Cardinality(failing) \in Nat
                  /\ failing # {} => faults' > 0
                  /\ cr' = Peek(failing) /\ rows' = Clamp(Peek(failing), BatchRows)
<1>1. PICK failing \in SUBSET Cols :
        /\ faults' = faults + Cardinality(failing)
        /\ cr' = Peek(failing) /\ rows' = Clamp(Peek(failing), BatchRows)
  BY DEF LoadPages, Peek, Preloaded
<1>2. IsFiniteSet(failing) /\ faults \in Nat
  BY Columns, FS_Subset DEF Counts, Types
<1>3. Cardinality(failing) \in Nat /\ (failing # {} => Cardinality(failing) # 0)
  BY <1>2, FS_CardinalityType, FS_EmptySet
<1>4. failing # {} => faults' > 0
  BY <1>1, <1>2, <1>3
<1>5. QED BY <1>1, <1>3, <1>4 DEF LoadPages

LEMMA BatchRowsIs ==
    ASSUME Counts
    PROVE  /\ BatchRows \in 0 .. BatchSize /\ BatchRows <= cr[1].left
           /\ cr[1].left > 0 => BatchRows > 0
<1>1. cr[1].left \in Nat /\ BatchSize \in Nat \ {0}
  BY Columns, SequentialBatchAssumption DEF Counts, Types, Reader
<1>2. QED BY <1>1 DEF BatchRows, Smaller

LEMMA CountsLoadPages == ASSUME Counts, LoadPages PROVE Counts'
<1>1. PICK failing \in SUBSET Cols :
        /\ faults' = faults + Cardinality(failing) /\ Cardinality(failing) \in Nat
        /\ cr' = Peek(failing) /\ rows' = Clamp(Peek(failing), BatchRows)
  BY LoadPagesIs
<1>2. /\ pc = "load" /\ pc' = "read" /\ readError' = FALSE
      /\ UNCHANGED <<rg, opened, holds>>
      /\ todo' = [c \in Cols |-> "todo"] /\ out' = [c \in Cols |-> <<>>]
  BY LoadPagesIs
<1>3. \A c \in Cols : /\ cr'[c] \in Reader /\ Whole(rg, cr'[c], c)
                      /\ Available(Peek(failing)[c], c) \in Nat
  BY <1>1, <1>2, PeekWhole
<1>4. cr' \in [Cols -> Reader]
  BY <1>1, <1>3 DEF Peek
<1>5. rows' \in 0 .. BatchSize
  <2>1. BatchRows \in Nat /\ BatchRows <= BatchSize /\ BatchSize \in Nat
    BY BatchRowsIs, SequentialBatchAssumption
  <2>2. Clamp(Peek(failing), BatchRows) \in 0 .. BatchRows
    BY <1>3, <2>1, ClampIs
  <2>3. QED BY <1>1, <2>1, <2>2
<1>6. faults' \in Nat
  BY <1>1 DEF Counts, Types
<1>7. out' \in [Cols -> Seq(Nat \X Nat)]
  BY <1>2
<1>8. QED BY <1>2, <1>3, <1>4, <1>5, <1>6, <1>7, CountsMoved DEF Counts, Types

\* A step of one column.
LEMMA CountsColumn ==
    ASSUME Counts, pc = "read", UNCHANGED <<rg, opened, pc, rows, holds>>,
           NEW c \in Cols, NEW l \in Reader, Whole(rg, l, c),
           cr' = [cr EXCEPT ![c] = l], readError' \in BOOLEAN, faults' \in Nat,
           todo' \in [Cols -> {"todo", "reading", "done"}],
           out' \in [Cols -> Seq(Nat \X Nat)]
    PROVE  Counts'
<1>1. cr \in [Cols -> Reader]
  BY DEF Counts, Types
<1>2. ASSUME NEW d \in Cols PROVE cr'[d] \in Reader /\ Whole(rg, cr'[d], d)
  <2>1. cr'[d] = IF d = c THEN l ELSE cr[d]
    BY <1>1
  <2>2. QED BY <2>1, CountsNow
<1>3. cr' \in [Cols -> Reader]
  BY <1>1
<1>4. QED BY <1>2, <1>3, CountsMoved DEF Counts, Types

\* What starting a column does: it views n rows of a reader that has peeked,
\* or leaves that reader to be copied from.
Views(c, k) ==
    /\ k.loaded /\ rows <= Available(k, c)
    /\ cr' = [cr EXCEPT ![c] = Take(k, rows)]
    /\ out' = [out EXCEPT ![c] = RowsFrom(k, c, rows)]
    /\ todo' = [todo EXCEPT ![c] = "done"]
Copies(c, k) ==
    /\ cr' = [cr EXCEPT ![c] = k]
    /\ todo' = [todo EXCEPT ![c] = "reading"]
    /\ out' = out

LEMMA StartColumnIs ==
    ASSUME Counts, NEW c \in Cols, StartColumn(c)
    PROVE  /\ pc = "read" /\ todo[c] = "todo" /\ ~readError
           /\ UNCHANGED <<rg, opened, pc, rows, readError, holds, status, cursor>>
           /\ faults' \in Nat /\ (faults' = 0 => faults = 0)
           /\ \E k \in Reader : /\ Whole(rg, k, c) /\ k.left = cr[c].left
                                /\ Views(c, k) \/ Copies(c, k)
<1>1. PICK failing \in SUBSET {c} :
        /\ faults' = faults + Cardinality(failing)
        /\ LET k == Peeked(cr[c], c, failing)
           IN IF CanView(c, k, rows)
              THEN /\ cr' = [cr EXCEPT ![c] = Take(k, rows)]
                   /\ out' = [out EXCEPT ![c] = RowsFrom(k, c, rows)]
                   /\ todo' = [todo EXCEPT ![c] = "done"]
              ELSE /\ cr' = [cr EXCEPT ![c] = k]
                   /\ todo' = [todo EXCEPT ![c] = "reading"]
                   /\ UNCHANGED out
  BY DEF StartColumn
<1>2. /\ pc = "read" /\ todo[c] = "todo" /\ ~readError
      /\ UNCHANGED <<rg, opened, pc, rows, readError, holds, status, cursor>>
  BY DEF StartColumn
<1>3. /\ Peeked(cr[c], c, failing) \in Reader /\ Whole(rg, Peeked(cr[c], c, failing), c)
      /\ Peeked(cr[c], c, failing).left = cr[c].left
  BY <1>2, CountsNow, PeekedWhole
<1>4. Cardinality(failing) \in Nat
  <2>1. IsFiniteSet({c})
    BY FS_Singleton
  <2>2. IsFiniteSet(failing)
    BY <2>1, FS_Subset
  <2>3. QED BY <2>2, FS_CardinalityType
<1>5. faults' \in Nat /\ (faults' = 0 => faults = 0)
  BY <1>1, <1>4 DEF Counts, Types
<1>6. PICK k \in Reader : k = Peeked(cr[c], c, failing)
  BY <1>3
<1>7. CASE CanView(c, k, rows)
  <2>1. k.loaded /\ Available(k, c) >= rows
    BY <1>7 DEF CanView
  <2>2. Available(k, c) \in Nat /\ rows \in Nat
    BY <1>2, <1>3, <1>6, CountsNow, ReaderFacts, SequentialBatchAssumption DEF Counts, Types
  <2>3. Views(c, k)
    BY <1>1, <1>6, <1>7, <2>1, <2>2 DEF Views
  <2>4. QED BY <1>2, <1>3, <1>5, <1>6, <2>3
<1>8. CASE ~CanView(c, k, rows)
  <2>1. Copies(c, k)
    BY <1>1, <1>6, <1>8 DEF Copies
  <2>2. QED BY <1>2, <1>3, <1>5, <1>6, <2>1
<1>9. QED BY <1>7, <1>8

LEMMA CountsStartColumn ==
    ASSUME Counts, NEW c \in Cols, StartColumn(c)
    PROVE  Counts'
<1>1. /\ pc = "read" /\ UNCHANGED <<rg, opened, pc, rows, readError, holds>>
      /\ faults' \in Nat /\ rg \in RGs /\ cr[c] \in Reader
      /\ readError \in BOOLEAN /\ rows \in Nat
      /\ todo \in [Cols -> {"todo", "reading", "done"}]
      /\ out \in [Cols -> Seq(Nat \X Nat)]
  BY StartColumnIs, CountsNow, SequentialBatchAssumption DEF Counts, Types
<1>2. PICK k \in Reader : /\ Whole(rg, k, c) /\ k.left = cr[c].left
                          /\ Views(c, k) \/ Copies(c, k)
  BY StartColumnIs
<1>3. CASE Views(c, k)
  <2>1. Take(k, rows) \in Reader /\ Whole(rg, Take(k, rows), c)
    BY <1>1, <1>2, <1>3, TakeWhole DEF Views
  <2>2. RowsFrom(k, c, rows) \in Seq(Nat \X Nat)
    BY <1>1, <1>2, ReaderFacts, RowsFromType
  <2>3. /\ cr' = [cr EXCEPT ![c] = Take(k, rows)]
        /\ todo' \in [Cols -> {"todo", "reading", "done"}]
        /\ out' \in [Cols -> Seq(Nat \X Nat)]
    BY <1>1, <1>3, <2>2 DEF Views
  <2>4. QED BY <1>1, <2>1, <2>3, CountsColumn
<1>4. CASE Copies(c, k)
  <2>1. /\ cr' = [cr EXCEPT ![c] = k]
        /\ todo' \in [Cols -> {"todo", "reading", "done"}]
        /\ out' \in [Cols -> Seq(Nat \X Nat)]
    BY <1>1, <1>4 DEF Copies
  <2>2. QED BY <1>1, <1>2, <2>1, CountsColumn
<1>5. QED BY <1>2, <1>3, <1>4

\* What copying a page does: it takes n values of a reader that stands in a page.
Takes(c, k, n) ==
    /\ k.loaded /\ n <= Available(k, c)
    /\ n <= rows - Len(out[c])
    /\ cr' = [cr EXCEPT ![c] = Take(k, n)]
    /\ out' = [out EXCEPT ![c] = out[c] \o RowsFrom(k, c, n)]

LEMMA CopyPageIs ==
    ASSUME Counts, NEW c \in Cols, CopyPage(c)
    PROVE  /\ pc = "read" /\ todo[c] = "reading"
           /\ UNCHANGED <<rg, opened, pc, rows, todo, readError, holds, status, cursor,
                          faults>>
           /\ \E k \in Reader, n \in Nat :
                  Whole(rg, k, c) /\ k.left = cr[c].left /\ Takes(c, k, n)
<1> DEFINE k == EnsureLoaded(cr[c], c)
           n == Smaller(Available(k, c), rows - Len(out[c]))
<1>1. /\ pc = "read" /\ todo[c] = "reading" /\ ~ReadEnough(c)
      /\ cr' = [cr EXCEPT ![c] = Take(k, n)]
      /\ out' = [out EXCEPT ![c] = out[c] \o RowsFrom(k, c, n)]
      /\ UNCHANGED <<rg, opened, pc, rows, todo, readError, holds, status, cursor, faults>>
  BY DEF CopyPage
<1>2. /\ rg \in RGs /\ cr[c] \in Reader /\ Whole(rg, cr[c], c) /\ cr[c].left \in Nat
      /\ rows \in Nat /\ Len(out[c]) \in Nat
  <2>1. out[c] \in Seq(Nat \X Nat) /\ rows \in Nat
    BY SequentialBatchAssumption DEF Counts, Types
  <2>2. QED BY <1>1, <2>1, CountsNow
<1>3. cr[c].left > 0 /\ Len(out[c]) < rows
  BY <1>1, <1>2 DEF ReadEnough
<1>4. k \in Reader /\ Whole(rg, k, c) /\ k.left = cr[c].left /\ k.loaded
  BY <1>2, <1>3, EnsureWhole
<1>5. Available(k, c) \in Nat
  BY <1>2, <1>4, ReaderFacts
<1> HIDE DEF k
<1>6. n \in Nat /\ n <= Available(k, c) /\ n <= rows - Len(out[c])
  BY <1>2, <1>3, <1>5 DEF Smaller
<1> HIDE DEF n
<1>7. Takes(c, k, n)
  BY <1>1, <1>4, <1>6 DEF Takes
<1>8. QED BY <1>1, <1>4, <1>6, <1>7

LEMMA CountsCopyPage ==
    ASSUME Counts, NEW c \in Cols, CopyPage(c)
    PROVE  Counts'
<1>1. /\ pc = "read" /\ UNCHANGED <<rg, opened, pc, rows, todo, readError, holds, faults>>
      /\ rg \in RGs /\ readError \in BOOLEAN /\ faults \in Nat
      /\ todo \in [Cols -> {"todo", "reading", "done"}]
      /\ out \in [Cols -> Seq(Nat \X Nat)]
  BY CopyPageIs, CountsNow DEF Counts, Types
<1>2. PICK k \in Reader, n \in Nat :
          Whole(rg, k, c) /\ k.left = cr[c].left /\ Takes(c, k, n)
  BY CopyPageIs
<1>3. Take(k, n) \in Reader /\ Whole(rg, Take(k, n), c)
  BY <1>1, <1>2, TakeWhole DEF Takes
<1>4. RowsFrom(k, c, n) \in Seq(Nat \X Nat) /\ out[c] \in Seq(Nat \X Nat)
  BY <1>1, <1>2, ReaderFacts, RowsFromType
<1>5. out[c] \o RowsFrom(k, c, n) \in Seq(Nat \X Nat)
  BY <1>4, ConcatProperties
<1>6. /\ cr' = [cr EXCEPT ![c] = Take(k, n)]
      /\ out' \in [Cols -> Seq(Nat \X Nat)]
  BY <1>1, <1>2, <1>5 DEF Takes
<1>7. QED BY <1>1, <1>3, <1>6, CountsColumn

LEMMA CopyFailsIs ==
    ASSUME Counts, NEW c \in Cols, CopyFails(c)
    PROVE  /\ pc = "read" /\ todo[c] = "reading" /\ faults' > 0 /\ faults' \in Nat
           /\ UNCHANGED <<rg, opened, pc, rows, out, holds, status, cursor>>
           /\ todo' = [todo EXCEPT ![c] = "done"]
           /\ readError' = (readError \/ out[c] = <<>>) /\ readError' \in BOOLEAN
           /\ \E k \in Reader : /\ Whole(rg, k, c) /\ k.left = cr[c].left
                                /\ cr' = [cr EXCEPT ![c] = k]
<1>1. /\ pc = "read" /\ todo[c] = "reading" /\ faults' = faults + 1
      /\ cr' = [cr EXCEPT ![c] = Passed(cr[c], c)]
      /\ UNCHANGED <<rg, opened, pc, rows, out, holds, status, cursor>>
      /\ todo' = [todo EXCEPT ![c] = "done"]
      /\ readError' = (readError \/ out[c] = <<>>)
  BY DEF CopyFails
<1>2. faults \in Nat /\ readError \in BOOLEAN
  BY DEF Counts, Types
<1>3. /\ Passed(cr[c], c) \in Reader /\ Whole(rg, Passed(cr[c], c), c)
      /\ Passed(cr[c], c).left = cr[c].left
  BY <1>1, CountsNow, PassedWhole
<1>4. faults' > 0 /\ faults' \in Nat
  BY <1>1, <1>2
<1>5. readError' \in BOOLEAN
  BY <1>1
<1>6. QED BY <1>1, <1>3, <1>4, <1>5

LEMMA CountsCopyFails ==
    ASSUME Counts, NEW c \in Cols, CopyFails(c)
    PROVE  Counts'
<1>1. PICK k \in Reader : /\ Whole(rg, k, c) /\ k.left = cr[c].left
                          /\ cr' = [cr EXCEPT ![c] = k]
  BY CopyFailsIs
<1>2. /\ pc = "read" /\ faults' \in Nat /\ readError' \in BOOLEAN
      /\ UNCHANGED <<rg, opened, pc, rows, out, holds>>
      /\ todo' = [todo EXCEPT ![c] = "done"]
  BY CopyFailsIs
<1>3. /\ todo' \in [Cols -> {"todo", "reading", "done"}]
      /\ out' \in [Cols -> Seq(Nat \X Nat)]
  BY <1>2 DEF Counts, Types
<1>4. QED BY <1>1, <1>2, <1>3, CountsColumn

\* A column is done, and nothing else.
LEMMA CountsDone ==
    ASSUME Counts, NEW c \in Cols, SkipColumn(c) \/ CopyDone(c)
    PROVE  Counts'
<1>1. /\ UNCHANGED <<rg, opened, cr, pc, rows, readError, out, holds, faults>>
      /\ pc = "read" /\ todo' = [todo EXCEPT ![c] = "done"]
  BY DEF SkipColumn, CopyDone
<1>2. todo' \in [Cols -> {"todo", "reading", "done"}]
  BY <1>1 DEF Counts, Types
<1>3. QED BY <1>1, <1>2, CountedStays DEF Counts, Types, Placed

LEMMA CountsReturns ==
    ASSUME Counts, ReturnEnd \/ OpenFails \/ AllocFails \/ ServeEmpty \/ ReturnBatch
    PROVE  Counts'
<1> USE DEF Counts
<1>1. CASE ReturnEnd
  BY <1>1, CountedStays DEF ReturnEnd, Return, Types, Placed
<1>2. CASE OpenFails
  <2>1. pc' = "user" /\ ~opened /\ faults' = faults + 1
        /\ UNCHANGED <<rg, opened, cr, rows, todo, readError, out, holds>>
    BY <1>2 DEF OpenFails, Return
  <2>2. QED BY <2>1 DEF Types, Placed, Counted
<1>3. CASE AllocFails
  BY <1>3, CountedStays DEF AllocFails, Return, Types, Placed
<1>4. CASE ServeEmpty
  <2>1. /\ pc = "load" /\ pc' = "user" /\ holds' = TRUE
        /\ out' = [c \in Cols |-> <<>>]
        /\ UNCHANGED <<rg, opened, cr, rows, todo, readError, faults>>
    BY <1>4 DEF ServeEmpty, Return
  <2>2. out' \in [Cols -> Seq(Nat \X Nat)]
    BY <2>1
  <2>3. QED BY <2>1, <2>2, CountedStays DEF Types, Placed
<1>5. CASE ReturnBatch
  <2>1. /\ pc = "read" /\ pc' = "user" /\ (holds' = TRUE \/ holds' = holds)
        /\ UNCHANGED <<rg, opened, cr, rows, todo, readError, out, faults>>
    BY <1>5 DEF ReturnBatch, Return
  <2>2. QED BY <2>1, CountedStays DEF Types, Placed
<1>6. QED BY <1>1, <1>2, <1>3, <1>4, <1>5

LEMMA CountsNext == Counts /\ [Next]_vars => Counts'
<1> SUFFICES ASSUME Counts, [Next]_vars PROVE Counts'
  OBVIOUS
<1>1. CASE CallNext
  BY <1>1, CountsCall
<1>2. CASE ReturnEnd \/ OpenFails \/ AllocFails \/ ServeEmpty \/ ReturnBatch
  BY <1>2, CountsReturns
<1>3. CASE Open
  BY <1>3, CountsOpen
<1>4. CASE PreloadFails
  BY <1>4, CountsPreloadFails
<1>5. CASE LoadPages
  BY <1>5, CountsLoadPages
<1>6. ASSUME NEW c \in Cols, ColumnStep(c) PROVE Counts'
  BY <1>6, CountsStartColumn, CountsCopyPage, CountsCopyFails, CountsDone DEF ColumnStep
<1>7. CASE Stopped \/ UNCHANGED vars
  BY <1>7 DEF Stopped, vars, Counts, Types, Placed, Counted
<1>8. QED BY <1>1, <1>2, <1>3, <1>4, <1>5, <1>6, <1>7 DEF Next, NextStep

LEMMA CountsKept == Spec => []Counts
<1>1. QED BY CountsInit, CountsNext, PTL DEF Spec

\* The counters of next() and of its column readers keep their types, and a
\* batch never has more rows than the caller's buffers have room for.
THEOREM TypeCorrect == Spec => []TypeOK
<1>1. Counts => TypeOK
  BY DEF Counts, Types, TypeOK, Reader
<1>2. QED BY <1>1, CountsKept, PTL

\* What a column reader believes is left of its chunk is what lies behind its
\* position in the pages: through views, copies across pages, loads that fail
\* and calls after them, for any pages and any number of faults.
THEOREM CountsAgreeAlways == Spec => []CountsAgree
<1>1. Counts => CountsAgree
  <2> SUFFICES ASSUME Counts, opened, rg \in RGs, pc # "open", NEW c \in Cols
               PROVE  /\ Position(cr[c], c) + cr[c].left = Total(Pages[rg][c])
                      /\ Available(cr[c], c) >= 0
    BY DEF CountsAgree
  <2>1. cr[c] \in Reader /\ Whole(rg, cr[c], c)
    BY DEF Counts, Types, Counted
  <2>2. /\ Available(cr[c], c) \in Nat /\ Position(cr[c], c) \in Nat /\ cr[c].left \in Nat
        /\ Position(cr[c], c) = Total(Pages[rg][c]) - cr[c].left
        /\ Total(Pages[rg][c]) \in Nat
    BY <2>1, ReaderFacts DEF Reader
  <2>3. QED BY <2>2
<1>2. QED BY <1>1, CountsKept, PTL

-------------------------------------------------------------------------------
(* Filling a batch.                                                        *)

\* The rows a column had before it when the batch was begun.
Ahead(c) == cr[c].left + Len(out[c])

\* A batch has a row to fill and the first column has the rows for it; no
\* column is filled beyond it; and the first column is not done without a row,
\* unless it has an error to report.
Filling == pc = "read" =>
    /\ rows >= 1 /\ rows <= Ahead(1)
    /\ \A c \in Cols : /\ Len(out[c]) <= rows
                       /\ todo[c] = "todo" => out[c] = <<>>
    /\ todo[1] = "done" => readError \/ out[1] # <<>>

LEMMA FillingNow ==
    ASSUME Counts, NEW c \in Cols
    PROVE  /\ cr[c].left \in Nat /\ out[c] \in Seq(Nat \X Nat) /\ Len(out[c]) \in Nat
           /\ Ahead(c) \in Nat /\ rows \in Nat
<1>1. cr[c] \in Reader /\ out[c] \in Seq(Nat \X Nat) /\ rows \in Nat
  BY SequentialBatchAssumption DEF Counts, Types
<1>2. QED BY <1>1 DEF Reader, Ahead

\* How a column may become done.
Finished(d) ==
    \/ todo[d] = "done" /\ UNCHANGED out[d]
    \/ Len(out'[d]) = rows
    \/ cr'[d].left = 0
    \/ readError'
    \/ faults' > 0 /\ out'[d] # <<>>

\* What any step of a column does to a column: rows move from its chunk to the
\* batch.
Fills(d) ==
    /\ cr'[d].left + Len(out'[d]) = Ahead(d)
    /\ Len(out'[d]) <= rows
    /\ todo'[d] = "todo" => out'[d] = <<>>
    /\ todo'[d] = "done" => Finished(d)

\* A column the step is not about.
LEMMA OtherFills ==
    ASSUME Counts, Filling, pc = "read", NEW d \in Cols,
           cr'[d] = cr[d], out'[d] = out[d], todo'[d] = todo[d]
    PROVE  Fills(d)
BY DEF Fills, Filling, Finished, Ahead

LEMMA ColumnFills ==
    ASSUME Counts, Filling, NEW c \in Cols, ColumnStep(c)
    PROVE  /\ pc = "read" /\ UNCHANGED <<rg, opened, pc, rows, holds, status, cursor>>
           /\ \A d \in Cols : Fills(d)
           /\ readError => readError'
           /\ faults' \in Nat /\ faults \in Nat
           /\ faults' = 0 => faults = 0 /\ (readError' => readError)
<1>1. /\ cr \in [Cols -> Reader] /\ out \in [Cols -> Seq(Nat \X Nat)]
      /\ todo \in [Cols -> {"todo", "reading", "done"}] /\ faults \in Nat
      /\ cr[c].left \in Nat /\ Len(out[c]) \in Nat /\ rows \in Nat
  BY FillingNow DEF Counts, Types
<1>2. CASE SkipColumn(c)
  <2>1. /\ pc = "read" /\ UNCHANGED <<rg, opened, pc, rows, holds, status, cursor>>
        /\ UNCHANGED <<cr, out, readError, faults>> /\ readError
        /\ todo' = [todo EXCEPT ![c] = "done"]
    BY <1>2 DEF SkipColumn
  <2>2. ASSUME NEW d \in Cols PROVE Fills(d)
    BY <1>1, <2>1 DEF Fills, Filling, Finished, Ahead
  <2>3. QED BY <1>1, <2>1, <2>2
<1>3. CASE StartColumn(c)
  <2>1. /\ pc = "read" /\ todo[c] = "todo" /\ ~readError
        /\ UNCHANGED <<rg, opened, pc, rows, readError, holds, status, cursor>>
        /\ faults' \in Nat /\ (faults' = 0 => faults = 0)
    BY <1>3, StartColumnIs
  <2>2. PICK k \in Reader : /\ Whole(rg, k, c) /\ k.left = cr[c].left
                            /\ Views(c, k) \/ Copies(c, k)
    BY <1>3, StartColumnIs
  <2>3. out[c] = <<>> /\ Len(out[c]) = 0
    BY <2>1 DEF Filling
  <2>4. Fills(c)
    <3>1. CASE Views(c, k)
      <4>1. rg \in RGs /\ Position(k, c) \in Nat
        BY <2>1, <2>2, CountsNow, ReaderFacts
      <4>2. Take(k, rows).left = k.left - rows /\ rows <= k.left
        BY <1>1, <2>2, <3>1, <4>1, TakeWhole DEF Views
      <4>3. Len(RowsFrom(k, c, rows)) = rows
        BY <1>1, <4>1, RowsFromType
      <4>4. /\ cr'[c] = Take(k, rows) /\ out'[c] = RowsFrom(k, c, rows)
            /\ todo'[c] = "done"
        BY <1>1, <3>1 DEF Views
      <4>5. cr'[c].left = cr[c].left - rows /\ Len(out'[c]) = rows
        BY <2>2, <4>2, <4>3, <4>4
      <4>6. QED BY <1>1, <2>3, <4>4, <4>5 DEF Fills, Finished, Ahead
    <3>2. CASE Copies(c, k)
      <4>1. cr'[c] = k /\ out'[c] = out[c] /\ todo'[c] = "reading"
        BY <1>1, <3>2 DEF Copies
      <4>2. QED BY <1>1, <2>2, <2>3, <4>1 DEF Fills, Finished, Ahead
    <3>3. QED BY <2>2, <3>1, <3>2
  <2>5. ASSUME NEW d \in Cols, d # c PROVE Fills(d)
    <3>1. cr'[d] = cr[d] /\ out'[d] = out[d] /\ todo'[d] = todo[d]
      BY <1>1, <2>2, <2>5 DEF Views, Copies
    <3>2. QED BY <2>1, <3>1, OtherFills
  <2>6. QED BY <1>1, <2>1, <2>4, <2>5
<1>4. CASE CopyPage(c)
  <2>1. /\ pc = "read" /\ todo[c] = "reading"
        /\ UNCHANGED <<rg, opened, pc, rows, todo, readError, holds, status, cursor, faults>>
    BY <1>4, CopyPageIs
  <2>2. PICK k \in Reader, n \in Nat :
            Whole(rg, k, c) /\ k.left = cr[c].left /\ Takes(c, k, n)
    BY <1>4, CopyPageIs
  <2>3. Fills(c)
    <3>1. rg \in RGs /\ Position(k, c) \in Nat
      BY <2>1, <2>2, CountsNow, ReaderFacts
    <3>2. Take(k, n).left = k.left - n /\ n <= k.left
      BY <2>2, <3>1, TakeWhole DEF Takes
    <3>3. RowsFrom(k, c, n) \in Seq(Nat \X Nat) /\ Len(RowsFrom(k, c, n)) = n
      BY <3>1, RowsFromType
    <3>4. out[c] \in Seq(Nat \X Nat)
      BY <1>1
    <3>5. Len(out[c] \o RowsFrom(k, c, n)) = Len(out[c]) + n
      <4>1. PICK u \in Seq(Nat \X Nat), v \in Seq(Nat \X Nat) :
                u = out[c] /\ v = RowsFrom(k, c, n)
        BY <3>3, <3>4
      <4>2. Len(u \o v) = Len(u) + Len(v)
        BY ConcatProperties
      <4>3. QED BY <3>3, <4>1, <4>2
    <3>6. /\ cr'[c] = Take(k, n) /\ out'[c] = out[c] \o RowsFrom(k, c, n)
          /\ todo'[c] = "reading" /\ n <= rows - Len(out[c])
      BY <1>1, <2>1, <2>2 DEF Takes
    <3>7. cr'[c].left = cr[c].left - n /\ Len(out'[c]) = Len(out[c]) + n
      BY <2>2, <3>2, <3>5, <3>6
    <3>8. QED BY <1>1, <3>6, <3>7 DEF Fills, Ahead
  <2>4. ASSUME NEW d \in Cols, d # c PROVE Fills(d)
    <3>1. cr'[d] = cr[d] /\ out'[d] = out[d] /\ todo'[d] = todo[d]
      BY <1>1, <2>1, <2>2, <2>4 DEF Takes
    <3>2. QED BY <2>1, <3>1, OtherFills
  <2>5. QED BY <1>1, <2>1, <2>3, <2>4
<1>5. CASE CopyFails(c)
  <2>1. /\ pc = "read" /\ todo[c] = "reading" /\ faults' > 0 /\ faults' \in Nat
        /\ UNCHANGED <<rg, opened, pc, rows, out, holds, status, cursor>>
        /\ todo' = [todo EXCEPT ![c] = "done"]
        /\ readError' = (readError \/ out[c] = <<>>)
    BY <1>5, CopyFailsIs
  <2>2. PICK k \in Reader : k.left = cr[c].left /\ cr' = [cr EXCEPT ![c] = k]
    BY <1>5, CopyFailsIs
  <2>3. Fills(c)
    <3>1. cr'[c].left = cr[c].left /\ out'[c] = out[c] /\ todo'[c] = "done"
      BY <1>1, <2>1, <2>2
    <3>2. Finished(c)
      BY <2>1 DEF Finished
    <3>3. QED BY <2>1, <3>1, <3>2 DEF Fills, Ahead, Filling
  <2>4. ASSUME NEW d \in Cols, d # c PROVE Fills(d)
    <3>1. cr'[d] = cr[d] /\ out'[d] = out[d] /\ todo'[d] = todo[d]
      BY <1>1, <2>1, <2>2, <2>4
    <3>2. QED BY <2>1, <3>1, OtherFills
  <2>5. \A d \in Cols : Fills(d)
    BY <2>3, <2>4
  <2>6. faults' # 0
    BY <2>1
  <2>7. readError => readError'
    <3>1. readError' = (readError \/ out[c] = <<>>)
      BY <2>1
    <3>2. QED BY <3>1, Zenon
  <2>8. QED BY <1>1, <2>1, <2>5, <2>6, <2>7
<1>6. CASE CopyDone(c)
  <2>1. /\ pc = "read" /\ UNCHANGED <<rg, opened, pc, rows, holds, status, cursor>>
        /\ UNCHANGED <<cr, out, readError, faults>> /\ ReadEnough(c)
        /\ todo' = [todo EXCEPT ![c] = "done"]
    BY <1>6 DEF CopyDone
  <2>2. Fills(c)
    BY <1>1, <2>1 DEF Fills, Filling, Finished, Ahead, ReadEnough
  <2>3. ASSUME NEW d \in Cols, d # c PROVE Fills(d)
    <3>1. cr'[d] = cr[d] /\ out'[d] = out[d] /\ todo'[d] = todo[d]
      BY <1>1, <2>1, <2>3
    <3>2. QED BY <2>1, <3>1, OtherFills
  <2>4. QED BY <1>1, <2>1, <2>2, <2>3
<1>7. QED BY <1>2, <1>3, <1>4, <1>5, <1>6 DEF ColumnStep

\* Every other step leaves next() outside the reading of a batch, or keeps it
\* where it is.
LEMMA Elsewhere ==
    ASSUME CallNext \/ ReturnEnd \/ Open \/ OpenFails \/ AllocFails \/ ServeEmpty
             \/ PreloadFails \/ ReturnBatch
    PROVE  pc' # "read"
BY DEF CallNext, ReturnEnd, Open, OpenFails, AllocFails, ServeEmpty, PreloadFails,
       ReturnBatch, Return

LEMMA FillingLoad == ASSUME Counts, LoadPages PROVE Filling'
<1>1. PICK failing \in SUBSET Cols :
        cr' = Peek(failing) /\ rows' = Clamp(Peek(failing), BatchRows)
  BY LoadPagesIs
<1>2. /\ pc = "load" /\ cr[1].left > 0
      /\ todo' = [c \in Cols |-> "todo"] /\ out' = [c \in Cols |-> <<>>]
  BY LoadPagesIs
<1>3. \A c \in Cols : /\ cr'[c].left = cr[c].left
                      /\ Available(Peek(failing)[c], c) \in Nat
  BY <1>1, <1>2, PeekWhole
<1>4. BatchRows \in Nat /\ BatchRows > 0 /\ BatchRows <= cr[1].left /\ cr[1].left \in Nat
  BY <1>2, BatchRowsIs, FillingNow, Columns, SequentialBatchAssumption
<1>5. rows' \in 0 .. BatchRows /\ rows' > 0
  BY <1>1, <1>3, <1>4, ClampIs
<1>6. /\ 1 \in Cols /\ todo'[1] = "todo" /\ cr'[1].left = cr[1].left
      /\ \A c \in Cols : out'[c] = <<>>
  BY <1>2, <1>3, Columns
<1>7. Len(out'[1]) = 0
  BY <1>6
<1>8. rows' >= 1 /\ rows' <= cr'[1].left + Len(out'[1])
  BY <1>4, <1>5, <1>6, <1>7
<1>9. QED BY <1>5, <1>6, <1>8 DEF Filling, Ahead

LEMMA FillingColumn ==
    ASSUME Counts, Filling, NEW c \in Cols, ColumnStep(c)
    PROVE  Filling'
<1>1. /\ pc = "read" /\ UNCHANGED <<pc, rows>> /\ \A d \in Cols : Fills(d)
      /\ readError => readError'
  BY ColumnFills
<1>2. 1 \in Cols /\ rows >= 1 /\ rows <= Ahead(1) /\ rows \in Nat /\ Ahead(1) \in Nat
  BY <1>1, Columns, FillingNow DEF Filling
<1>3. cr'[1].left + Len(out'[1]) = Ahead(1)
  BY <1>1, <1>2 DEF Fills
<1>4. out'[1] \in Seq(Nat \X Nat)
  <2>1. Counts'
    BY CountsStartColumn, CountsCopyPage, CountsCopyFails, CountsDone DEF ColumnStep
  <2>2. QED BY <1>2, <2>1 DEF Counts, Types
<1>5. ASSUME todo'[1] = "done", ~readError' PROVE out'[1] # <<>>
  <2>1. Finished(1)
    BY <1>1, <1>2, <1>5 DEF Fills
  <2>2. CASE todo[1] = "done" /\ UNCHANGED out[1]
    BY <1>1, <1>5, <2>2 DEF Filling
  <2>3. CASE Len(out'[1]) = rows \/ cr'[1].left = 0
    <3>1. Len(out'[1]) # 0
      BY <1>2, <1>3, <1>4, <2>3
    <3>2. QED BY <3>1
  <2>4. QED BY <1>5, <2>1, <2>2, <2>3 DEF Finished
<1>6. QED BY <1>1, <1>2, <1>3, <1>5 DEF Filling, Fills, Ahead

LEMMA FillingNext == ASSUME Counts, Filling, [Next]_vars PROVE Filling'
<1>1. ASSUME pc' # "read" PROVE Filling'
  BY <1>1 DEF Filling
<1>2. CASE Stopped \/ UNCHANGED vars
  BY <1>2 DEF Stopped, vars, Filling, Ahead
<1>3. QED
  BY <1>1, <1>2, Elsewhere, FillingLoad, FillingColumn DEF Next, NextStep

LEMMA FillingKept == Spec => [](Counts /\ Filling)
<1>1. Init => Filling
  BY DEF Init, Filling
<1>2. QED BY <1>1, CountsInit, CountsNext, FillingNext, PTL DEF Spec

-------------------------------------------------------------------------------
(* Columns in step.                                                        *)

\* Every column of a row group has the row group's rows.
Rectangular == \A g \in RGs : \A c \in Cols : Total(Pages[g][c]) = NumRows(g)

\* Without a fault every column has the same rows ahead of it, and one that is
\* done has filled the batch.
InStep == faults = 0 =>
    /\ pc # "read" => \A c \in Cols : cr[c].left = cr[1].left
    /\ pc = "read" => /\ ~readError
                      /\ \A c \in Cols : /\ Ahead(c) = Ahead(1)
                                         /\ todo[c] = "done" => Len(out[c]) = rows

LEMMA InStepLoad == ASSUME Counts, InStep, LoadPages PROVE InStep'
<1> SUFFICES ASSUME faults' = 0 PROVE InStep'
  BY DEF InStep
<1>1. PICK failing \in SUBSET Cols :
        /\ faults' = faults + Cardinality(failing) /\ Cardinality(failing) \in Nat
        /\ cr' = Peek(failing)
  BY LoadPagesIs
<1>2. /\ pc = "load" /\ pc' = "read" /\ readError' = FALSE
      /\ todo' = [c \in Cols |-> "todo"] /\ out' = [c \in Cols |-> <<>>]
  BY LoadPagesIs
<1>3. faults = 0
  BY <1>1 DEF Counts, Types
<1>4. \A c \in Cols : cr'[c].left = cr[c].left /\ out'[c] = <<>> /\ todo'[c] = "todo"
  BY <1>1, <1>2, PeekWhole
<1>5. QED BY <1>2, <1>3, <1>4, Columns DEF InStep, Ahead

LEMMA InStepColumn ==
    ASSUME Counts, Filling, InStep, NEW c \in Cols, ColumnStep(c)
    PROVE  InStep'
<1> SUFFICES ASSUME faults' = 0 PROVE InStep'
  BY DEF InStep
<1>1. /\ pc = "read" /\ UNCHANGED <<pc, rows>> /\ \A d \in Cols : Fills(d)
      /\ faults = 0 /\ (readError' => readError)
  BY ColumnFills
<1>2. /\ ~readError /\ 1 \in Cols
      /\ \A d \in Cols : Ahead(d) = Ahead(1) /\ (todo[d] = "done" => Len(out[d]) = rows)
  BY <1>1, Columns DEF InStep
<1>3. ASSUME NEW d \in Cols
      PROVE  /\ cr'[d].left + Len(out'[d]) = cr'[1].left + Len(out'[1])
             /\ todo'[d] = "done" => Len(out'[d]) = rows
  <2>1. cr'[d].left + Len(out'[d]) = cr'[1].left + Len(out'[1])
    BY <1>1, <1>2 DEF Fills
  <2>2. ASSUME todo'[d] = "done" PROVE Len(out'[d]) = rows
    <3>1. Finished(d)
      BY <1>1, <2>2 DEF Fills
    <3>2. CASE todo[d] = "done" /\ UNCHANGED out[d]
      BY <1>2, <3>2
    <3>3. CASE cr'[d].left = 0
      <4>1. Len(out'[d]) <= rows /\ 0 + Len(out'[d]) = Ahead(1)
        BY <1>1, <1>2, <3>3 DEF Fills
      <4>2. rows <= Ahead(1) /\ rows \in Nat /\ Ahead(1) \in Nat
        BY <1>1, <1>2, FillingNow DEF Filling
      <4>3. out'[d] \in Seq(Nat \X Nat)
        <5>1. Counts'
          BY CountsStartColumn, CountsCopyPage, CountsCopyFails, CountsDone DEF ColumnStep
        <5>2. QED BY <5>1 DEF Counts, Types
      <4>4. QED BY <4>1, <4>2, <4>3
    <3>4. CASE readError' \/ (faults' > 0 /\ out'[d] # <<>>)
      BY <1>1, <1>2, <3>4
    <3>5. QED BY <3>1, <3>2, <3>3, <3>4 DEF Finished
  <2>3. QED BY <2>1, <2>2
<1>4. QED BY <1>1, <1>2, <1>3 DEF InStep, Ahead

LEMMA InStepReturns ==
    ASSUME Rectangular, Counts, InStep,
           CallNext \/ ReturnEnd \/ Open \/ OpenFails \/ AllocFails \/ ServeEmpty
             \/ PreloadFails \/ ReturnBatch
    PROVE  InStep'
<1> SUFFICES ASSUME faults' = 0 PROVE InStep'
  BY DEF InStep
<1>1. pc' # "read"
  BY Elsewhere
<1>2. CASE CallNext \/ ReturnEnd \/ AllocFails \/ ServeEmpty
  <2>1. pc # "read" /\ cr' = cr /\ faults' = faults
    BY <1>2 DEF CallNext, ReturnEnd, AllocFails, ServeEmpty
  <2>2. QED BY <1>1, <2>1 DEF InStep
<1>3. CASE OpenFails \/ PreloadFails
  <2>1. faults' = faults + 1 /\ faults \in Nat
    BY <1>3 DEF OpenFails, PreloadFails, Counts, Types
  <2>2. QED BY <2>1
<1>4. CASE Open
  <2>1. rg \in RGs /\ 1 \in Cols
    BY <1>4, Columns DEF Open, Counts, Placed
  <2>2. \A c \in Cols : cr'[c].left = Total(Pages[rg][c])
    BY <1>4 DEF Open
  <2>3. QED BY <1>1, <2>1, <2>2 DEF InStep, Rectangular
<1>5. CASE ReturnBatch
  <2>1. /\ pc = "read" /\ UNCHANGED <<cr, faults>> /\ \A c \in Cols : todo[c] = "done"
    BY <1>5 DEF ReturnBatch
  <2>2. /\ 1 \in Cols
        /\ \A c \in Cols : Ahead(c) = Ahead(1) /\ Len(out[c]) = rows
    BY <2>1, Columns DEF InStep
  <2>3. ASSUME NEW c \in Cols PROVE cr[c].left = cr[1].left
    <3>1. cr[c].left + rows = cr[1].left + rows
      BY <2>2 DEF Ahead
    <3>2. cr[c].left \in Nat /\ cr[1].left \in Nat /\ rows \in Nat
      BY <2>2, FillingNow
    <3>3. QED BY <3>1, <3>2
  <2>4. QED BY <1>1, <2>1, <2>3 DEF InStep
<1>6. QED BY <1>2, <1>3, <1>4, <1>5

LEMMA InStepNext ==
    ASSUME Rectangular, Counts, Filling, InStep, [Next]_vars
    PROVE  InStep'
<1>1. CASE Stopped \/ UNCHANGED vars
  BY <1>1 DEF Stopped, vars, InStep, Ahead
<1>2. QED
  BY <1>1, InStepLoad, InStepColumn, InStepReturns DEF Next, NextStep

LEMMA InStepInit == Init => InStep
BY Columns DEF Init, InStep

LEMMA InStepKept == ASSUME Rectangular PROVE Spec => []InStep
<1>1. Counts /\ Filling /\ InStep /\ [Next]_vars => InStep'
  BY InStepNext
<1>2. QED BY <1>1, InStepInit, FillingKept, PTL DEF Spec

\* Whatever the pages of the columns, whichever columns are viewed and copied,
\* and in whatever order their readers run: between calls, and until the first
\* fault, every reader stands at the same row, provided the columns of a row
\* group have the same number of rows.
THEOREM ColumnsStayInStep == ASSUME Rectangular PROVE Spec => []ColumnsInStep
<1>1. InStep => ColumnsInStep
  BY DEF InStep, ColumnsInStep
<1>2. QED BY <1>1, InStepKept, PTL

-------------------------------------------------------------------------------
(* The row groups of the stream.                                           *)

LEMMA SelectedIs ==
    /\ IsFiniteSet(Selected) /\ Cardinality(Selected) \in Nat
    /\ Selected \subseteq 1 .. Len(Pages) /\ RGs = 1 .. Len(Pages) /\ Len(Pages) \in Nat
<1>1. Selected \subseteq 1 .. Len(Pages) /\ Len(Pages) \in Nat /\ RGs = 1 .. Len(Pages)
  BY SequentialBatchAssumption, Columns DEF RGs
<1>2. IsFiniteSet(1 .. Len(Pages))
  BY <1>1, FS_Interval
<1>3. QED BY <1>1, <1>2, FS_Subset, FS_CardinalityType

\* The accepted row groups up to g.
UpToGroup(g) == {h \in Selected : h <= g}

LEMMA InUpToGroup ==
    ASSUME NEW g
    PROVE  \A x : x \in UpToGroup(g) <=> x \in Selected /\ x <= g
BY DEF UpToGroup

LEMMA UpToGroupIs ==
    ASSUME NEW g
    PROVE  /\ IsFiniteSet(UpToGroup(g)) /\ Rank(g) = Cardinality(UpToGroup(g))
           /\ Rank(g) \in Nat /\ Rank(g) <= Cardinality(Selected)
<1>1. UpToGroup(g) \subseteq Selected
  BY DEF UpToGroup
<1>2. IsFiniteSet(UpToGroup(g)) /\ Cardinality(UpToGroup(g)) <= Cardinality(Selected)
  BY <1>1, SelectedIs, FS_Subset
<1>3. QED BY <1>2, RankType DEF Rank, UpToGroup

LEMMA RankGrows ==
    ASSUME NEW g \in Selected, NEW h \in Selected, g < h
    PROVE  Rank(g) < Rank(h)
<1>1. g \in Int /\ h \in Int /\ Selected \subseteq Int
  BY SelectedIs
<1>2. UpToGroup(g) \subseteq UpToGroup(h) /\ h \in UpToGroup(h) /\ h \notin UpToGroup(g)
  <2>1. ASSUME NEW x \in UpToGroup(g) PROVE x \in UpToGroup(h)
    <3>1. x \in Selected /\ x <= g
      BY InUpToGroup
    <3>2. x \in Int /\ x <= h
      BY <1>1, <3>1
    <3>3. QED BY <3>1, <3>2, InUpToGroup
  <2>2. h <= h /\ ~(h <= g)
    BY <1>1
  <2>3. QED BY <2>1, <2>2, InUpToGroup
<1>3. IsFiniteSet(UpToGroup(h)) /\ UpToGroup(g) # UpToGroup(h)
  BY <1>2, UpToGroupIs
<1>4. Cardinality(UpToGroup(g)) < Cardinality(UpToGroup(h))
  <2>1. /\ Cardinality(UpToGroup(g)) <= Cardinality(UpToGroup(h))
        /\ Cardinality(UpToGroup(g)) # Cardinality(UpToGroup(h))
    BY <1>2, <1>3, FS_Subset
  <2>2. Cardinality(UpToGroup(g)) \in Nat /\ Cardinality(UpToGroup(h)) \in Nat
    BY UpToGroupIs, FS_CardinalityType
  <2>3. QED BY <2>1, <2>2
<1>5. QED BY <1>4, UpToGroupIs

\* An accepted row group is the one of its rank.
LEMMA RowCountIs ==
    ASSUME NEW g \in Selected
    PROVE  /\ Rank(g) \in 1 .. Cardinality(Selected)
           /\ RowCounts[Rank(g)] = NumRows(g) /\ Len(RowCounts) = Cardinality(Selected)
<1>1. Selected \subseteq Int /\ Cardinality(Selected) \in Nat
  BY SelectedIs
<1>2. Rank(g) # 0
  <2>1. g \in UpToGroup(g)
    BY <1>1 DEF UpToGroup
  <2>2. QED BY <2>1, UpToGroupIs, FS_EmptySet
<1>3. Rank(g) \in 1 .. Cardinality(Selected)
  BY <1>1, <1>2, UpToGroupIs
<1>4. ASSUME NEW h \in Selected, Rank(h) = Rank(g) PROVE h = g
  <2>1. ~(h < g) /\ ~(g < h)
    BY <1>4, RankGrows, RankType
  <2>2. QED BY <1>1, <2>1
<1>5. (CHOOSE h \in Selected : Rank(h) = Rank(g)) = g
  BY <1>4
<1>6. RowCounts[Rank(g)] = NumRows(g)
  BY <1>3, <1>5 DEF RowCounts
<1>7. Len(RowCounts) = Cardinality(Selected)
  BY <1>1 DEF RowCounts
<1>8. QED BY <1>3, <1>6, <1>7

\* Going to the next accepted row group goes to the next rank, and where there
\* is none the last rank has been reached.
LEMMA RankOfNext ==
    ASSUME NEW g \in 0 .. Len(Pages)
    PROVE  /\ NextSelected(g) <= Len(Pages) => Rank(NextSelected(g)) = Rank(g) + 1
           /\ NextSelected(g) > Len(Pages) => Rank(g) = Cardinality(Selected)
<1> DEFINE n == NextSelected(g)
<1>1. Selected \subseteq 1 .. Len(Pages) /\ Len(Pages) \in Nat
  BY SelectedIs
<1>2. /\ n \in (g + 1) .. (Len(Pages) + 1)
      /\ n <= Len(Pages) => n \in Selected
      /\ \A i \in (g + 1) .. (n - 1) : i \notin Selected
  BY NextIs
<1> HIDE DEF n
<1>3. \A h \in Selected : h < n => h <= g
  BY <1>1, <1>2
<1>4. CASE n <= Len(Pages)
  <2>1. UpToGroup(n) = UpToGroup(g) \cup {n} /\ n \notin UpToGroup(g)
    <3>1. n \in Selected /\ n <= n /\ ~(n <= g) /\ g \in Int /\ n \in Int /\ g < n
      BY <1>1, <1>2, <1>4
    <3>2. ASSUME NEW x \in Selected PROVE x <= n <=> x <= g \/ x = n
      <4>1. x \in Int /\ (x < n => x <= g)
        BY <1>1, <1>3
      <4>2. QED BY <3>1, <4>1
    <3>3. \A x : x \in UpToGroup(n) <=> x \in UpToGroup(g) \cup {n}
      BY <3>1, <3>2, InUpToGroup
    <3>4. QED BY <3>1, <3>3, InUpToGroup
  <2>2. Cardinality(UpToGroup(n)) = Cardinality(UpToGroup(g)) + 1
    BY <2>1, UpToGroupIs, FS_AddElement
  <2>3. QED BY <1>1, <1>2, <1>4, <2>2, UpToGroupIs DEF n
<1>5. CASE ~(n <= Len(Pages))
  <2>1. UpToGroup(g) = Selected
    <3>1. ASSUME NEW x \in Selected PROVE x <= g
      BY <1>1, <1>2, <1>3, <1>5
    <3>2. \A x : x \in UpToGroup(g) <=> x \in Selected
      BY <3>1, InUpToGroup
    <3>3. QED BY <3>2
  <2>2. QED BY <1>1, <1>2, <1>5, <2>1, UpToGroupIs DEF n
<1>6. QED BY <1>4, <1>5

-------------------------------------------------------------------------------
(* The stream's cursor, for a caller that stops at a status that is not OK. *)

\* Where the batch being made starts in its row group.
Start == NumRows(rg) - IF pc = "read" THEN Ahead(1) ELSE cr[1].left

Tracked ==
    /\ pc # "crashed" /\ (pc # "user" => ~holds)
    /\ pc = "user" /\ status = "OK" =>
         /\ rg <= Len(Pages) /\ (rg \in RGs => opened)
         /\ cursor = IF cr[1].left = 0 THEN <<Rank(rg) + 1, 0>> ELSE <<Rank(rg), Start>>
    /\ pc = "open" => cursor = <<Rank(rg), 0>>
    /\ pc \in {"load", "read"} => cursor = <<Rank(rg), Start>>
    /\ pc = "end" => cursor = <<Cardinality(Selected) + 1, 0>>

\* Until a fault every column of a batch in the making holds rows from where
\* the batch starts.
Windows == faults = 0 /\ pc = "read" =>
    \A c \in Cols : out[c] = Stream!Window(Rank(rg), Start, Len(out[c]))

LEMMA NumRowsIs ==
    ASSUME Counts, pc \in {"load", "read"}
    PROVE  /\ rg \in Selected /\ NumRows(rg) \in Nat /\ cr[1].left \in Nat
           /\ cr[1].left <= NumRows(rg)
<1>1. rg \in RGs /\ rg \in Selected /\ 1 \in Cols
  BY Columns, CountsNow DEF Counts, Placed
<1>2. /\ cr[1] \in Reader /\ Whole(rg, cr[1], 1) /\ cr[1].left \in Nat
  BY <1>1, CountsNow
<1>3. /\ Position(cr[1], 1) \in Nat /\ Total(Pages[rg][1]) \in Nat
      /\ Position(cr[1], 1) = Total(Pages[rg][1]) - cr[1].left
  BY <1>1, <1>2, ReaderFacts
<1>4. QED BY <1>1, <1>2, <1>3 DEF NumRows

LEMMA TrackedCall == ASSUME ~Persistent, Counts, Tracked, CallNext PROVE Tracked'
<1>1. /\ pc = "user" /\ status = "OK" /\ holds' = FALSE
      /\ UNCHANGED <<opened, cr, out, status, cursor>>
  BY DEF CallNext
<1>2. /\ Len(Pages) \in Nat /\ RGs = 1 .. Len(Pages) /\ rg \in 0 .. Len(Pages)
      /\ (rg > 0 => opened)
      /\ cursor = IF cr[1].left = 0 THEN <<Rank(rg) + 1, 0>>
                  ELSE <<Rank(rg), NumRows(rg) - cr[1].left>>
  BY <1>1, SelectedIs DEF Tracked, Counts, Types, Start
<1>3. CASE ~NeedsRowGroup
  <2>1. pc' = "load" /\ rg' = rg /\ cr[1].left # 0
    BY <1>2, <1>3 DEF CallNext, NeedsRowGroup
  <2>2. QED BY <1>1, <1>2, <2>1 DEF Tracked, Start
<1>4. CASE NeedsRowGroup
  <2>1. /\ rg' = NextSelected(rg)
        /\ pc' = IF rg' > Len(Pages) THEN "end" ELSE "open"
    BY <1>2, <1>4 DEF CallNext
  <2>2. cr[1].left = 0
    BY <1>2, <1>4 DEF NeedsRowGroup, Counts, Placed
  <2>3. /\ rg' \in Int
        /\ rg' <= Len(Pages) => Rank(rg') = Rank(rg) + 1
        /\ rg' > Len(Pages) => Rank(rg) = Cardinality(Selected)
    BY <1>2, <2>1, NextIs, RankOfNext
  <2>4. CASE rg' > Len(Pages)
    BY <1>1, <1>2, <2>1, <2>2, <2>3, <2>4 DEF Tracked
  <2>5. CASE ~(rg' > Len(Pages))
    BY <1>1, <1>2, <2>1, <2>2, <2>3, <2>5 DEF Tracked
  <2>6. QED BY <2>4, <2>5
<1>5. QED BY <1>3, <1>4

LEMMA TrackedOpen == ASSUME Counts, Tracked, Open PROVE Tracked'
<1>1. /\ pc = "open" /\ pc' = "load" /\ UNCHANGED <<rg, holds, cursor>>
      /\ cr'[1].left = Total(Pages[rg][1])
  BY Columns DEF Open
<1>2. rg \in RGs /\ 1 \in Cols
  BY <1>1, Columns DEF Counts, Placed
<1>3. NumRows(rg) - cr'[1].left = 0
  <2>1. Total(Pages[rg][1]) \in Nat
    BY <1>2, Columns, AllRows
  <2>2. QED BY <1>1, <2>1 DEF NumRows
<1>4. QED BY <1>1, <1>3 DEF Tracked, Start

LEMMA TrackedLoad == ASSUME Counts, Tracked, LoadPages PROVE Tracked'
<1>1. PICK failing \in SUBSET Cols : cr' = Peek(failing)
  BY LoadPagesIs
<1>2. /\ pc = "load" /\ pc' = "read" /\ UNCHANGED <<rg, holds, cursor>>
      /\ out' = [c \in Cols |-> <<>>]
  BY LoadPagesIs
<1>3. cr'[1].left = cr[1].left /\ out'[1] = <<>> /\ cr[1].left \in Nat
  BY <1>1, <1>2, Columns, PeekWhole, FillingNow
<1>4. cr'[1].left + Len(out'[1]) = cr[1].left
  BY <1>3
<1>5. QED BY <1>2, <1>4 DEF Tracked, Start, Ahead

LEMMA TrackedColumn ==
    ASSUME Counts, Filling, Tracked, NEW c \in Cols, ColumnStep(c)
    PROVE  Tracked' /\ Start' = Start
<1>1. /\ pc = "read" /\ UNCHANGED <<rg, pc, holds, cursor>> /\ Fills(1)
  BY Columns, ColumnFills
<1>2. Start' = Start
  BY <1>1 DEF Start, Fills, Ahead
<1>3. QED BY <1>1, <1>2 DEF Tracked

\* Calls that return a batch.
LEMMA TrackedServed ==
    ASSUME Counts, Filling, Tracked, ServeEmpty \/ (ReturnBatch /\ ~readError)
    PROVE  Tracked'
<1>1. /\ pc \in {"load", "read"} /\ pc' = "user" /\ UNCHANGED <<rg, opened, cr>>
      /\ cursor' = IF cr[1].left = 0 THEN <<Rank(rg) + 1, 0>>
                   ELSE <<Rank(rg), NumRows(rg) - cr[1].left>>
  BY DEF ServeEmpty, ReturnBatch, Return
<1>2. opened /\ rg <= Len(Pages)
  BY <1>1, CountsNow, SelectedIs
<1>3. QED BY <1>1, <1>2 DEF Tracked, Start

\* Calls that return none.
LEMMA TrackedFailed ==
    ASSUME Tracked,
           ReturnEnd \/ OpenFails \/ AllocFails \/ PreloadFails \/ (ReturnBatch /\ readError)
    PROVE  Tracked'
<1>1. pc' = "user" /\ status' # "OK"
  BY DEF ReturnEnd, OpenFails, AllocFails, PreloadFails, ReturnBatch, Return
<1>2. QED BY <1>1 DEF Tracked

LEMMA TrackedNext ==
    ASSUME ~Persistent, Counts, Filling, Tracked, [Next]_vars
    PROVE  Tracked'
<1>1. CASE Stopped \/ UNCHANGED vars
  BY <1>1 DEF Stopped, vars, Tracked, Start, Ahead
<1>2. CASE CallNext
  BY <1>2, TrackedCall
<1>3. CASE Open
  BY <1>3, TrackedOpen
<1>4. CASE LoadPages
  BY <1>4, TrackedLoad
<1>5. ASSUME NEW c \in Cols, ColumnStep(c) PROVE Tracked'
  BY <1>5, TrackedColumn
<1>6. CASE ReturnBatch
  <2>1. CASE readError
    BY <1>6, <2>1, TrackedFailed
  <2>2. CASE ~readError
    BY <1>6, <2>2, TrackedServed
  <2>3. QED BY <2>1, <2>2
<1>7. CASE ServeEmpty
  BY <1>7, TrackedServed
<1>8. CASE ReturnEnd \/ OpenFails \/ AllocFails \/ PreloadFails
  BY <1>8, TrackedFailed
<1>9. QED
  BY <1>1, <1>2, <1>3, <1>4, <1>5, <1>6, <1>7, <1>8 DEF Next, NextStep

LEMMA TrackedInit == Init => Tracked
<1> SUFFICES ASSUME Init PROVE Tracked
  OBVIOUS
<1>1. UpToGroup(0) = {}
  <2>1. ASSUME NEW x \in Selected PROVE ~(x <= 0)
    BY SelectedIs
  <2>2. QED BY <2>1, InUpToGroup
<1>2. Rank(0) = 0
  BY <1>1, UpToGroupIs, FS_EmptySet
<1>3. 1 \in Cols /\ Len(Pages) \in Nat /\ 0 \notin RGs
  BY Columns, SelectedIs
<1>4. cr[1].left = 0 /\ rg = 0 /\ pc = "user" /\ cursor = <<1, 0>>
  BY <1>3 DEF Init
<1>5. QED BY <1>2, <1>3, <1>4 DEF Tracked

LEMMA TrackedKept == ASSUME ~Persistent PROVE Spec => [](Counts /\ Filling /\ Tracked)
<1>1. Counts /\ Filling /\ Tracked /\ [Next]_vars => Tracked'
  BY TrackedNext
<1>2. QED BY <1>1, TrackedInit, FillingKept, PTL DEF Spec

\* A caller that stops at the first status that is not OK never has the code
\* ask a reader that does not exist.
THEOREM StoppingCallersAreSafe == ASSUME ~Persistent PROVE Spec => []NeverNullReader
<1>1. Tracked => NeverNullReader
  BY DEF Tracked, NeverNullReader
<1>2. QED BY <1>1, TrackedKept, PTL

-------------------------------------------------------------------------------
(* The rows of a batch.                                                    *)

LEMMA EmptyWindow == \A g, first : Stream!Window(g, first, 0) = <<>>
BY DEF Stream!Window

LEMMA WindowLonger ==
    ASSUME NEW g \in Nat, NEW first \in Int, NEW m \in Nat, NEW n \in Nat
    PROVE  Stream!Window(g, first, m) \o [i \in 1 .. n |-> <<g, (first + m) + i>>]
             = Stream!Window(g, first, m + n)
<1> DEFINE u == Stream!Window(g, first, m)
           v == [i \in 1 .. n |-> <<g, (first + m) + i>>]
           w == Stream!Window(g, first, m + n)
<1>1. /\ u \in Seq(Nat \X Int) /\ Len(u) = m
      /\ \A i \in 1 .. m : u[i] = <<g, first + i>>
  BY DEF Stream!Window
<1>2. /\ v \in Seq(Nat \X Int) /\ Len(v) = n
      /\ \A i \in 1 .. n : v[i] = <<g, (first + m) + i>>
  OBVIOUS
<1>3. /\ w \in Seq(Nat \X Int) /\ Len(w) = m + n
      /\ \A i \in 1 .. m + n : w[i] = <<g, first + i>>
  BY DEF Stream!Window
<1> HIDE DEF u, v, w
<1>4. /\ u \o v \in Seq(Nat \X Int) /\ Len(u \o v) = m + n
      /\ \A i \in 1 .. m + n : (u \o v)[i] = IF i <= m THEN u[i] ELSE v[i - m]
  BY <1>1, <1>2, ConcatProperties
<1>5. ASSUME NEW i \in 1 .. m + n PROVE (u \o v)[i] = w[i]
  <2>1. CASE i <= m
    <3>1. i \in 1 .. m
      BY <2>1
    <3>2. QED BY <1>1, <1>3, <1>4, <2>1, <3>1
  <2>2. CASE ~(i <= m)
    <3>1. i - m \in 1 .. n /\ (first + m) + (i - m) = first + i
      BY <2>2
    <3>2. QED BY <1>2, <1>3, <1>4, <2>2, <3>1
  <2>3. QED BY <2>1, <2>2
<1> DEFINE x == u \o v
<1>6. x \in Seq(Nat \X Int) /\ Len(x) = Len(w) /\ \A i \in 1 .. Len(w) : x[i] = w[i]
  BY <1>3, <1>4, <1>5
<1> HIDE DEF x
<1>7. x = w
  BY <1>3, <1>6, SeqEqual
<1>8. QED BY <1>7 DEF x, u, v, w

\* A reader of any column stands as far from the end of its row group as it
\* has rows left.
LEMMA ReaderAt ==
    ASSUME Rectangular, Counts, pc = "read", NEW c \in Cols, NEW k \in Reader,
           Whole(rg, k, c)
    PROVE  /\ Position(k, c) = NumRows(rg) - k.left /\ Position(k, c) \in Nat
           /\ k.left \in Nat /\ NumRows(rg) \in Nat
<1>1. rg \in RGs
  BY CountsNow
<1>2. QED BY <1>1, ReaderFacts DEF Rectangular, Reader

LEMMA WindowsLoad == ASSUME LoadPages PROVE Windows'
<1>1. out' = [c \in Cols |-> <<>>]
  BY DEF LoadPages
<1>2. \A c \in Cols : out'[c] = <<>> /\ Len(out'[c]) = 0
  BY <1>1
<1>3. QED BY <1>2, EmptyWindow DEF Windows

\* The rows a reader delivers next are those that follow its column's rows.
LEMMA RowsFollow ==
    ASSUME Rectangular, Counts, Filling, InStep, Windows, faults = 0, pc = "read",
           NEW c \in Cols, NEW k \in Reader, Whole(rg, k, c), k.left = cr[c].left,
           NEW n \in Nat
    PROVE  /\ out[c] \o RowsFrom(k, c, n)
                = Stream!Window(Rank(rg), Start, Len(out[c]) + n)
           /\ RowsFrom(k, c, n) \in Seq(Nat \X Nat) /\ Len(RowsFrom(k, c, n)) = n
<1>1. /\ Position(k, c) = NumRows(rg) - k.left /\ Position(k, c) \in Nat
      /\ NumRows(rg) \in Nat
  BY ReaderAt
<1>2. /\ 1 \in Cols /\ Ahead(c) = Ahead(1) /\ Start = NumRows(rg) - Ahead(1)
      /\ out[c] = Stream!Window(Rank(rg), Start, Len(out[c]))
  BY Columns DEF InStep, Windows, Start
<1>3. /\ cr[c].left \in Nat /\ Len(out[c]) \in Nat
      /\ Ahead(c) = cr[c].left + Len(out[c])
  BY FillingNow DEF Ahead
<1>4. Start \in Int /\ Position(k, c) = Start + Len(out[c])
  BY <1>1, <1>2, <1>3
<1>5. RowsFrom(k, c, n) = [i \in 1 .. n |-> <<Rank(rg), (Start + Len(out[c])) + i>>]
  BY <1>4 DEF RowsFrom
<1>6. Rank(rg) \in Nat
  BY RankType
<1>7. Stream!Window(Rank(rg), Start, Len(out[c])) \o RowsFrom(k, c, n)
        = Stream!Window(Rank(rg), Start, Len(out[c]) + n)
  <2>1. PICK g \in Nat, s \in Int, m \in Nat : g = Rank(rg) /\ s = Start /\ m = Len(out[c])
    BY <1>3, <1>4, <1>6
  <2>2. RowsFrom(k, c, n) = [i \in 1 .. n |-> <<g, (s + m) + i>>]
    BY <1>5, <2>1
  <2>3. Stream!Window(g, s, m) \o [i \in 1 .. n |-> <<g, (s + m) + i>>]
          = Stream!Window(g, s, m + n)
    BY WindowLonger
  <2>4. QED BY <2>1, <2>2, <2>3
<1>8. QED BY <1>1, <1>2, <1>7, RowsFromType

LEMMA WindowsColumn ==
    ASSUME Rectangular, Counts, Filling, InStep, Windows, NEW c \in Cols, ColumnStep(c)
    PROVE  Windows'
<1> SUFFICES ASSUME faults' = 0 PROVE Windows'
  BY DEF Windows
<1>1. /\ pc = "read" /\ UNCHANGED <<rg, pc, rows>> /\ faults = 0 /\ Fills(1)
  BY Columns, ColumnFills
<1>2. Start' = Start
  BY <1>1 DEF Start, Fills, Ahead
<1>3. \A d \in Cols : out[d] = Stream!Window(Rank(rg), Start, Len(out[d]))
  BY <1>1 DEF Windows
<1>4. out \in [Cols -> Seq(Nat \X Nat)] /\ rows \in Nat
  BY FillingNow DEF Counts, Types
<1>5. ASSUME NEW l \in Nat, NEW s, out' = [out EXCEPT ![c] = s], Len(s) = l,
             s = Stream!Window(Rank(rg), Start, l)
      PROVE  Windows'
  <2>1. ASSUME NEW d \in Cols PROVE out'[d] = Stream!Window(Rank(rg), Start, Len(out'[d]))
    <3>1. out'[d] = IF d = c THEN s ELSE out[d]
      BY <1>4, <1>5
    <3>2. QED BY <1>3, <1>5, <3>1
  <2>2. Rank(rg)' = Rank(rg)
    BY <1>1 DEF Rank
  <2>3. QED BY <1>1, <1>2, <2>1, <2>2 DEF Windows
<1>6. CASE UNCHANGED out
  <2>1. Rank(rg)' = Rank(rg)
    BY <1>1 DEF Rank
  <2>2. QED BY <1>1, <1>2, <1>3, <1>6, <2>1 DEF Windows
<1>7. CASE StartColumn(c)
  <2>1. PICK k \in Reader : /\ Whole(rg, k, c) /\ k.left = cr[c].left
                            /\ Views(c, k) \/ Copies(c, k)
    BY <1>7, StartColumnIs
  <2>2. out[c] = <<>> /\ Len(out[c]) = 0
    BY <1>1, <1>7, StartColumnIs DEF Filling
  <2>3. CASE Views(c, k)
    <3>1. PICK s \in Seq(Nat \X Nat) : s = RowsFrom(k, c, rows)
      BY <1>1, <1>4, <2>1, RowsFollow
    <3>2. <<>> \o s = s
      BY <3>1, ConcatEmptySeq
    <3>3. 0 + rows = rows
      BY <1>4
    <3>4. /\ s = Stream!Window(Rank(rg), Start, rows) /\ Len(s) = rows
      BY <1>1, <1>4, <2>1, <2>2, <3>1, <3>2, <3>3, RowsFollow
    <3>5. QED BY <1>4, <1>5, <2>3, <3>1, <3>4 DEF Views
  <2>4. CASE Copies(c, k)
    BY <1>6, <2>4 DEF Copies
  <2>5. QED BY <2>1, <2>3, <2>4
<1>8. CASE CopyPage(c)
  <2>1. PICK k \in Reader, n \in Nat :
            Whole(rg, k, c) /\ k.left = cr[c].left /\ Takes(c, k, n)
    BY <1>8, CopyPageIs
  <2>2. PICK u \in Seq(Nat \X Nat), v \in Seq(Nat \X Nat) :
            u = out[c] /\ v = RowsFrom(k, c, n)
    BY <1>1, <1>4, <2>1, RowsFollow
  <2>3. u \o v = Stream!Window(Rank(rg), Start, Len(u) + n) /\ Len(v) = n
    BY <1>1, <2>1, <2>2, RowsFollow
  <2>4. Len(u \o v) = Len(u) + n /\ Len(u) + n \in Nat
    <3>1. Len(u \o v) = Len(u) + Len(v)
      BY ConcatProperties
    <3>2. QED BY <2>3, <3>1
  <2>5. out' = [out EXCEPT ![c] = u \o v]
    BY <2>1, <2>2 DEF Takes
  <2>6. QED BY <1>5, <2>3, <2>4, <2>5
<1>9. CASE SkipColumn(c) \/ CopyFails(c) \/ CopyDone(c)
  BY <1>6, <1>9 DEF SkipColumn, CopyFails, CopyDone
<1>10. QED BY <1>7, <1>8, <1>9 DEF ColumnStep

LEMMA WindowsNext ==
    ASSUME Rectangular, Counts, Filling, InStep, Windows, [Next]_vars
    PROVE  Windows'
<1>1. ASSUME pc' # "read" PROVE Windows'
  BY <1>1 DEF Windows
<1>2. CASE Stopped \/ UNCHANGED vars
  BY <1>2 DEF Stopped, vars, Windows, Start, Ahead, Rank
<1>3. QED
  BY <1>1, <1>2, Elsewhere, WindowsLoad, WindowsColumn DEF Next, NextStep

-------------------------------------------------------------------------------
(* Every step is a step of the stream, or changes nothing of it.           *)

LEMMA HeldIs ==
    /\ ~holds => Held = <<>>
    /\ ~holds /\ ~holds' => Held' = Held
    /\ holds => Held = out
BY DEF Held

LEMMA StreamStutters ==
    ASSUME UNCHANGED cursor, Held' = Held, faults' > 0 <=> faults > 0,
           pc' # "user" <=> pc # "user"
    PROVE  UNCHANGED Stream!streamVars
BY DEF Stream!streamVars

LEMMA AsksForABatch ==
    ASSUME ~Persistent, Counts, Tracked, CallNext
    PROVE  Stream!Ask
<1>1. pc = "user" /\ holds' = FALSE /\ UNCHANGED <<cursor, faults>>
  BY DEF CallNext
<1>2. pc' # "user"
  BY DEF CallNext
<1>3. Held' = <<>>
  BY <1>1 DEF Held
<1>4. QED BY <1>1, <1>2, <1>3 DEF Stream!Ask, Stream!NoBatch

LEMMA EndsAtTheEnd ==
    ASSUME Counts, Tracked, ReturnEnd
    PROVE  Stream!EndOfData
<1>1. pc = "end" /\ pc' = "user" /\ UNCHANGED <<out, holds, cursor, faults>>
  BY DEF ReturnEnd, Return
<1>2. ~holds /\ cursor = <<Cardinality(Selected) + 1, 0>>
  BY <1>1 DEF Tracked
<1>3. Held' = Held
  BY <1>1, <1>2, HeldIs
<1>4. Stream!AtEnd
  <2>1. Len(RowCounts) = Cardinality(Selected) /\ Cardinality(Selected) \in Nat
    BY SelectedIs DEF RowCounts
  <2>2. QED BY <1>2, <2>1 DEF Stream!AtEnd
<1>5. QED BY <1>1, <1>3, <1>4 DEF Stream!EndOfData

LEMMA FailsWithoutLoss ==
    ASSUME Counts, Tracked,
           OpenFails \/ AllocFails \/ PreloadFails \/ (ReturnBatch /\ readError)
    PROVE  Stream!Error
<1>1. pc \in {"open", "load", "read"} /\ pc' = "user" /\ UNCHANGED <<out, holds, cursor>>
  BY DEF OpenFails, AllocFails, PreloadFails, ReturnBatch, Return
<1>2. faults \in Nat /\ (faults' = faults \/ faults' = faults + 1)
  BY DEF OpenFails, AllocFails, PreloadFails, ReturnBatch, Counts, Types
<1>3. faults > 0 => faults' > 0
  BY <1>2
<1>4. Held' = Held
  BY <1>1 DEF Held
<1>5. QED BY <1>1, <1>3, <1>4 DEF Stream!Error

\* The batch of a row group without rows.
LEMMA ServesTheEmptyBatch ==
    ASSUME Counts, Tracked, ServeEmpty
    PROVE  Stream!Deliver
<1>1. /\ pc = "load" /\ pc' = "user" /\ cr[1].left = 0 /\ holds' = TRUE
      /\ out' = [c \in Cols |-> <<>>] /\ cursor' = <<Rank(rg) + 1, 0>>
      /\ faults' = faults
  BY DEF ServeEmpty, Return
<1>2. /\ rg \in Selected /\ NumRows(rg) \in Nat /\ NumRows(rg) - 0 = NumRows(rg)
      /\ NumRows(rg) - NumRows(rg) = 0
  BY <1>1, NumRowsIs
<1>3. cursor = <<Rank(rg), NumRows(rg)>>
  BY <1>1, <1>2 DEF Tracked, Start
<1>4. /\ RowCounts[Rank(rg)] = NumRows(rg) /\ Len(RowCounts) = Cardinality(Selected)
      /\ Rank(rg) \in 1 .. Cardinality(Selected) /\ Cardinality(Selected) \in Nat
  BY <1>2, RowCountIs, SelectedIs
<1>5. ~Stream!AtEnd
  BY <1>3, <1>4 DEF Stream!AtEnd
<1>6. Held' = out'
  BY <1>1 DEF Held
<1>7. Held' = [c \in Cols |-> Stream!Window(Rank(rg), NumRows(rg), 0)]
  BY <1>1, <1>6, EmptyWindow
<1>8. Held' # <<>>
  <2>1. 1 \in DOMAIN Held'
    BY <1>1, <1>6, Columns
  <2>2. QED BY <2>1
<1>9. cursor' = Stream!CursorAfter(Rank(rg), NumRows(rg) + 0)
  BY <1>1, <1>2, <1>4 DEF Stream!CursorAfter
<1>10. 0 \in 0 .. BatchSize
  BY SequentialBatchAssumption
<1>11. cursor[1] = Rank(rg) /\ cursor[2] = NumRows(rg)
  BY <1>3
<1>12. /\ 0 <= RowCounts[cursor[1]] - cursor[2]
       /\ 0 = 0 => RowCounts[cursor[1]] - cursor[2] = 0
  BY <1>2, <1>4, <1>11
<1>13. QED
  BY <1>1, <1>5, <1>7, <1>8, <1>9, <1>10, <1>11, <1>12
     DEF Stream!Deliver, Stream!NoBatch

LEMMA ServesTheNextRows ==
    ASSUME Rectangular, Counts, Filling, InStep, Tracked, Windows, ReturnBatch, ~readError
    PROVE  Stream!Deliver
<1>1. /\ pc = "read" /\ pc' = "user" /\ holds' = TRUE /\ \A c \in Cols : todo[c] = "done"
      /\ UNCHANGED <<out, faults>>
      /\ cursor' = IF cr[1].left = 0 THEN <<Rank(rg) + 1, 0>>
                   ELSE <<Rank(rg), NumRows(rg) - cr[1].left>>
  BY DEF ReturnBatch, Return
<1>2. PICK g \in Nat : g = Rank(rg)
  BY RankType
<1>3. /\ rg \in Selected /\ NumRows(rg) \in Nat /\ 1 \in Cols
  BY <1>1, NumRowsIs, Columns
<1>4. PICK t \in Nat, l \in Nat, n \in Nat :
          t = NumRows(rg) /\ l = cr[1].left /\ n = Len(out[1])
  BY <1>3, FillingNow
<1>5. Start = t - (l + n) /\ t - (l + n) \in Int
  BY <1>1, <1>4 DEF Start, Ahead
<1>6. PICK s \in Int : s = Start
  BY <1>5
<1>7. cursor = <<g, s>>
  BY <1>1, <1>2, <1>6 DEF Tracked
<1>8. /\ RowCounts[g] = t /\ Len(RowCounts) = Cardinality(Selected)
      /\ g \in 1 .. Cardinality(Selected) /\ Cardinality(Selected) \in Nat
  BY <1>2, <1>3, <1>4, RowCountIs, SelectedIs
<1>9. ~Stream!AtEnd
  BY <1>7, <1>8 DEF Stream!AtEnd
<1>10. n \in 0 .. BatchSize /\ n # 0
  <2>1. n <= rows /\ out[1] # <<>>
    BY <1>1, <1>3, <1>4 DEF Filling
  <2>2. rows \in Nat /\ rows <= BatchSize /\ BatchSize \in Nat
    BY SequentialBatchAssumption DEF Counts, Types
  <2>3. out[1] \in Seq(Nat \X Nat)
    BY <1>3 DEF Counts, Types
  <2>4. n # 0
    BY <1>4, <2>1, <2>3
  <2>5. QED BY <2>1, <2>2, <2>4
<1>11. n <= t - s /\ (n = 0 => t - s = 0)
  BY <1>5, <1>6, <1>10
<1>12. cursor' = Stream!CursorAfter(g, s + n)
  <2>1. s + n = t - l
    BY <1>5, <1>6
  <2>2. cursor' = IF l = 0 THEN <<g + 1, 0>> ELSE <<g, t - l>>
    BY <1>1, <1>2, <1>4
  <2>3. t - l >= t <=> l = 0
    OBVIOUS
  <2>4. QED BY <1>8, <2>1, <2>2, <2>3 DEF Stream!CursorAfter
<1>13. Held' = out
  BY <1>1 DEF Held
<1>14. out \in [Cols -> Seq(Nat \X Nat)]
  BY DEF Counts, Types
<1>15. ASSUME faults = 0 PROVE Held' = [c \in Cols |-> Stream!Window(g, s, n)]
  <2>1. ASSUME NEW c \in Cols PROVE out[c] = Stream!Window(g, s, n)
    <3>1. Len(out[c]) = rows /\ Len(out[1]) = rows
      BY <1>1, <1>3, <1>15 DEF InStep
    <3>2. out[c] = Stream!Window(Rank(rg), Start, Len(out[c]))
      BY <1>1, <1>15 DEF Windows
    <3>3. QED BY <1>2, <1>4, <1>6, <3>1, <3>2
  <2>2. QED BY <1>13, <1>14, <2>1
<1>16. Held' # <<>>
  <2>1. 1 \in DOMAIN Held'
    BY <1>3, <1>13, <1>14
  <2>2. QED BY <2>1
<1>17. faults \in Nat
  BY DEF Counts, Types
<1>18. ~(faults > 0) => Held' = [c \in Cols |-> Stream!Window(g, s, n)]
  BY <1>15, <1>17
<1>19. cursor[1] = g /\ cursor[2] = s
  BY <1>7
<1>20. QED
  BY <1>1, <1>8, <1>9, <1>10, <1>11, <1>12, <1>16, <1>18, <1>19
     DEF Stream!Deliver, Stream!NoBatch

\* Steps inside a call: a fault, or nothing the stream shows.
LEMMA WorksInside ==
    ASSUME pc # "user", pc' # "user", ~holds, ~holds', UNCHANGED cursor,
           faults \in Nat, faults' \in Nat, faults' = 0 => faults = 0
    PROVE  [Stream!StreamNext]_(Stream!streamVars)
<1>1. Held' = Held
  BY HeldIs
<1>2. CASE faults = 0 /\ faults' # 0
  <2>1. faults' > 0
    BY <1>2
  <2>2. QED BY <1>1, <2>1 DEF Stream!StreamNext, Stream!Fault
<1>3. CASE ~(faults = 0 /\ faults' # 0)
  <2>1. faults' > 0 <=> faults > 0
    BY <1>3
  <2>2. QED BY <1>1, <2>1, StreamStutters
<1>4. QED BY <1>2, <1>3

LEMMA StepImplements ==
    ASSUME Rectangular, ~Persistent, Counts, Filling, InStep, Tracked, Windows, [Next]_vars
    PROVE  [Stream!StreamNext]_(Stream!streamVars)
<1> USE DEF Stream!StreamNext
<1>1. CASE CallNext
  BY <1>1, AsksForABatch
<1>2. CASE ReturnEnd
  BY <1>2, EndsAtTheEnd
<1>3. CASE OpenFails \/ AllocFails \/ PreloadFails
  BY <1>3, FailsWithoutLoss
<1>4. CASE ServeEmpty
  BY <1>4, ServesTheEmptyBatch
<1>5. CASE ReturnBatch
  <2>1. CASE readError
    BY <1>5, <2>1, FailsWithoutLoss
  <2>2. CASE ~readError
    BY <1>5, <2>2, ServesTheNextRows
  <2>3. QED BY <2>1, <2>2
<1>6. CASE Open
  <2>1. /\ pc = "open" /\ pc' = "load" /\ UNCHANGED <<holds, cursor, faults>>
    BY <1>6 DEF Open
  <2>2. ~holds /\ faults \in Nat
    BY <2>1 DEF Tracked, Counts, Types
  <2>3. QED BY <2>1, <2>2, WorksInside
<1>7. CASE LoadPages
  <2>1. PICK n : faults' = faults + n /\ n \in Nat
    BY <1>7, LoadPagesIs
  <2>2. /\ pc = "load" /\ pc' = "read" /\ UNCHANGED <<holds, cursor>>
    BY <1>7, LoadPagesIs
  <2>3. ~holds /\ faults \in Nat
    BY <2>2 DEF Tracked, Counts, Types
  <2>4. faults' \in Nat /\ (faults' = 0 => faults = 0)
    BY <2>1, <2>3
  <2>5. QED BY <2>2, <2>3, <2>4, WorksInside
<1>8. ASSUME NEW c \in Cols, ColumnStep(c)
      PROVE  [Stream!StreamNext]_(Stream!streamVars)
  <2>1. /\ pc = "read" /\ UNCHANGED <<pc, holds, cursor>>
        /\ faults' \in Nat /\ faults \in Nat /\ (faults' = 0 => faults = 0)
    BY <1>8, ColumnFills
  <2>2. ~holds
    BY <2>1 DEF Tracked
  <2>3. QED BY <2>1, <2>2, WorksInside
<1>9. CASE Stopped \/ UNCHANGED vars
  <2>1. UNCHANGED <<pc, out, holds, cursor, faults>>
    BY <1>9 DEF Stopped, vars
  <2>2. Held' = Held
    BY <2>1 DEF Held
  <2>3. QED BY <2>1, <2>2, StreamStutters
<1>10. QED
  BY <1>1, <1>2, <1>3, <1>4, <1>5, <1>6, <1>7, <1>8, <1>9 DEF Next, NextStep

\* The sequential path is a row stream: the rows of the selected row groups
\* come in file order, none twice and none left out, the columns of a batch
\* hold the same rows whatever their pages and whichever are views, and the end
\* is reported only after the last row, with faults allowed at any point.  The
\* columns of a row group have the same number of rows, and the caller stops at
\* the first status that is not OK.  (That every call returns needs fairness
\* and is left to the runs.)
THEOREM ImplementsSafely ==
    ASSUME Rectangular, ~Persistent
    PROVE  Spec => Stream!StreamSafeSpec
<1>1. Init => Stream!StreamInit
  <2> SUFFICES ASSUME Init PROVE Stream!StreamInit
    OBVIOUS
  <2>1. cursor = <<1, 0>> /\ holds = FALSE /\ pc = "user" /\ faults = 0
    BY DEF Init
  <2>2. Held = <<>>
    BY <2>1 DEF Held
  <2>3. QED BY <2>1, <2>2 DEF Stream!StreamInit, Stream!NoBatch
<1>2. Init => Windows
  BY DEF Init, Windows
<1>3. Counts /\ Filling /\ InStep /\ Windows /\ [Next]_vars => Windows'
  BY WindowsNext
<1>4. Counts /\ Filling /\ InStep /\ Tracked /\ Windows /\ [Next]_vars
        => [Stream!StreamNext]_(Stream!streamVars)
  BY StepImplements
<1>5. Spec => [](Counts /\ Filling /\ Tracked)
  BY TrackedKept
<1>6. Spec => []InStep
  BY InStepKept
<1>7. QED BY <1>1, <1>2, <1>3, <1>4, <1>5, <1>6, PTL DEF Spec, Stream!StreamSafeSpec
===============================================================================
