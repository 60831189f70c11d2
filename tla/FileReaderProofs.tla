---------------------------- MODULE FileReaderProofs ----------------------------
(***************************************************************************)
(* Proofs about FileReader: a file opens when it is whole and only then,   *)
(* and its pages are read as they were written through any sequence of     *)
(* cached ranges, for any layout of row groups, chunks and pages, any      *)
(* contents of pages and any sizes of the footer and of the guesses.       *)
(***************************************************************************)
EXTENDS FileReader, SequenceLemmas

-------------------------------------------------------------------------------
(* The cells of a file.                                                    *)

\* All cells but those of the end: none of them looks like metadata.
Flesh == {MagicCell, <<"more", 0>>} \cup {<<"head", page>> : page \in FilePages} \cup DataCells

LEMMA FleshIsNotMeta == \A cell \in Flesh : cell[1] # "meta"
<1>1. \A cell \in DataCells : cell[1] # "meta"
  BY FileReaderAssumption
<1>2. MagicCell[1] = "magic" /\ <<"more", 0>>[1] = "more"
  BY DEF MagicCell
<1>3. \A page \in FilePages : <<"head", page>>[1] = "head"
  OBVIOUS
<1>4. QED BY <1>1, <1>2, <1>3 DEF Flesh

LEMMA MoresType ==
    ASSUME NEW n \in Nat
    PROVE  /\ Mores(n) \in Seq(Flesh) /\ Len(Mores(n)) = n
           /\ \A i \in 1 .. n : Mores(n)[i] = <<"more", 0>>
<1>1. <<"more", 0>> \in Flesh
  BY DEF Flesh
<1>2. QED BY <1>1 DEF Mores

LEMMA PageCellsIs ==
    ASSUME NEW page \in FilePages
    PROVE  /\ page.head \in Nat \ {0} /\ page.head <= MaxWindow /\ Len(page.data) \in Nat
           /\ PageCells(page) \in Seq(Flesh)
           /\ Len(PageCells(page)) = page.head + Len(page.data)
           /\ PageCells(page)[1] = <<"head", page>>
           /\ \A i \in 1 .. Len(page.data) : PageCells(page)[page.head + i] = page.data[i]
<1>1. /\ page.head \in Nat \ {0} /\ page.head <= MaxWindow
      /\ page.data \in Seq(DataCells) /\ Len(page.data) \in Nat
  BY FileReaderAssumption DEF FilePages
<1>2. page.data \in Seq(Flesh)
  BY <1>1 DEF Flesh
<1>3. <<"head", page>> \in Flesh
  BY DEF Flesh
<1> DEFINE first == << <<"head", page>> >>
           more  == Mores(page.head - 1)
           head  == first \o more
<1>4. /\ first \in Seq(Flesh) /\ Len(first) = 1 /\ first[1] = <<"head", page>>
  BY <1>3
<1>5. more \in Seq(Flesh) /\ Len(more) = page.head - 1
  <2>1. page.head - 1 \in Nat
    BY <1>1
  <2>2. QED BY <2>1, MoresType
<1>6. PageCells(page) = head \o page.data
  BY DEF PageCells
<1> HIDE DEF first, more
<1>7. head \in Seq(Flesh) /\ Len(head) = page.head /\ head[1] = <<"head", page>>
  <2>1. head \in Seq(Flesh) /\ IsConcat(head, first, more)
    BY <1>4, <1>5, ConcatParts
  <2> HIDE DEF head
  <2>2. QED BY <1>1, <1>4, <1>5, <2>1 DEF IsConcat
<1> HIDE DEF head
<1> DEFINE data == page.data
<1>8. /\ head \o data \in Seq(Flesh) /\ Len(head \o data) = Len(head) + Len(data)
      /\ \A i \in 1 .. Len(head) : (head \o data)[i] = head[i]
      /\ \A i \in 1 .. Len(data) : (head \o data)[Len(head) + i] = data[i]
  <2>1. data \in Seq(Flesh)
    BY <1>2
  <2> HIDE DEF data
  <2>2. head \o data \in Seq(Flesh) /\ IsConcat(head \o data, head, data)
    BY <1>7, <2>1, ConcatParts
  <2>3. QED BY <2>2 DEF IsConcat
<1>9. 1 \in 1 .. Len(head)
  BY <1>1, <1>7
<1>10. QED BY <1>1, <1>6, <1>7, <1>8, <1>9

\* A sequence is found in another one behind the first at cells.
Holds(cells, at, part) ==
    /\ at + Len(part) <= Len(cells)
    /\ \A i \in 1 .. Len(part) : cells[at + i] = part[i]

LEMMA HoldsThrough ==
    ASSUME NEW A, NEW x \in Seq(A), NEW y \in Seq(A), NEW z \in Seq(A),
           NEW m \in Nat, NEW n \in Nat, Holds(x, m, y), Holds(y, n, z)
    PROVE  Holds(x, m + n, z)
<1>1. Len(x) \in Nat /\ Len(y) \in Nat /\ Len(z) \in Nat
  OBVIOUS
<1>2. m + n + Len(z) <= Len(x)
  BY <1>1 DEF Holds
<1>3. ASSUME NEW i \in 1 .. Len(z) PROVE x[m + n + i] = z[i]
  <2>1. n + i \in 1 .. Len(y) /\ m + (n + i) = m + n + i
    BY <1>1 DEF Holds
  <2>2. QED BY <2>1 DEF Holds
<1>4. QED BY <1>2, <1>3 DEF Holds

LEMMA HoldsPart ==
    ASSUME NEW A, NEW s \in Seq(Seq(A)), NEW c \in 1 .. Len(s)
    PROVE  Len(UpTo(s, c - 1)) \in Nat /\ Holds(FlattenSeq(s), Len(UpTo(s, c - 1)), s[c])
<1>1. /\ Len(UpTo(s, c - 1)) \in Nat /\ Len(s[c]) \in Nat /\ s[c] \in Seq(A)
      /\ FoundIn(s, c, Len(s), Len(UpTo(s, c - 1)), Len(s[c]))
  BY FlattenPart
<1>2. FlattenSeq(s) = UpTo(s, Len(s)) /\ FlattenSeq(s) \in Seq(A)
  BY FlattenUpTo, FlattenType
<1> DEFINE all == FlattenSeq(s)
           at  == Len(UpTo(s, c - 1))
<1>3. at + Len(s[c]) <= Len(all) /\ SubSeq(all, at + 1, at + Len(s[c])) = s[c]
  BY <1>1, <1>2 DEF FoundIn
<1>4. at \in Nat /\ all \in Seq(A)
  BY <1>1, <1>2
<1> HIDE DEF all, at
<1>5. ASSUME NEW i \in 1 .. Len(s[c]) PROVE all[at + i] = s[c][i]
  BY <1>1, <1>3, <1>4
<1>6. Holds(all, at, s[c])
  BY <1>3, <1>5 DEF Holds
<1>7. QED BY <1>4, <1>6 DEF all, at

-------------------------------------------------------------------------------
(* Where pages, chunks and groups lie.                                     *)

PageList(pages) == [p \in DOMAIN pages |-> PageCells(pages[p])]
ChunkList(group) == [c \in DOMAIN group |-> ChunkCells(group[c])]
GroupList(groups) == [g \in DOMAIN groups |-> GroupCells(groups[g])]

LEMMA PageListType ==
    ASSUME NEW pages \in Seq(FilePages)
    PROVE  PageList(pages) \in Seq(Seq(Flesh)) /\ Len(PageList(pages)) = Len(pages)
<1>1. \A p \in DOMAIN pages : PageCells(pages[p]) \in Seq(Flesh)
  BY PageCellsIs
<1>2. QED BY <1>1 DEF PageList

LEMMA ChunkCellsType ==
    ASSUME NEW chunk \in FileChunks
    PROVE  /\ AllPages(chunk) \in Seq(FilePages)
           /\ ChunkCells(chunk) = FlattenSeq(PageList(AllPages(chunk)))
           /\ ChunkCells(chunk) \in Seq(Flesh)
<1>1. AllPages(chunk) \in Seq(FilePages)
  BY DEF AllPages, FileChunks
<1>2. ChunkCells(chunk) = FlattenSeq(PageList(AllPages(chunk)))
  BY DEF ChunkCells, PageList
<1>3. QED BY <1>1, <1>2, PageListType, FlattenType

LEMMA GroupCellsType ==
    ASSUME NEW group \in Seq(FileChunks)
    PROVE  /\ ChunkList(group) \in Seq(Seq(Flesh)) /\ Len(ChunkList(group)) = Len(group)
           /\ GroupCells(group) = FlattenSeq(ChunkList(group))
           /\ GroupCells(group) \in Seq(Flesh)
<1>1. \A c \in DOMAIN group : ChunkCells(group[c]) \in Seq(Flesh)
  BY ChunkCellsType
<1>2. ChunkList(group) \in Seq(Seq(Flesh)) /\ Len(ChunkList(group)) = Len(group)
  BY <1>1 DEF ChunkList
<1>3. GroupCells(group) = FlattenSeq(ChunkList(group))
  BY DEF GroupCells, ChunkList
<1>4. QED BY <1>2, <1>3, FlattenType

LEMMA GroupListType ==
    ASSUME NEW groups \in Seq(Seq(FileChunks))
    PROVE  /\ GroupList(groups) \in Seq(Seq(Flesh)) /\ Len(GroupList(groups)) = Len(groups)
           /\ FlattenSeq(GroupList(groups)) \in Seq(Flesh)
<1>1. \A g \in DOMAIN groups : GroupCells(groups[g]) \in Seq(Flesh)
  BY GroupCellsType
<1>2. GroupList(groups) \in Seq(Seq(Flesh)) /\ Len(GroupList(groups)) = Len(groups)
  <2>1. DOMAIN groups = 1 .. Len(groups) /\ Len(groups) \in Nat
    OBVIOUS
  <2> DEFINE list == [g \in 1 .. Len(groups) |-> GroupCells(groups[g])]
  <2>2. list \in Seq(Seq(Flesh)) /\ Len(list) = Len(groups)
    BY <1>1, <2>1
  <2>3. QED BY <2>1, <2>2 DEF GroupList
<1>3. QED BY <1>2, FlattenType

\* The file is what it begins with and its end.
Begin(groups) == << MagicCell >> \o FlattenSeq(GroupList(groups))
Cells == Flesh \cup {<<"meta", groups>> : groups \in Layouts}
               \cup {<<"size", FooterCells>>, <<"junk", 0>>}

LEMMA FileIs ==
    ASSUME NEW groups \in Layouts
    PROVE  /\ Begin(groups) \in Seq(Flesh) /\ Len(Begin(groups)) \in Nat \ {0}
           /\ Begin(groups)[1] = MagicCell
           /\ FileOf(groups) \in Seq(Cells)
           /\ Len(FileOf(groups)) = Len(Begin(groups)) + FooterCells + 2
           /\ \A i \in 1 .. Len(Begin(groups)) : FileOf(groups)[i] = Begin(groups)[i]
           /\ FileOf(groups)[Len(Begin(groups)) + 1] = <<"meta", groups>>
           /\ \A i \in Len(Begin(groups)) + 2 .. Len(Begin(groups)) + FooterCells :
                 FileOf(groups)[i] = <<"more", 0>>
           /\ FileOf(groups)[Len(Begin(groups)) + FooterCells + 1] = <<"size", FooterCells>>
           /\ FileOf(groups)[Len(Begin(groups)) + FooterCells + 2] = MagicCell
<1> DEFINE body == FlattenSeq(GroupList(groups))
           b == Begin(groups)
           t == << <<"meta", groups>> >>
           m == Mores(FooterCells - 1)
           e == << <<"size", FooterCells>>, MagicCell >>
<1>1. groups \in Seq(Seq(FileChunks)) /\ FooterCells \in Nat \ {0}
  BY FileReaderAssumption
<1>2. body \in Seq(Flesh)
  BY <1>1, GroupListType
<1>3. MagicCell \in Flesh /\ Flesh \subseteq Cells /\ MagicCell \in Cells
  BY DEF Flesh, Cells
<1>4. FileOf(groups) = ((b \o t) \o m) \o e
  BY Zenon DEF FileOf, Begin, GroupList
<1>5. b \in Seq(Flesh) /\ Len(b) \in Nat \ {0} /\ b[1] = MagicCell
  <2>1. << MagicCell >> \in Seq(Flesh) /\ Len(<< MagicCell >>) = 1
    BY <1>3
  <2> HIDE DEF body
  <2>2. b = << MagicCell >> \o body
    BY DEF b, Begin, body
  <2>3. QED BY <1>2, <2>1, <2>2
<1>6. t \in Seq(Cells) /\ Len(t) = 1 /\ t[1] = <<"meta", groups>>
  BY DEF Cells
<1>7. m \in Seq(Cells) /\ Len(m) = FooterCells - 1 /\ \A i \in 1 .. FooterCells - 1 : m[i] = <<"more", 0>>
  <2>1. PICK k \in Nat : k = FooterCells - 1
    BY <1>1
  <2>2. Mores(k) \in Seq(Flesh) /\ Len(Mores(k)) = k /\ \A i \in 1 .. k : Mores(k)[i] = <<"more", 0>>
    BY MoresType
  <2>3. Mores(k) \in Seq(Cells)
    BY <1>3, <2>2
  <2>4. QED BY <2>1, <2>2, <2>3
<1>8. e \in Seq(Cells) /\ Len(e) = 2 /\ e[1] = <<"size", FooterCells>> /\ e[2] = MagicCell
  BY <1>3 DEF Cells
<1>9. b \in Seq(Cells)
  BY <1>3, <1>5
<1> HIDE DEF body, b, t, m, e
<1> DEFINE bt == b \o t
           btm == bt \o m
           f == btm \o e
           n == Len(b)
<1>10. /\ bt \in Seq(Cells) /\ Len(bt) = n + 1 /\ bt[n + 1] = <<"meta", groups>>
       /\ \A i \in 1 .. n : bt[i] = b[i]
  <2>1. bt \in Seq(Cells) /\ IsConcat(bt, b, t)
    BY <1>6, <1>9, ConcatParts
  <2> HIDE DEF bt
  <2>2. QED BY <1>6, <1>9, <2>1 DEF IsConcat
<1> HIDE DEF bt
<1>11. /\ btm \in Seq(Cells) /\ Len(btm) = n + FooterCells
       /\ \A i \in 1 .. n + 1 : btm[i] = bt[i]
       /\ \A i \in n + 2 .. n + FooterCells : btm[i] = <<"more", 0>>
  <2>0. btm \in Seq(Cells) /\ IsConcat(btm, bt, m)
    BY <1>7, <1>10, ConcatParts
  <2> HIDE DEF btm
  <2>1. /\ btm \in Seq(Cells) /\ Len(btm) = Len(bt) + Len(m)
        /\ \A i \in 1 .. Len(bt) : btm[i] = bt[i]
        /\ \A i \in 1 .. Len(m) : btm[Len(bt) + i] = m[i]
    BY <2>0 DEF IsConcat
  <2>2. n \in Nat
    BY <1>5
  <2>3. ASSUME NEW i \in n + 2 .. n + FooterCells PROVE btm[i] = <<"more", 0>>
    <3>1. PICK k \in 1 .. FooterCells - 1 : i = n + 1 + k
      <4>1. i - (n + 1) \in 1 .. FooterCells - 1 /\ i = n + 1 + (i - (n + 1))
        BY <1>1, <2>2
      <4>2. QED BY <4>1
    <3>2. btm[Len(bt) + k] = m[k] /\ m[k] = <<"more", 0>>
      BY <1>7, <2>1
    <3>3. QED BY <1>10, <3>1, <3>2
  <2>4. Len(btm) = n + FooterCells
    BY <1>1, <1>7, <1>10, <2>1, <2>2
  <2>5. QED BY <1>10, <2>1, <2>3, <2>4
<1> HIDE DEF btm
<1>12. /\ f \in Seq(Cells) /\ Len(f) = n + FooterCells + 2
       /\ \A i \in 1 .. n + FooterCells : f[i] = btm[i]
       /\ f[n + FooterCells + 1] = e[1] /\ f[n + FooterCells + 2] = e[2]
  <2>0. f \in Seq(Cells) /\ IsConcat(f, btm, e)
    BY <1>8, <1>11, ConcatParts
  <2> HIDE DEF f
  <2>1. /\ f \in Seq(Cells) /\ Len(f) = Len(btm) + Len(e)
        /\ \A i \in 1 .. Len(btm) : f[i] = btm[i]
        /\ \A i \in 1 .. Len(e) : f[Len(btm) + i] = e[i]
    BY <2>0 DEF IsConcat
  <2>2. f[Len(btm) + 1] = e[1] /\ f[Len(btm) + 2] = e[2]
    BY <1>8, <2>1
  <2>3. QED BY <1>8, <1>11, <2>1, <2>2
<1>13. FileOf(groups) = f
  BY <1>4 DEF f, btm, bt
<1> HIDE DEF f
<1>14. n \in Nat \ {0} /\ FooterCells \in Nat \ {0}
  BY <1>1, <1>5
<1>15. /\ f[n + 1] = <<"meta", groups>>
       /\ \A i \in 1 .. n : f[i] = b[i]
       /\ \A i \in n + 2 .. n + FooterCells : f[i] = <<"more", 0>>
  BY <1>10, <1>11, <1>12, <1>14
<1>16. QED BY <1>5, <1>8, <1>12, <1>13, <1>15 DEF b, n

-------------------------------------------------------------------------------
(* What is stored, and opening it.                                         *)

Stored ==
    /\ layout \in Layouts
    /\ image \in {SubSeq(FileOf(layout), 1, n) : n \in 0 .. Len(FileOf(layout))}
                 \cup {Append(FileOf(layout), <<"junk", 0>>)}

\* The image agrees with the file as far as both go.
LEMMA ImageIs ==
    ASSUME Stored
    PROVE  /\ image \in Seq(Cells) /\ Len(image) \in Nat
           /\ FileOf(layout) \in Seq(Cells) /\ Len(FileOf(layout)) \in Nat
           /\ Len(image) <= Len(FileOf(layout)) + 1
           /\ \A i \in 1 .. Len(image) : i <= Len(FileOf(layout)) => image[i] = FileOf(layout)[i]
           /\ Len(image) = Len(FileOf(layout)) => image = FileOf(layout)
           /\ Len(image) = Len(FileOf(layout)) + 1 => image[Len(image)] = <<"junk", 0>>
<1> DEFINE f == FileOf(layout)
<1>1. f \in Seq(Cells) /\ Len(f) \in Nat
  BY FileIs DEF Stored
<1>2. <<"junk", 0>> \in Cells
  BY DEF Cells
<1>3. \/ \E n \in 0 .. Len(f) : image = SubSeq(f, 1, n)
      \/ image = Append(f, <<"junk", 0>>)
  BY DEF Stored
<1> HIDE DEF f
<1>4. CASE image = Append(f, <<"junk", 0>>)
  BY <1>1, <1>2, <1>4 DEF f
<1>5. ASSUME NEW n \in 0 .. Len(f), image = SubSeq(f, 1, n)
      PROVE  /\ image \in Seq(Cells) /\ Len(image) = n
             /\ \A i \in 1 .. n : image[i] = f[i]
             /\ n = Len(f) => image = f
  <2>1. n \in Nat /\ n <= Len(f)
    BY <1>1
  <2>2. image \in Seq(Cells) /\ Len(image) = n /\ \A i \in 1 .. n : image[i] = f[i]
    BY <1>1, <1>5, <2>1
  <2>3. n = Len(f) => image = f
    BY <1>1, <1>5, SubSeqFull
  <2>4. QED BY <2>2, <2>3
<1>6. QED BY <1>1, <1>3, <1>4, <1>5 DEF f

LEMMA SizesAreNumbers ==
    ASSUME Stored, NEW cell \in Cells, NEW size \in SizesOf(cell)
    PROVE  size \in Nat
<1>1. CASE cell[1] # "size"
  BY <1>1, ImageIs DEF SizesOf
<1>2. CASE cell[1] = "size"
  <2>1. CASE cell \in DataCells
    BY <1>2, <2>1, FileReaderAssumption DEF SizesOf
  <2>2. CASE cell = <<"size", FooterCells>>
    BY <1>2, <2>2, FileReaderAssumption DEF SizesOf
  <2>3. CASE cell \in {MagicCell, <<"more", 0>>, <<"junk", 0>>}
    BY <1>2, <2>3 DEF MagicCell
  <2>4. CASE \E x : cell = <<"head", x>> \/ cell = <<"meta", x>>
    BY <1>2, <2>4
  <2>5. QED BY <2>1, <2>2, <2>3, <2>4 DEF Cells, Flesh
<1>3. QED BY <1>1, <1>2

\* The last n cells of what is stored.
LEMMA EndOfIs ==
    ASSUME Stored, NEW n \in Nat, n <= Len(image)
    PROVE  /\ EndOf(n) \in Seq(Cells) /\ Len(EndOf(n)) = n
           /\ \A i \in 1 .. n : EndOf(n)[i] = image[Len(image) - n + i]
<1>1. image \in Seq(Cells) /\ Len(image) \in Nat
  BY ImageIs
<1>2. QED BY <1>1 DEF EndOf

\* Where the footer is looked for in the n cells that a sequence ends with.
LEMMA InTheEnd ==
    ASSUME NEW A, NEW x \in Seq(A), NEW size \in Nat, size + 2 <= Len(x)
    PROVE  LET cells == FooterInGuess(size, x)
           IN  cells \in Seq(A) /\ Len(cells) = size
               /\ (size >= 1 => cells[1] = x[Len(x) - size - 1])
<1>1. Len(x) \in Nat
  OBVIOUS
<1> DEFINE a == Len(x) - 2 - size + 1
           b == Len(x) - 2
<1>2. /\ a \in Nat \ {0} /\ b \in Nat /\ b <= Len(x) /\ b - a + 1 = size /\ a = Len(x) - size - 1
  BY <1>1
<1> HIDE DEF a, b
<1>3. /\ SubSeq(x, a, b) \in Seq(A) /\ Len(SubSeq(x, a, b)) = size
      /\ size >= 1 => SubSeq(x, a, b)[1] = x[a]
  BY <1>2
<1>4. QED BY <1>2, <1>3 DEF FooterInGuess, a, b

LEMMA BeforeTheEnd ==
    ASSUME Stored, NEW size \in Nat, size + 2 <= Len(image)
    PROVE  LET cells == SubSeq(EndOf(size + 2), 1, size)
           IN  cells \in Seq(Cells) /\ Len(cells) = size
               /\ (size >= 1 => cells[1] = image[Len(image) - size - 1])
<1> DEFINE end == EndOf(size + 2)
<1>1. /\ end \in Seq(Cells) /\ Len(end) = size + 2
      /\ \A i \in 1 .. size + 2 : end[i] = image[Len(image) - (size + 2) + i]
  <2>1. size + 2 \in Nat
    OBVIOUS
  <2>2. QED BY <2>1, EndOfIs
<1>2. Len(image) \in Nat
  BY ImageIs
<1> HIDE DEF end
<1>3. /\ SubSeq(end, 1, size) \in Seq(Cells) /\ Len(SubSeq(end, 1, size)) = size
      /\ size >= 1 => SubSeq(end, 1, size)[1] = end[1]
  BY <1>1
<1>4. end[1] = image[Len(image) - size - 1]
  BY <1>1, <1>2
<1>5. QED BY <1>3, <1>4 DEF end

\* However it is read, the footer is the cells before the last two.
LEMMA FooterRead ==
    ASSUME Stored, NEW size \in Nat, size <= Len(image) - 2
    PROVE  LET cells == Footer(size)
           IN  cells \in Seq(Cells) /\ Len(cells) = size
               /\ (size >= 1 => cells[1] = image[Len(image) - size - 1])
<1> DEFINE guess == IF Len(image) < Speculative THEN image ELSE EndOf(Speculative)
<1>1. image \in Seq(Cells) /\ Len(image) \in Nat /\ size + 2 <= Len(image)
  BY ImageIs
<1>2. Speculative \in Nat
  BY FileReaderAssumption
<1>3. /\ guess \in Seq(Cells) /\ Len(guess) \in Nat
      /\ \A i \in 1 .. Len(guess) : guess[i] = image[Len(image) - Len(guess) + i]
  <2>1. CASE Len(image) < Speculative
    BY <1>1, <2>1
  <2>2. CASE ~(Len(image) < Speculative)
    <3>1. Speculative <= Len(image)
      BY <1>1, <1>2, <2>2
    <3>2. QED BY <1>2, <2>2, <3>1, EndOfIs
  <2>3. QED BY <2>1, <2>2
<1>4. Footer(size) = IF size + 2 <= Len(guess) THEN FooterInGuess(size, guess)
                     ELSE SubSeq(EndOf(size + 2), 1, size)
  BY DEF Footer
<1> HIDE DEF guess
<1>5. CASE size + 2 <= Len(guess)
  <2>1. LET cells == FooterInGuess(size, guess)
        IN  cells \in Seq(Cells) /\ Len(cells) = size
            /\ (size >= 1 => cells[1] = guess[Len(guess) - size - 1])
    BY <1>3, <1>5, InTheEnd
  <2>2. guess[Len(guess) - size - 1] = image[Len(image) - size - 1]
    <3>1. PICK i \in 1 .. Len(guess) : i = Len(guess) - size - 1
      <4>1. Len(guess) \in Nat
        BY <1>3
      <4>2. Len(guess) - size - 1 \in 1 .. Len(guess)
        BY <1>5, <4>1
      <4>3. QED BY <4>2
    <3>2. guess[i] = image[Len(image) - Len(guess) + i]
      BY <1>3
    <3>3. Len(image) - Len(guess) + i = Len(image) - size - 1
      BY <1>1, <1>3, <3>1
    <3>4. QED BY <3>1, <3>2, <3>3
  <2>3. QED BY <1>4, <1>5, <2>1, <2>2
<1>6. CASE ~(size + 2 <= Len(guess))
  BY <1>1, <1>4, <1>6, BeforeTheEnd
<1>7. QED BY <1>5, <1>6

Caches == [at : Nat, cells : Seq(Cells)]
Readers == [state : {"closed", "refused", "open", "done"}, mapped : BOOLEAN,
            metadata : Layouts \cup {<<>>}, cache : Caches]
Opening(mapped) ==
    [state |-> "open", mapped |-> mapped, metadata |-> layout, cache |-> NoCache]

\* The only metadata of a file is found when all of the file is there.
LEMMA MetadataIsAtTheEnd ==
    ASSUME Stored, Len(image) >= 3, image[Len(image)] = MagicCell,
           NEW size \in Nat, size + 2 <= Len(image),
           NEW cells \in Seq(Cells), Len(cells) = size,
           size >= 1 => cells[1] = image[Len(image) - size - 1]
    PROVE  /\ Parses(cells) => image = FileOf(layout) /\ cells[1][2] = layout
           /\ image = FileOf(layout) /\ size = FooterCells => Parses(cells)
<1> DEFINE f == FileOf(layout)
           n == Len(Begin(layout))
           i == Len(image) - size - 1
<1>1. /\ n \in Nat \ {0} /\ FooterCells \in Nat \ {0} /\ Len(image) \in Nat
      /\ Len(f) = n + FooterCells + 2 /\ Len(image) <= Len(f) + 1
  BY FileIs, ImageIs, FileReaderAssumption DEF Stored
<1>2. Len(image) # Len(f) + 1
  <2>1. MagicCell # <<"junk", 0>>
    BY DEF MagicCell
  <2>2. QED BY <2>1, ImageIs
<1>3. Len(image) <= Len(f) /\ \A k \in 1 .. Len(image) : image[k] = f[k]
  BY <1>1, <1>2, ImageIs
<1>4. /\ \A k \in 1 .. n : f[k] \in Flesh
      /\ f[n + 1] = <<"meta", layout>> /\ f[n + FooterCells + 1] = <<"size", FooterCells>>
      /\ f[n + FooterCells + 2] = MagicCell
      /\ \A k \in n + 2 .. n + FooterCells : f[k] = <<"more", 0>>
  <2>1. layout \in Layouts
    BY DEF Stored
  <2>2. Begin(layout) \in Seq(Flesh) /\ \A k \in 1 .. n : f[k] = Begin(layout)[k]
    BY <2>1, FileIs
  <2>3. \A k \in 1 .. n : Begin(layout)[k] \in Flesh
    BY <2>2
  <2>4. QED BY <2>1, <2>2, <2>3, FileIs
<1>5. \A k \in 1 .. Len(f) : f[k][1] = "meta" => k = n + 1
  <2>1. \A k \in 1 .. n : f[k][1] # "meta"
    BY <1>4, FleshIsNotMeta
  <2>2. \A k \in n + 2 .. n + FooterCells : f[k][1] # "meta"
    BY <1>4
  <2>3. f[n + FooterCells + 1][1] # "meta" /\ f[n + FooterCells + 2][1] # "meta"
    BY <1>4 DEF MagicCell
  <2>4. QED BY <1>1, <2>1, <2>2, <2>3
<1>6. ASSUME Parses(cells) PROVE image = f /\ cells[1][2] = layout
  <2>1. cells # <<>> /\ cells[1][1] = "meta" /\ size >= FooterCells
    BY <1>6 DEF Parses
  <2>2. size >= 1 /\ i \in 1 .. Len(image) /\ i <= Len(f)
    BY <1>1, <1>3, <2>1
  <2>3. cells[1] = f[i]
    BY <1>3, <2>2
  <2>4. i = n + 1
    BY <1>1, <1>5, <2>1, <2>2, <2>3
  <2>5. Len(image) = Len(f)
    <3>1. Len(image) = n + 2 + size
      BY <1>1, <2>4
    <3>2. Len(image) >= Len(f)
      BY <1>1, <2>1, <3>1
    <3>3. QED BY <1>1, <1>3, <3>2
  <2>6. image = f
    BY <2>5, ImageIs
  <2>7. QED BY <1>4, <2>3, <2>4, <2>6
<1>7. ASSUME image = f, size = FooterCells PROVE Parses(cells)
  <2>1. size >= 1 /\ i = n + 1
    BY <1>1, <1>7
  <2>2. cells[1] = <<"meta", layout>>
    BY <1>4, <1>7, <2>1
  <2>3. cells # <<>>
    BY <1>1, <2>1
  <2>4. QED BY <1>7, <2>2, <2>3 DEF Parses
<1>8. QED BY <1>6, <1>7

LEMMA OpenedWithIs ==
    ASSUME Stored, Len(image) >= 3, image[Len(image)] = MagicCell,
           NEW size \in Nat, NEW mapped \in BOOLEAN
    PROVE  \/ /\ OpenedWith(mapped, size) = Refused
              /\ ~(image = FileOf(layout) /\ size = FooterCells)
           \/ OpenedWith(mapped, size) = Opening(mapped) /\ image = FileOf(layout)
<1> DEFINE cells == IF mapped THEN SubSeq(EndOf(size + 2), 1, size) ELSE Footer(size)
<1>1. OpenedWith(mapped, size) =
        IF size <= Len(image) - 2 /\ Parses(cells)
        THEN [state |-> "open", mapped |-> mapped, metadata |-> cells[1][2], cache |-> NoCache]
        ELSE Refused
  BY Zenon DEF OpenedWith
<1>2. /\ Len(image) \in Nat
      /\ image = FileOf(layout) => FooterCells <= Len(image) - 2
  <2>1. Len(image) \in Nat
    BY ImageIs
  <2>2. Len(FileOf(layout)) = Len(Begin(layout)) + FooterCells + 2 /\ Len(Begin(layout)) \in Nat
    BY FileIs DEF Stored
  <2>3. FooterCells \in Nat
    BY FileReaderAssumption
  <2>4. QED BY <2>1, <2>2, <2>3
<1>3. CASE ~(size <= Len(image) - 2)
  BY <1>1, <1>2, <1>3
<1>4. CASE size <= Len(image) - 2
  <2>1. size + 2 <= Len(image)
    BY <1>2, <1>4
  <2>2. /\ cells \in Seq(Cells) /\ Len(cells) = size
        /\ size >= 1 => cells[1] = image[Len(image) - size - 1]
    <3>1. CASE mapped
      BY <2>1, <3>1, BeforeTheEnd
    <3>2. CASE ~mapped
      BY <1>4, <3>2, FooterRead
    <3>3. QED BY <3>1, <3>2
  <2> HIDE DEF cells
  <2>3. /\ Parses(cells) => image = FileOf(layout) /\ cells[1][2] = layout
        /\ image = FileOf(layout) /\ size = FooterCells => Parses(cells)
    BY <2>1, <2>2, MetadataIsAtTheEnd
  <2>4. QED BY <1>1, <1>4, <2>3 DEF Opening
<1>5. QED BY <1>3, <1>4

\* A file is opened as it was written, in any way, and nothing else is.
LEMMA OpenIs ==
    ASSUME Stored, NEW way \in DOMAIN Mapping, Open(way)
    PROVE  \/ reader' = Refused /\ image # FileOf(layout)
           \/ \E mapped \in BOOLEAN : reader' = Opening(mapped) /\ image = FileOf(layout)
<1>1. PICK mapped \in Mapping[way] :
          \/ Sound(mapped) /\ \E size \in SizesOf(image[Len(image) - 1]) :
                                 reader' = OpenedWith(mapped, size)
          \/ ~Sound(mapped) /\ reader' = Refused
  BY DEF Open
<1>2. mapped \in BOOLEAN
  <2>1. way \in {"stream", "path", "buffer"}
    BY DEF Mapping
  <2>2. Mapping[way] \subseteq BOOLEAN
    <3>1. /\ Mapping["stream"] = {FALSE} /\ Mapping["path"] = BOOLEAN
          /\ Mapping["buffer"] = {TRUE}
      BY DEF Mapping
    <3>2. QED BY <2>1, <3>1, Zenon
  <2>3. QED BY <2>2
<1> DEFINE n == Len(Begin(layout))
<1>3. /\ n \in Nat \ {0} /\ FooterCells \in Nat \ {0}
      /\ Begin(layout)[1] = MagicCell
      /\ Len(FileOf(layout)) = n + FooterCells + 2
      /\ \A i \in 1 .. n : FileOf(layout)[i] = Begin(layout)[i]
      /\ FileOf(layout)[n + FooterCells + 1] = <<"size", FooterCells>>
      /\ FileOf(layout)[n + FooterCells + 2] = MagicCell
  BY FileIs, FileReaderAssumption DEF Stored
<1>4. CASE ~Sound(mapped) /\ reader' = Refused
  <2>1. FileOf(layout)[1] = MagicCell /\ Len(FileOf(layout)) >= 3
    BY <1>3
  <2>2. QED BY <1>3, <1>4, <2>1 DEF Sound
<1>5. ASSUME Sound(mapped), NEW size \in SizesOf(image[Len(image) - 1]),
             reader' = OpenedWith(mapped, size)
      PROVE  \/ reader' = Refused /\ image # FileOf(layout)
             \/ reader' = Opening(mapped) /\ image = FileOf(layout)
  <2>1. Len(image) >= 3 /\ image[Len(image)] = MagicCell
    BY <1>5 DEF Sound
  <2>2. image[Len(image) - 1] \in Cells
    BY <2>1, ImageIs
  <2>3. size \in Nat
    BY <1>5, <2>2, SizesAreNumbers
  <2>4. image = FileOf(layout) => size = FooterCells
    <3>1. SUFFICES ASSUME image = FileOf(layout) PROVE size = FooterCells
      OBVIOUS
    <3>2. Len(image) - 1 = n + FooterCells + 1
      BY <1>3, <3>1
    <3>3. image[Len(image) - 1] = <<"size", FooterCells>>
      BY <1>3, <3>1, <3>2
    <3>4. QED BY <1>5, <3>3 DEF SizesOf
  <2>5. QED BY <1>2, <1>5, <2>1, <2>3, <2>4, OpenedWithIs
<1>6. QED BY <1>1, <1>2, <1>4, <1>5

-------------------------------------------------------------------------------
(* The places the metadata gives.                                          *)

LEMMA HoldsBegin ==
    ASSUME NEW groups \in Layouts
    PROVE  /\ Holds(FileOf(groups), 0, Begin(groups))
           /\ Holds(Begin(groups), 1, FlattenSeq(GroupList(groups)))
           /\ FlattenSeq(GroupList(groups)) \in Seq(Flesh)
<1> DEFINE body == FlattenSeq(GroupList(groups))
           n == Len(Begin(groups))
<1>1. groups \in Seq(Seq(FileChunks)) /\ FooterCells \in Nat
  BY FileReaderAssumption
<1>2. body \in Seq(Flesh)
  BY <1>1, GroupListType
<1>3. Holds(FileOf(groups), 0, Begin(groups))
  <2>1. /\ n \in Nat /\ Len(FileOf(groups)) = n + FooterCells + 2
        /\ \A i \in 1 .. n : FileOf(groups)[i] = Begin(groups)[i]
    BY FileIs
  <2>2. 0 + n <= Len(FileOf(groups))
    BY <1>1, <2>1
  <2>3. \A i \in 1 .. n : 0 + i = i
    BY <2>1
  <2>4. QED BY <2>1, <2>2, <2>3 DEF Holds
<1>4. Holds(Begin(groups), 1, body)
  <2>1. Begin(groups) = << MagicCell >> \o body
    BY DEF Begin
  <2> HIDE DEF body
  <2>2. << MagicCell >> \in Seq(Flesh) /\ Len(<< MagicCell >>) = 1
    BY DEF Flesh
  <2>3. /\ Len(Begin(groups)) = 1 + Len(body) /\ Len(body) \in Nat
        /\ \A i \in 1 .. Len(body) : Begin(groups)[1 + i] = body[i]
    BY <1>2, <2>1, <2>2
  <2>4. QED BY <2>3 DEF Holds
<1>5. QED BY <1>2, <1>3, <1>4

LEMMA ListsUpTo ==
    /\ \A groups \in Seq(Seq(FileChunks)) : \A n \in 0 .. Len(groups) :
          FlattenSeq([k \in 1 .. n |-> GroupCells(groups[k])]) = UpTo(GroupList(groups), n)
    /\ \A group \in Seq(FileChunks) : \A n \in 0 .. Len(group) :
          GroupCells(SubSeq(group, 1, n)) = UpTo(ChunkList(group), n)
    /\ \A pages \in Seq(FilePages) : \A n \in 0 .. Len(pages) :
          FlattenSeq(PageList(SubSeq(pages, 1, n))) = UpTo(PageList(pages), n)
<1>1. ASSUME NEW groups \in Seq(Seq(FileChunks)), NEW n \in 0 .. Len(groups)
      PROVE  FlattenSeq([k \in 1 .. n |-> GroupCells(groups[k])]) = UpTo(GroupList(groups), n)
  <2>1. /\ GroupList(groups) \in Seq(Seq(Flesh)) /\ Len(GroupList(groups)) = Len(groups)
        /\ n \in Nat /\ n <= Len(groups)
    BY GroupListType
  <2>2. \A k \in 1 .. n : GroupList(groups)[k] = GroupCells(groups[k])
    BY <2>1 DEF GroupList
  <2>3. SubSeq(GroupList(groups), 1, n) = [k \in 1 .. n |-> GroupList(groups)[k]]
    BY <2>1
  <2>4. [k \in 1 .. n |-> GroupList(groups)[k]] = [k \in 1 .. n |-> GroupCells(groups[k])]
    BY <2>2
  <2>5. QED BY <2>3, <2>4 DEF UpTo
<1>2. ASSUME NEW group \in Seq(FileChunks), NEW n \in 0 .. Len(group)
      PROVE  GroupCells(SubSeq(group, 1, n)) = UpTo(ChunkList(group), n)
  <2> DEFINE some == SubSeq(group, 1, n)
  <2>1. /\ ChunkList(group) \in Seq(Seq(Flesh)) /\ Len(ChunkList(group)) = Len(group)
        /\ n \in Nat /\ n <= Len(group)
    BY GroupCellsType
  <2>2. /\ some \in Seq(FileChunks) /\ DOMAIN some = 1 .. n
        /\ \A k \in 1 .. n : some[k] = group[k]
    BY <2>1
  <2>3. GroupCells(some) = FlattenSeq(ChunkList(some))
    BY <2>2, GroupCellsType
  <2> HIDE DEF some
  <2>4. \A k \in 1 .. n : ChunkList(group)[k] = ChunkCells(group[k])
    BY <2>1 DEF ChunkList
  <2>5. SubSeq(ChunkList(group), 1, n) = [k \in 1 .. n |-> ChunkList(group)[k]]
    BY <2>1
  <2>6. ChunkList(some) = [k \in 1 .. n |-> ChunkList(group)[k]]
    BY <2>2, <2>4 DEF ChunkList
  <2>7. QED BY <2>3, <2>5, <2>6 DEF UpTo, some
<1>3. ASSUME NEW pages \in Seq(FilePages), NEW n \in 0 .. Len(pages)
      PROVE  FlattenSeq(PageList(SubSeq(pages, 1, n))) = UpTo(PageList(pages), n)
  <2> DEFINE some == SubSeq(pages, 1, n)
  <2>1. /\ PageList(pages) \in Seq(Seq(Flesh)) /\ Len(PageList(pages)) = Len(pages)
        /\ n \in Nat /\ n <= Len(pages)
    BY PageListType
  <2>2. DOMAIN some = 1 .. n /\ \A k \in 1 .. n : some[k] = pages[k]
    BY <2>1
  <2> HIDE DEF some
  <2>3. \A k \in 1 .. n : PageList(pages)[k] = PageCells(pages[k])
    BY <2>1 DEF PageList
  <2>4. SubSeq(PageList(pages), 1, n) = [k \in 1 .. n |-> PageList(pages)[k]]
    BY <2>1
  <2>5. PageList(some) = [k \in 1 .. n |-> PageList(pages)[k]]
    BY <2>2, <2>3 DEF PageList
  <2>6. QED BY <2>4, <2>5 DEF UpTo, some
<1>4. QED BY <1>1, <1>2, <1>3

\* A chunk lies where its metadata says.
LEMMA PlaceIs ==
    ASSUME NEW groups \in Layouts, NEW g \in DOMAIN groups, NEW c \in DOMAIN groups[g]
    PROVE  LET chunk == groups[g][c]
               place == Place(groups, g, c)
           IN  /\ chunk \in FileChunks
               /\ place.dictionary \in Nat /\ place.size = Len(ChunkCells(chunk))
               /\ Holds(FileOf(groups), place.dictionary, ChunkCells(chunk))
               /\ place.data = place.dictionary
                    + Len(ChunkCells([chunk EXCEPT !.pages = <<>>])) + chunk.off
<1> DEFINE group == groups[g]
           chunk == group[c]
           p == Len(UpTo(GroupList(groups), g - 1))
           q == Len(UpTo(ChunkList(group), c - 1))
<1>1. groups \in Seq(Seq(FileChunks))
  BY FileReaderAssumption
<1>2. /\ group \in Seq(FileChunks) /\ chunk \in FileChunks
      /\ g \in 1 .. Len(groups) /\ g - 1 \in 0 .. Len(groups)
      /\ c \in 1 .. Len(group) /\ c - 1 \in 0 .. Len(group)
  BY <1>1
<1>3. /\ Place(groups, g, c).dictionary = 1 + p + q
      /\ Place(groups, g, c).size = Len(ChunkCells(chunk))
      /\ Place(groups, g, c).data = 1 + p + q
           + Len(ChunkCells([chunk EXCEPT !.pages = <<>>])) + chunk.off
  <2>1. FlattenSeq([k \in 1 .. g - 1 |-> GroupCells(groups[k])]) = UpTo(GroupList(groups), g - 1)
    BY <1>1, <1>2, ListsUpTo
  <2>2. GroupCells(SubSeq(group, 1, c - 1)) = UpTo(ChunkList(group), c - 1)
    BY <1>2, ListsUpTo
  <2>3. QED BY <2>1, <2>2 DEF Place
<1>4. p \in Nat /\ Holds(FlattenSeq(GroupList(groups)), p, GroupCells(group))
  <2>1. GroupList(groups) \in Seq(Seq(Flesh)) /\ g \in 1 .. Len(GroupList(groups))
    BY <1>1, <1>2, GroupListType
  <2>2. GroupList(groups)[g] = GroupCells(group)
    BY DEF GroupList
  <2>3. QED BY <2>1, <2>2, HoldsPart
<1>5. q \in Nat /\ Holds(GroupCells(group), q, ChunkCells(chunk))
  <2>1. /\ ChunkList(group) \in Seq(Seq(Flesh)) /\ c \in 1 .. Len(ChunkList(group))
        /\ GroupCells(group) = FlattenSeq(ChunkList(group))
    BY <1>2, GroupCellsType
  <2>2. ChunkList(group)[c] = ChunkCells(chunk)
    BY DEF ChunkList
  <2>3. QED BY <2>1, <2>2, HoldsPart
<1>6. /\ GroupCells(group) \in Seq(Flesh) /\ ChunkCells(chunk) \in Seq(Flesh)
      /\ Begin(groups) \in Seq(Flesh) /\ FileOf(groups) \in Seq(Cells)
      /\ FlattenSeq(GroupList(groups)) \in Seq(Flesh)
  BY <1>2, GroupCellsType, ChunkCellsType, FileIs, HoldsBegin
<1> HIDE DEF group, chunk, p, q
<1>7. Holds(Begin(groups), 1 + p, GroupCells(group))
  BY <1>4, <1>6, HoldsBegin, HoldsThrough
<1>8. Holds(Begin(groups), 1 + p + q, ChunkCells(chunk))
  <2>1. 1 + p \in Nat
    BY <1>4
  <2>2. QED BY <1>5, <1>6, <1>7, <2>1, HoldsThrough
<1>9. Holds(FileOf(groups), 1 + p + q, ChunkCells(chunk))
  <2>1. PICK n \in Nat : n = 1 + p + q
    BY <1>4, <1>5
  <2>2. Seq(Flesh) \subseteq Seq(Cells)
    BY DEF Cells
  <2>3. Holds(FileOf(groups), 0 + n, ChunkCells(chunk))
    BY <1>6, <1>8, <2>1, <2>2, HoldsBegin, HoldsThrough
  <2>4. 0 + n = n
    BY <2>1
  <2>5. QED BY <2>1, <2>3, <2>4
<1>10. 1 + p + q \in Nat
  BY <1>4, <1>5
<1>11. QED BY <1>2, <1>3, <1>9, <1>10 DEF group, chunk

-------------------------------------------------------------------------------
(* The cached range.                                                       *)

\* What is cached are the cells of the image at its place.
FromImage(k) ==
    /\ k.at + Len(k.cells) <= Len(image)
    /\ k.cells = SubSeq(image, k.at + 1, k.at + Len(k.cells))

LEMMA GreatestNatural ==
    ASSUME NEW T, T \subseteq Nat, T # {}, NEW n \in Nat, \A k \in T : k <= n
    PROVE  \E m \in T : \A k \in T : m >= k
<1> DEFINE U == {n - k : k \in T}
<1>1. U \subseteq Nat /\ U # {}
  <2>1. \A k \in T : k \in Nat /\ k <= n
    OBVIOUS
  <2>2. \A k \in T : n - k \in Nat
    BY <2>1
  <2>3. QED BY <2>2
<1> HIDE DEF U
<1>2. PICK u \in U : \A k \in U : u <= k
  BY <1>1, LeastNatural
<1>3. PICK m \in T : u = n - m
  BY DEF U
<1>4. ASSUME NEW k \in T PROVE m >= k
  <2>1. n - k \in U
    BY DEF U
  <2>2. u <= n - k
    BY <1>2, <2>1
  <2>3. m \in Nat /\ k \in Nat
    OBVIOUS
  <2>4. QED BY <1>3, <2>2, <2>3
<1>5. QED BY <1>4

LEMMA NoCacheIs == ASSUME Stored PROVE NoCache \in Caches /\ FromImage(NoCache)
<1>1. image \in Seq(Cells) /\ Len(image) \in Nat
  BY ImageIs
<1>2. <<>> \in Seq(Cells) /\ Len(<<>>) = 0
  OBVIOUS
<1>3. NoCache \in Caches /\ NoCache.at = 0 /\ NoCache.cells = <<>>
  BY <1>2 DEF NoCache, Caches
<1>4. SubSeq(image, 1, 0) = <<>>
  BY <1>1, SubSeqEmpty
<1>5. QED BY <1>1, <1>2, <1>3, <1>4 DEF FromImage

LEMMA SliceIs ==
    ASSUME Stored, NEW m \in Nat, NEW n \in Nat, n <= Len(image), m <= n
    PROVE  LET k == [at |-> m, cells |-> SubSeq(image, m + 1, n)]
           IN  k \in Caches /\ FromImage(k)
<1> DEFINE k == [at |-> m, cells |-> SubSeq(image, m + 1, n)]
           s == SubSeq(image, m + 1, n)
<1>1. image \in Seq(Cells) /\ Len(image) \in Nat
  BY ImageIs
<1>2. s \in Seq(Cells) /\ Len(s) = n - m
  BY <1>1
<1>3. k.at = m /\ k.cells = s
  OBVIOUS
<1>4. k \in Caches
  BY <1>2 DEF Caches
<1> HIDE DEF k
<1>5. m + Len(s) = n
  BY <1>2
<1>6. FromImage(k)
  BY <1>3, <1>5 DEF FromImage, s
<1>7. QED BY <1>4, <1>6 DEF k

LEMMA AroundIs ==
    ASSUME Stored, NEW places, places # {},
           \A k \in places : /\ k.dictionary \in Nat /\ k.size \in Nat
                             /\ k.dictionary + k.size <= Len(image)
    PROVE  Around(places) \in Caches /\ FromImage(Around(places))
<1> DEFINE firsts == {k.dictionary : k \in places}
           ends   == {k.dictionary + k.size : k \in places}
           first  == CHOOSE x \in firsts : \A k \in places : x <= k.dictionary
           end    == CHOOSE x \in ends : \A k \in places : x >= k.dictionary + k.size
<1>1. Around(places) = [at |-> first, cells |-> SubSeq(image, first + 1, end)]
  BY DEF Around
<1>2. first \in Nat /\ \A k \in places : first <= k.dictionary
  <2>1. firsts \subseteq Nat /\ firsts # {}
    OBVIOUS
  <2>2. PICK x \in firsts : \A k \in firsts : x <= k
    BY <2>1, LeastNatural
  <2>3. \A k \in places : x <= k.dictionary
    BY <2>2
  <2>4. first \in firsts /\ \A k \in places : first <= k.dictionary
    BY <2>3
  <2>5. QED BY <2>1, <2>4
<1>3. end \in Nat /\ end <= Len(image) /\ \A k \in places : end >= k.dictionary + k.size
  <2>1. ends \subseteq Nat /\ ends # {} /\ \A x \in ends : x <= Len(image)
    OBVIOUS
  <2>2. Len(image) \in Nat
    BY ImageIs
  <2>3. PICK x \in ends : \A k \in ends : x >= k
    BY <2>1, <2>2, GreatestNatural
  <2>4. \A k \in places : x >= k.dictionary + k.size
    BY <2>3
  <2>5. end \in ends /\ \A k \in places : end >= k.dictionary + k.size
    BY <2>4
  <2>6. QED BY <2>1, <2>5
<1> HIDE DEF first, end
<1>4. first <= end
  <2>1. PICK k \in places : TRUE
    OBVIOUS
  <2>2. first <= k.dictionary /\ end >= k.dictionary + k.size
    BY <1>2, <1>3
  <2>3. k.dictionary \in Nat /\ k.size \in Nat
    OBVIOUS
  <2>4. QED BY <1>2, <1>3, <2>2, <2>3
<1>5. QED BY <1>1, <1>2, <1>3, <1>4, SliceIs

\* Whatever is cached, what is read is what is in the file.
Cached == reader.cache \in Caches /\ FromImage(reader.cache)

LEMMA InFileIs ==
    ASSUME Stored, NEW at \in Nat, NEW n \in Nat, at <= Len(image)
    PROVE  LET rest == Len(image) - at
               there == IF n <= rest THEN n ELSE rest
           IN  /\ InFile(at, n) \in Seq(Cells) /\ Len(InFile(at, n)) = there
               /\ \A i \in 1 .. there : InFile(at, n)[i] = image[at + i]
<1>1. image \in Seq(Cells) /\ Len(image) \in Nat
  BY ImageIs
<1> DEFINE rest == Len(image) - at
           there == IF n <= rest THEN n ELSE rest
           s == SubSeq(image, at + 1, at + there)
<1>2. there \in Nat /\ at + there <= Len(image)
  BY <1>1
<1>3. InFile(at, n) = s
  <2>1. (IF at + n <= Len(image) THEN at + n ELSE Len(image)) = at + there
    BY <1>1
  <2>2. QED BY <2>1 DEF InFile
<1> HIDE DEF there
<1>4. s \in Seq(Cells) /\ Len(s) = there /\ \A i \in 1 .. there : s[i] = image[at + i]
  <2>1. s \in Seq(Cells) /\ IsSlice(s, image, at, there)
    BY <1>1, <1>2, SliceParts
  <2> HIDE DEF s
  <2>2. QED BY <2>1 DEF IsSlice
<1>5. QED BY <1>3, <1>4 DEF there

LEMMA WithinRange ==
    ASSUME NEW A, NEW x \in Seq(A), NEW base \in Nat, NEW m \in Nat, base + m <= Len(x),
           NEW at \in Nat, NEW n \in Nat, at >= base, at + n <= base + m
    PROVE  SubSeq(SubSeq(x, base + 1, base + m), at - base + 1, at - base + n)
             = SubSeq(x, at + 1, at + n)
<1> DEFINE range == SubSeq(x, base + 1, base + m)
<1>1. range \in Seq(A) /\ Len(range) = m /\ \A i \in 1 .. m : range[i] = x[base + i]
  <2>1. range \in Seq(A) /\ IsSlice(range, x, base, m)
    BY SliceParts
  <2> HIDE DEF range
  <2>2. QED BY <2>1 DEF IsSlice
<1>2. PICK j \in Nat : j = at - base /\ j + n <= m /\ base + j = at
  OBVIOUS
<1> HIDE DEF range
<1> DEFINE s == SubSeq(range, j + 1, j + n)
           t == SubSeq(x, at + 1, at + n)
<1>3. s \in Seq(A) /\ Len(s) = n /\ \A i \in 1 .. n : s[i] = range[j + i]
  <2>1. s \in Seq(A) /\ IsSlice(s, range, j, n)
    BY <1>1, <1>2, SliceParts
  <2> HIDE DEF s
  <2>2. QED BY <2>1 DEF IsSlice
<1>4. t \in Seq(A) /\ Len(t) = n /\ \A i \in 1 .. n : t[i] = x[at + i]
  <2>1. at + n <= Len(x)
    OBVIOUS
  <2>2. t \in Seq(A) /\ IsSlice(t, x, at, n)
    BY <2>1, SliceParts
  <2> HIDE DEF t
  <2>3. QED BY <2>2 DEF IsSlice
<1>5. ASSUME NEW i \in 1 .. n PROVE range[j + i] = x[at + i]
  <2>1. j + i \in 1 .. m /\ base + (j + i) = at + i
    BY <1>2
  <2>2. QED BY <1>1, <2>1
<1> HIDE DEF s, t
<1>6. s = t
  <2>1. s \in Seq(A) /\ t \in Seq(A) /\ Len(s) = Len(t)
    BY <1>3, <1>4
  <2>2. \A i \in 1 .. Len(s) : s[i] = t[i]
    BY <1>3, <1>4, <1>5
  <2>3. QED BY <2>1, <2>2, SeqEqual
<1>7. QED BY <1>2, <1>6 DEF s, t, range

LEMMA ReadAtIs ==
    ASSUME Stored, Cached, NEW at \in Nat, NEW n \in Nat, at <= Len(image)
    PROVE  ReadAt(at, n) = InFile(at, n)
<1> DEFINE base == reader.cache.at
           held == reader.cache.cells
           m == Len(held)
<1>1. image \in Seq(Cells) /\ Len(image) \in Nat
  BY ImageIs
<1>2. /\ base \in Nat /\ m \in Nat /\ base + m <= Len(image)
      /\ held = SubSeq(image, base + 1, base + m)
  BY DEF Cached, FromImage, Caches
<1>3. ReadAt(at, n) = IF reader.cache # NoCache /\ at >= base /\ at + n <= base + m
                      THEN SubSeq(held, at - base + 1, at - base + n)
                      ELSE InFile(at, n)
  BY DEF ReadAt
<1> HIDE DEF m, held, base
<1>4. CASE at >= base /\ at + n <= base + m
  <2>1. SubSeq(held, at - base + 1, at - base + n) = SubSeq(image, at + 1, at + n)
    BY <1>1, <1>2, <1>4, WithinRange
  <2>2. at + n <= Len(image)
    BY <1>1, <1>2, <1>4
  <2>3. InFile(at, n) = SubSeq(image, at + 1, at + n)
    BY <2>2 DEF InFile
  <2>4. QED BY <1>3, <2>1, <2>3
<1>5. CASE ~(at >= base /\ at + n <= base + m)
  BY <1>3, <1>5
<1>6. QED BY <1>4, <1>5

-------------------------------------------------------------------------------
(* Reading a page where one is.                                            *)

\* A read of one cell or more begins with the page's header, and is enough of it
\* when it is as long.
LEMMA HeaderRead ==
    ASSUME Stored, NEW page \in FilePages, NEW at \in Nat, Holds(image, at, PageCells(page)),
           NEW n \in Nat \ {0}
    PROVE  /\ InFile(at, n)[1] = <<"head", page>>
           /\ Understood(InFile(at, n)) <=> n >= page.head
           /\ n <= page.head => Len(InFile(at, n)) = n
<1> DEFINE cells == InFile(at, n)
           rest == Len(image) - at
<1>1. /\ page.head \in Nat \ {0} /\ Len(page.data) \in Nat
      /\ Len(PageCells(page)) = page.head + Len(page.data)
      /\ PageCells(page)[1] = <<"head", page>>
  BY PageCellsIs
<1>2. Len(image) \in Nat
  BY ImageIs
<1>3. at <= Len(image) /\ rest \in Nat /\ rest >= page.head
  BY <1>1, <1>2 DEF Holds
<1>4. image[at + 1] = <<"head", page>>
  BY <1>1 DEF Holds
<1>5. /\ cells \in Seq(Cells) /\ Len(cells) = IF n <= rest THEN n ELSE rest
      /\ \A i \in 1 .. Len(cells) : cells[i] = image[at + i]
  BY <1>3, InFileIs
<1> HIDE DEF cells, rest
<1>6. Len(cells) \in Nat \ {0} /\ (Len(cells) >= page.head <=> n >= page.head)
  BY <1>1, <1>3, <1>5
<1>7. n <= page.head => Len(cells) = n
  BY <1>1, <1>3, <1>5
<1>8. cells[1] = <<"head", page>> /\ cells # <<>>
  BY <1>4, <1>5, <1>6
<1>9. Understood(cells) <=> n >= page.head
  <2>1. cells[1][1] = "head" /\ cells[1][2] = page
    BY <1>8
  <2>2. Understood(cells) <=> Len(cells) >= page.head
    BY <1>8, <2>1 DEF Understood
  <2>3. QED BY <1>6, <2>2
<1>10. QED BY <1>7, <1>8, <1>9 DEF cells

LEMMA HeaderCellsIs ==
    ASSUME Stored, Cached, NEW page \in FilePages, NEW at \in Nat,
           Holds(image, at, PageCells(page))
    PROVE  Understood(HeaderCells(at)) /\ HeaderCells(at)[1] = <<"head", page>>
<1>1. /\ page.head \in Nat \ {0} /\ page.head <= MaxWindow /\ Len(page.data) \in Nat
      /\ Len(PageCells(page)) = page.head + Len(page.data)
  BY PageCellsIs
<1>2. Len(image) \in Nat /\ at <= Len(image) /\ Len(image) >= page.head
  <2>1. Len(image) \in Nat
    BY ImageIs
  <2>2. QED BY <1>1, <2>1 DEF Holds
<1>3. CASE reader.mapped
  <2>1. Len(image) \in Nat \ {0}
    BY <1>1, <1>2
  <2>2. HeaderCells(at) = InFile(at, Len(image))
    BY <1>3 DEF HeaderCells
  <2>3. QED BY <1>2, <2>1, <2>2, HeaderRead
<1>4. CASE ~reader.mapped
  <2>1. Guesses \subseteq Nat \ {0} /\ MaxWindow \in Guesses
    <3>1. MaxWindow \in Nat \ {0}
      BY FileReaderAssumption
    <3>2. 1 .. MaxWindow \subseteq Nat \ {0}
      BY <3>1
    <3>3. QED BY <3>1, <3>2 DEF Guesses
  <2>2. ASSUME NEW n \in Guesses
        PROVE  /\ ReadAt(at, n)[1] = <<"head", page>>
               /\ Understood(ReadAt(at, n)) <=> n >= page.head
               /\ n <= page.head => Len(ReadAt(at, n)) = n
    <3>1. n \in Nat \ {0} /\ ReadAt(at, n) = InFile(at, n)
      BY <1>2, <2>1, ReadAtIs
    <3>2. QED BY <3>1, HeaderRead
  <2> DEFINE enough == {n \in Guesses : Understood(ReadAt(at, n)) /\ Grown(at, n)}
             long == {n \in Guesses : n >= page.head}
  <2>3. long \subseteq Nat /\ long # {}
    BY <1>1, <2>1
  <2>4. PICK n \in long : \A k \in long : n <= k
    BY <2>3, LeastNatural
  <2>5. n \in Guesses /\ Understood(ReadAt(at, n))
    BY <2>2, <2>4
  <2>6. Grown(at, n)
    <3>1. SUFFICES ASSUME NEW k \in Guesses, k < n
                   PROVE  Len(ReadAt(at, k)) = k /\ ~Understood(ReadAt(at, k))
      BY DEF Grown
    <3>2. ~(k >= page.head)
      BY <2>1, <2>4, <2>5, <3>1
    <3>3. k <= page.head
      BY <1>1, <2>1, <3>2
    <3>4. QED BY <2>2, <3>2, <3>3
  <2>7. enough # {}
    BY <2>5, <2>6
  <2>8. HeaderCells(at) = ReadAt(at, CHOOSE m \in enough : TRUE)
    BY <1>4, <2>7 DEF HeaderCells
  <2>9. PICK m \in enough : HeaderCells(at) = ReadAt(at, m)
    BY <2>7, <2>8
  <2>10. QED BY <2>2, <2>9
<1>5. QED BY <1>3, <1>4

\* A page is read as it was written.
PageRead(page) == [ok |-> TRUE, data |-> page.data, size |-> page.head + Len(page.data)]

LEMMA PageAtIs ==
    ASSUME Stored, Cached, NEW page \in FilePages, NEW at \in Nat,
           Holds(image, at, PageCells(page))
    PROVE  PageAt(at) = PageRead(page)
<1>1. /\ page.head \in Nat \ {0} /\ Len(page.data) \in Nat /\ page.data \in Seq(DataCells)
      /\ Len(PageCells(page)) = page.head + Len(page.data)
      /\ \A i \in 1 .. Len(page.data) : PageCells(page)[page.head + i] = page.data[i]
  BY PageCellsIs DEF FilePages
<1> DEFINE h == HeaderCells(at)
           there == at + page.head
           n == Len(page.data)
<1>2. Understood(h) /\ h[1][2] = page
  BY HeaderCellsIs
<1>3. Len(image) \in Nat /\ there \in Nat /\ there <= Len(image) /\ there + n <= Len(image)
  <2>1. Len(image) \in Nat
    BY ImageIs
  <2>2. QED BY <1>1, <2>1 DEF Holds
<1>4. InFile(there, n) = page.data
  <2>1. n <= Len(image) - there
    BY <1>1, <1>3
  <2>2. /\ InFile(there, n) \in Seq(Cells) /\ Len(InFile(there, n)) = n
        /\ \A i \in 1 .. n : InFile(there, n)[i] = image[there + i]
    BY <1>1, <1>3, <2>1, InFileIs
  <2>3. ASSUME NEW i \in 1 .. n PROVE image[there + i] = page.data[i]
    <3>1. page.head + i \in 1 .. Len(PageCells(page)) /\ at + (page.head + i) = there + i
      BY <1>1
    <3>2. image[at + (page.head + i)] = PageCells(page)[page.head + i]
      BY <3>1 DEF Holds
    <3>3. QED BY <1>1, <3>1, <3>2
  <2>4. page.data \in Seq(Cells)
    BY <1>1 DEF Cells, Flesh
  <2>5. QED BY <2>2, <2>3, <2>4, SeqEqual
<1>5. ReadAt(there, n) = page.data
  BY <1>1, <1>3, <1>4, ReadAtIs
<1> HIDE DEF h
<1>6. PageWith(h, at) = PageRead(page)
  BY <1>2, <1>3, <1>4, <1>5 DEF PageWith, PageRead
<1>7. QED BY <1>6 DEF PageAt, h

-------------------------------------------------------------------------------
(* Where the pages of a chunk lie.                                         *)

DictionarySize(chunk) == Len(FlattenSeq(PageList(chunk.dictionary)))
PagesSize(chunk, n) == Len(UpTo(PageList(chunk.pages), n))

LEMMA SizesAreNat ==
    ASSUME NEW chunk \in FileChunks
    PROVE  /\ DictionarySize(chunk) \in Nat
           /\ PagesSize(chunk, 0) = 0
           /\ \A n \in 0 .. Len(chunk.pages) : PagesSize(chunk, n) \in Nat
           /\ \A n \in 1 .. Len(chunk.pages) :
                 PagesSize(chunk, n) = PagesSize(chunk, n - 1) + Len(PageCells(chunk.pages[n]))
<1>1. chunk.dictionary \in Seq(FilePages) /\ chunk.pages \in Seq(FilePages)
  BY DEF FileChunks
<1>2. DictionarySize(chunk) \in Nat
  <2>1. FlattenSeq(PageList(chunk.dictionary)) \in Seq(Flesh)
    BY <1>1, PageListType, FlattenType
  <2>2. QED BY <2>1 DEF DictionarySize
<1> DEFINE list == PageList(chunk.pages)
<1>3. list \in Seq(Seq(Flesh)) /\ Len(list) = Len(chunk.pages)
  BY <1>1, PageListType
<1>4. /\ UpTo(list, 0) = <<>>
      /\ \A n \in 0 .. Len(list) : UpTo(list, n) \in Seq(Flesh)
      /\ \A n \in 1 .. Len(list) : UpTo(list, n) = UpTo(list, n - 1) \o list[n]
  BY <1>3, FlattenUpTo
<1>5. \A n \in 1 .. Len(list) : list[n] = PageCells(chunk.pages[n]) /\ list[n] \in Seq(Flesh)
  BY <1>3 DEF PageList
<1> HIDE DEF list
<1>6. PagesSize(chunk, 0) = 0
  BY <1>4 DEF PagesSize, list
<1>7. \A n \in 0 .. Len(chunk.pages) : PagesSize(chunk, n) \in Nat
  BY <1>3, <1>4 DEF PagesSize, list
<1>8. ASSUME NEW n \in 1 .. Len(chunk.pages)
      PROVE  PagesSize(chunk, n) = PagesSize(chunk, n - 1) + Len(PageCells(chunk.pages[n]))
  <2>1. n - 1 \in 0 .. Len(list) /\ n \in 1 .. Len(list)
    BY <1>1, <1>3
  <2>2. UpTo(list, n - 1) \in Seq(Flesh) /\ list[n] \in Seq(Flesh)
    BY <1>4, <1>5, <2>1
  <2>3. Len(UpTo(list, n)) = Len(UpTo(list, n - 1)) + Len(list[n])
    BY <1>4, <2>1, <2>2, ConcatProperties
  <2>4. QED BY <1>5, <2>1, <2>3 DEF PagesSize, list
<1>9. QED BY <1>2, <1>6, <1>7, <1>8

\* The pages of a chunk come behind its dictionary.
LEMMA PagesBehind ==
    ASSUME NEW chunk \in FileChunks
    PROVE  LET list == PageList(AllPages(chunk))
               d == Len(chunk.dictionary)
           IN  /\ list \in Seq(Seq(Flesh)) /\ d \in Nat
               /\ Len(list) = d + Len(chunk.pages) /\ Len(chunk.pages) \in Nat
               /\ \A i \in 1 .. d : list[i] = PageCells(chunk.dictionary[i])
               /\ \A i \in 1 .. Len(chunk.pages) : list[d + i] = PageCells(chunk.pages[i])
               /\ \A n \in 0 .. Len(chunk.pages) :
                     Len(UpTo(list, d + n)) = DictionarySize(chunk) + PagesSize(chunk, n)
<1> DEFINE list == PageList(AllPages(chunk))
           s == PageList(chunk.dictionary)
           t == PageList(chunk.pages)
           d == Len(chunk.dictionary)
           m == Len(chunk.pages)
<1>1. chunk.dictionary \in Seq(FilePages) /\ chunk.pages \in Seq(FilePages)
  BY DEF FileChunks
<1>2. /\ s \in Seq(Seq(Flesh)) /\ Len(s) = d /\ t \in Seq(Seq(Flesh)) /\ Len(t) = m
      /\ d \in Nat /\ m \in Nat
  BY <1>1, PageListType
<1>3. /\ \A i \in 1 .. d : s[i] = PageCells(chunk.dictionary[i])
      /\ \A i \in 1 .. m : t[i] = PageCells(chunk.pages[i])
  BY <1>1 DEF PageList
<1>4. list = s \o t
  <2> DEFINE all == chunk.dictionary \o chunk.pages
  <2>1. /\ all \in Seq(FilePages) /\ Len(all) = d + m
        /\ \A i \in 1 .. d + m : all[i] = IF i <= d THEN chunk.dictionary[i] ELSE chunk.pages[i - d]
    BY <1>1, ConcatProperties
  <2>2. list = PageList(all)
    BY DEF AllPages
  <2> HIDE DEF all
  <2>3. PageList(all) \in Seq(Seq(Flesh)) /\ Len(PageList(all)) = d + m
    BY <2>1, PageListType
  <2>4. \A i \in 1 .. d + m : PageList(all)[i] = PageCells(all[i])
    BY <1>2, <2>1 DEF PageList
  <2> HIDE DEF list, s, t, d, m
  <2>5. /\ s \o t \in Seq(Seq(Flesh)) /\ Len(s \o t) = d + m
        /\ \A i \in 1 .. d + m : (s \o t)[i] = IF i <= d THEN s[i] ELSE t[i - d]
    BY <1>2, ConcatProperties
  <2>6. ASSUME NEW i \in 1 .. d + m PROVE PageList(all)[i] = (s \o t)[i]
    <3>1. CASE i <= d
      <4>1. i \in 1 .. d
        BY <1>2, <3>1
      <4>2. QED BY <1>3, <2>1, <2>4, <2>5, <3>1, <4>1
    <3>2. CASE ~(i <= d)
      <4>1. i - d \in 1 .. m
        BY <1>2, <3>2
      <4>2. QED BY <1>3, <2>1, <2>4, <2>5, <3>2, <4>1
    <3>3. QED BY <3>1, <3>2
  <2>7. QED BY <2>2, <2>3, <2>5, <2>6, SeqEqual
<1>5. \A n \in 0 .. Len(t) : UpTo(s \o t, Len(s) + n) = FlattenSeq(s) \o UpTo(t, n)
  BY <1>2, FlattenBehind
<1>6. /\ FlattenSeq(s) \in Seq(Flesh) /\ Len(FlattenSeq(s)) = DictionarySize(chunk)
      /\ \A n \in 0 .. m : UpTo(t, n) \in Seq(Flesh) /\ Len(UpTo(t, n)) = PagesSize(chunk, n)
  BY <1>2, FlattenType, FlattenUpTo DEF DictionarySize, PagesSize
<1> HIDE DEF list, s, t, d, m
<1>7. \A n \in 0 .. m : Len(UpTo(list, d + n)) = DictionarySize(chunk) + PagesSize(chunk, n)
  <2>1. ASSUME NEW n \in 0 .. m
        PROVE  Len(UpTo(list, d + n)) = DictionarySize(chunk) + PagesSize(chunk, n)
    <3>1. UpTo(list, d + n) = FlattenSeq(s) \o UpTo(t, n)
      BY <1>2, <1>4, <1>5
    <3>2. FlattenSeq(s) \in Seq(Flesh) /\ UpTo(t, n) \in Seq(Flesh)
      BY <1>6
    <3>3. Len(FlattenSeq(s) \o UpTo(t, n)) = Len(FlattenSeq(s)) + Len(UpTo(t, n))
      BY <3>2, ConcatProperties
    <3>4. QED BY <1>6, <3>1, <3>3
  <2>2. QED BY <2>1
<1>8. /\ list \in Seq(Seq(Flesh)) /\ Len(list) = d + m
      /\ \A i \in 1 .. d : list[i] = s[i]
      /\ \A i \in 1 .. m : list[d + i] = t[i]
  <2>1. list \in Seq(Seq(Flesh)) /\ IsConcat(list, s, t)
    BY <1>2, <1>4, ConcatParts
  <2>2. QED BY <1>2, <2>1 DEF IsConcat
<1>9. QED BY <1>2, <1>3, <1>7, <1>8 DEF list, d, m

LEMMA PageLies ==
    ASSUME NEW groups \in Layouts, NEW g \in DOMAIN groups, NEW c \in DOMAIN groups[g],
           NEW n \in 1 .. Len(groups[g][c].pages)
    PROVE  LET chunk == groups[g][c]
               at == Place(groups, g, c).dictionary + DictionarySize(chunk) + PagesSize(chunk, n - 1)
           IN  at \in Nat /\ Holds(FileOf(groups), at, PageCells(chunk.pages[n]))
<1> DEFINE chunk == groups[g][c]
           place == Place(groups, g, c).dictionary
           list == PageList(AllPages(chunk))
           d == Len(chunk.dictionary)
           behind == DictionarySize(chunk) + PagesSize(chunk, n - 1)
<1>1. /\ chunk \in FileChunks /\ place \in Nat
      /\ Holds(FileOf(groups), place, ChunkCells(chunk))
  BY PlaceIs
<1>2. /\ list \in Seq(Seq(Flesh)) /\ d \in Nat
      /\ Len(list) = d + Len(chunk.pages) /\ Len(chunk.pages) \in Nat
      /\ list[d + n] = PageCells(chunk.pages[n])
      /\ \A k \in 0 .. Len(chunk.pages) :
            Len(UpTo(list, d + k)) = DictionarySize(chunk) + PagesSize(chunk, k)
  BY <1>1, PagesBehind
<1>3. chunk.pages \in Seq(FilePages) /\ chunk.pages[n] \in FilePages
  BY <1>1 DEF FileChunks
<1>4. ChunkCells(chunk) = FlattenSeq(list) /\ ChunkCells(chunk) \in Seq(Flesh)
  BY <1>1, ChunkCellsType
<1>5. behind \in Nat
  <2>1. n - 1 \in 0 .. Len(chunk.pages)
    BY <1>2
  <2>2. DictionarySize(chunk) \in Nat /\ PagesSize(chunk, n - 1) \in Nat
    BY <1>1, <2>1, SizesAreNat
  <2>3. QED BY <2>2
<1> HIDE DEF chunk, place, list, d
<1>6. Holds(FlattenSeq(list), behind, list[d + n])
  <2>1. PICK k \in 1 .. Len(list) : k = d + n /\ k - 1 = d + (n - 1)
    BY <1>2 DEF chunk
  <2>2. Holds(FlattenSeq(list), Len(UpTo(list, k - 1)), list[k])
    BY <1>2, HoldsPart
  <2>3. n - 1 \in 0 .. Len(chunk.pages)
    BY <1>2 DEF chunk
  <2>4. Len(UpTo(list, d + (n - 1))) = behind
    BY <1>2, <2>3
  <2>5. QED BY <2>1, <2>2, <2>4
<1>7. Holds(FileOf(groups), place + behind, PageCells(chunk.pages[n]))
  <2>1. FileOf(groups) \in Seq(Cells)
    BY FileIs
  <2>2. PageCells(chunk.pages[n]) \in Seq(Flesh) /\ Seq(Flesh) \subseteq Seq(Cells)
    BY <1>3, PageCellsIs DEF Cells
  <2>3. QED BY <1>1, <1>2, <1>4, <1>5, <1>6, <2>1, <2>2, HoldsThrough
<1>8. place + behind = place + DictionarySize(chunk) + PagesSize(chunk, n - 1)
  <2>1. n - 1 \in 0 .. Len(chunk.pages)
    BY <1>2 DEF chunk
  <2>2. DictionarySize(chunk) \in Nat /\ PagesSize(chunk, n - 1) \in Nat
    BY <1>1, <2>1, SizesAreNat
  <2>3. QED BY <1>1, <2>2
<1>9. place + behind \in Nat
  BY <1>1, <1>5
<1>10. QED BY <1>7, <1>8, <1>9 DEF place, chunk

LEMMA DictionaryLies ==
    ASSUME NEW groups \in Layouts, NEW g \in DOMAIN groups, NEW c \in DOMAIN groups[g]
    PROVE  LET chunk == groups[g][c]
               place == Place(groups, g, c)
           IN  /\ chunk.dictionary = <<>> => place.data = place.dictionary + DictionarySize(chunk)
               /\ chunk.dictionary # <<>> =>
                     /\ chunk.dictionary[1] \in FilePages
                     /\ DictionarySize(chunk) = Len(PageCells(chunk.dictionary[1]))
                     /\ Holds(FileOf(groups), place.dictionary, PageCells(chunk.dictionary[1]))
<1> DEFINE chunk == groups[g][c]
           place == Place(groups, g, c)
           list == PageList(AllPages(chunk))
<1>1. /\ chunk \in FileChunks /\ place.dictionary \in Nat
      /\ Holds(FileOf(groups), place.dictionary, ChunkCells(chunk))
      /\ place.data = place.dictionary
                    + Len(ChunkCells([chunk EXCEPT !.pages = <<>>])) + chunk.off
  BY PlaceIs
<1>2. chunk.dictionary \in Seq(FilePages) /\ chunk.off \in Nat /\ OfTheFormat(chunk)
  BY <1>1, FileReaderAssumption DEF FileChunks
<1> HIDE DEF chunk, place
<1>3. ASSUME chunk.dictionary = <<>> PROVE place.data = place.dictionary + DictionarySize(chunk)
  <2> DEFINE bare == [chunk EXCEPT !.pages = <<>>]
  <2>1. AllPages(bare) = <<>>
    <3>1. bare.dictionary = <<>> /\ bare.pages = <<>>
      BY <1>1, <1>3 DEF FileChunks
    <3>2. <<>> \o <<>> = <<>>
      OBVIOUS
    <3>3. QED BY <3>1, <3>2 DEF AllPages
  <2>2. FlattenSeq([p \in DOMAIN <<>> |-> PageCells(<<>>[p])]) = <<>>
    <3>1. [p \in DOMAIN <<>> |-> PageCells(<<>>[p])] = <<>>
      OBVIOUS
    <3>2. QED BY <3>1, FlattenEmpty
  <2>3. ChunkCells(bare) = <<>>
    BY <2>1, <2>2 DEF ChunkCells
  <2>4. DictionarySize(chunk) = 0
    BY <1>3, <2>2 DEF DictionarySize, PageList
  <2>5. chunk.off = 0
    BY <1>2, <1>3 DEF OfTheFormat
  <2> HIDE DEF bare
  <2>6. Len(<<>>) = 0
    OBVIOUS
  <2>7. QED BY <1>1, <2>3, <2>4, <2>5, <2>6 DEF bare
<1>4. ASSUME chunk.dictionary # <<>>
      PROVE  /\ chunk.dictionary[1] \in FilePages
             /\ DictionarySize(chunk) = Len(PageCells(chunk.dictionary[1]))
             /\ Holds(FileOf(groups), place.dictionary, PageCells(chunk.dictionary[1]))
  <2>1. Len(chunk.dictionary) = 1 /\ chunk.dictionary[1] \in FilePages
    <3> DEFINE s == chunk.dictionary
    <3>1. s \in Seq(FilePages) /\ s # <<>> /\ Len(s) <= 1
      BY <1>2, <1>4 DEF OfTheFormat
    <3> HIDE DEF s
    <3>2. Len(s) # 0 /\ Len(s) \in Nat
      BY <3>1, EmptySeq
    <3>3. Len(s) = 1
      <4>1. \A n \in Nat : n # 0 /\ n <= 1 => n = 1
        OBVIOUS
      <4>2. Len(s) <= 1
        BY <3>1
      <4>3. QED BY <3>2, <4>1, <4>2, Zenon
    <3>4. s[1] \in FilePages
      BY <3>1, <3>3
    <3>5. QED BY <3>3, <3>4 DEF s
  <2> DEFINE part == PageCells(chunk.dictionary[1])
  <2>2. part \in Seq(Flesh)
    BY <2>1, PageCellsIs
  <2>3. PageList(chunk.dictionary) = << part >>
    BY <1>2, <2>1 DEF PageList
  <2> HIDE DEF part
  <2>4. FlattenSeq(<< part >>) = part
    <3>1. /\ Append(<<>>, part) = << part >> /\ <<>> \in Seq(Seq(Flesh)) /\ <<>> \in Seq(Flesh)
      OBVIOUS
    <3>2. FlattenSeq(Append(<<>>, part)) = FlattenSeq(<<>>) \o part
      BY <2>2, <3>1, FlattenAppend
    <3>3. QED BY <2>2, <3>1, <3>2, FlattenEmpty, ConcatEmptySeq
  <2>5. DictionarySize(chunk) = Len(part)
    BY <2>3, <2>4 DEF DictionarySize
  <2>6. /\ list \in Seq(Seq(Flesh)) /\ 1 \in 1 .. Len(list) /\ list[1] = part
    <3>1. /\ list \in Seq(Seq(Flesh)) /\ Len(chunk.pages) \in Nat
          /\ Len(list) = Len(chunk.dictionary) + Len(chunk.pages)
          /\ \A i \in 1 .. Len(chunk.dictionary) : list[i] = PageCells(chunk.dictionary[i])
      BY <1>1, PagesBehind
    <3>2. QED BY <2>1, <3>1 DEF part
  <2>7. ChunkCells(chunk) = FlattenSeq(list) /\ ChunkCells(chunk) \in Seq(Flesh)
    BY <1>1, ChunkCellsType
  <2> HIDE DEF list
  <2>8. Holds(FlattenSeq(list), 0, part)
    <3>1. Holds(FlattenSeq(list), Len(UpTo(list, 1 - 1)), list[1])
      BY <2>6, HoldsPart
    <3>2. UpTo(list, 0) = <<>>
      BY <2>6, FlattenUpTo
    <3>3. 1 - 1 = 0 /\ Len(<<>>) = 0
      OBVIOUS
    <3>4. QED BY <2>6, <3>1, <3>2, <3>3
  <2>9. Holds(FileOf(groups), place.dictionary + 0, part)
    <3>1. FileOf(groups) \in Seq(Cells) /\ Seq(Flesh) \subseteq Seq(Cells)
      BY FileIs DEF Cells
    <3>2. QED BY <1>1, <2>2, <2>7, <2>8, <3>1, HoldsThrough
  <2>10. place.dictionary + 0 = place.dictionary
    BY <1>1
  <2>11. QED BY <2>1, <2>5, <2>9, <2>10 DEF part
<1>5. QED BY <1>3, <1>4 DEF chunk, place

-------------------------------------------------------------------------------
(* The invariants.                                                         *)

Contents == Seq(DataCells)
Cursors == [of : Seq(Nat), dictionary : Seq(Contents), start : Nat, next : Nat, left : Nat,
            got : Seq(Contents), failed : BOOLEAN]

Types == Stored /\ reader \in Readers /\ cursor \in Cursors /\ calls \in Nat

\* Until a file is open no column is read.
Opened == OnlyWholeFilesOpen /\ (reader.state = "closed" => cursor = NoColumn)

ChunkOf(col) == layout[col.of[1]][col.of[2]]
Named(col) ==
    /\ Len(col.of) = 2
    /\ col.of[1] \in DOMAIN layout /\ col.of[2] \in DOMAIN layout[col.of[1]]

\* The chunk has no dictionary, or it is loaded.
Loaded(col) == ChunkOf(col).dictionary = <<>> \/ col.dictionary # <<>>

\* The pages of a column so far: what was read is the first of them, and the
\* next one lies behind them and the dictionary.
ReadSoFar(col) ==
    LET chunk == ChunkOf(col)
    IN  /\ Named(col) /\ ~col.failed
        /\ Len(col.got) + col.left = Len(chunk.pages)
        /\ \A p \in 1 .. Len(col.got) : col.got[p] = chunk.pages[p].data
        /\ col.next = PagesSize(chunk, Len(col.got))
        /\ col.dictionary # <<>> =>
              chunk.dictionary # <<>> /\ col.dictionary = << chunk.dictionary[1].data >>
        /\ IF Loaded(col)
           THEN col.start = Place(layout, col.of[1], col.of[2]).dictionary + DictionarySize(chunk)
           ELSE col.got = <<>>

Reading == IsOpen /\ cursor # NoColumn => ReadSoFar(cursor)

ReaderInv == Types /\ Opened /\ Cached /\ Reading

LEMMA NoColumnIs ==
    /\ NoColumn \in Cursors /\ NoColumn.of = <<>> /\ NoColumn.dictionary = <<>>
    /\ NoColumn.next = 0 /\ NoColumn.got = <<>> /\ NoColumn.failed = FALSE
<1>1. <<>> \in Seq(Nat) /\ <<>> \in Seq(Contents) /\ 0 \in Nat /\ FALSE \in BOOLEAN
  OBVIOUS
<1>2. QED BY <1>1 DEF NoColumn, Cursors

LEMMA ReaderInvInit == ReaderInit => ReaderInv
<1> SUFFICES ASSUME ReaderInit PROVE ReaderInv
  OBVIOUS
<1>1. Stored
  BY DEF ReaderInit, Stored
<1>2. Closed \in Readers /\ Closed.state = "closed" /\ Closed.cache = NoCache
  BY <1>1, NoCacheIs DEF Closed, Readers
<1>3. Types
  BY <1>1, <1>2, NoColumnIs DEF ReaderInit, Types
<1>4. Opened
  BY <1>2 DEF ReaderInit, Opened, OnlyWholeFilesOpen, IsOpen
<1>5. Cached
  BY <1>1, <1>2, NoCacheIs DEF ReaderInit, Cached
<1>6. Reading
  BY DEF ReaderInit, Reading
<1>7. QED BY <1>3, <1>4, <1>5, <1>6 DEF ReaderInv

\* What the invariant says of an open file.
LEMMA OfAnOpenFile ==
    ASSUME ReaderInv, IsOpen
    PROVE  /\ layout \in Layouts /\ layout \in Seq(Seq(FileChunks))
           /\ image = FileOf(layout) /\ reader.metadata = layout
           /\ reader \in Readers /\ cursor \in Cursors
<1>1. layout \in Layouts
  BY DEF ReaderInv, Types, Stored
<1>2. QED BY <1>1, FileReaderAssumption DEF ReaderInv, Types, Opened, OnlyWholeFilesOpen

\* Nothing but the reader and the calls change.
LEMMA CursorKept ==
    ASSUME ReaderInv, UNCHANGED <<layout, image, cursor>>,
           reader' \in Readers, calls' \in Nat,
           reader'.state = reader.state, reader'.metadata = reader.metadata,
           reader'.cache \in Caches, FromImage(reader'.cache)
    PROVE  ReaderInv'
<1>1. Types'
  BY DEF ReaderInv, Types, Stored
<1>2. Opened'
  BY DEF ReaderInv, Opened, OnlyWholeFilesOpen, IsOpen
<1>3. Cached'
  BY DEF Cached, FromImage
<1>4. Reading'
  BY DEF ReaderInv, Reading, IsOpen, ReadSoFar, ChunkOf, Named, Loaded
<1>5. QED BY <1>1, <1>2, <1>3, <1>4 DEF ReaderInv

LEMMA OpenStep ==
    ASSUME ReaderInv, NEW way \in DOMAIN Mapping, Open(way)
    PROVE  ReaderInv'
<1>1. /\ Stored /\ cursor = NoColumn
      /\ layout' = layout /\ image' = image /\ cursor' = cursor /\ calls' = calls
  BY DEF ReaderInv, Types, Opened, Open
<1>2. \/ reader' = Refused /\ image # FileOf(layout)
      \/ \E mapped \in BOOLEAN : reader' = Opening(mapped) /\ image = FileOf(layout)
  BY <1>1, OpenIs
<1>3. NoCache \in Caches /\ FromImage(NoCache)
  BY <1>1, NoCacheIs
<1>4. /\ reader' \in Readers /\ reader'.cache = NoCache
      /\ reader'.state = "refused" => image # FileOf(layout)
      /\ reader'.state = "open" => image = FileOf(layout) /\ reader'.metadata = layout
      /\ reader'.state # "closed"
  <2>1. CASE reader' = Refused /\ image # FileOf(layout)
    BY <1>3, <2>1 DEF Refused, Closed, Readers
  <2>2. ASSUME NEW mapped \in BOOLEAN, reader' = Opening(mapped), image = FileOf(layout)
        PROVE  /\ reader' \in Readers /\ reader'.cache = NoCache /\ reader'.state = "open"
               /\ reader'.metadata = layout
    BY <1>1, <1>3, <2>2 DEF Opening, Readers, Stored
  <2>3. QED BY <1>2, <2>1, <2>2
<1>5. Types'
  BY <1>1, <1>4, NoColumnIs DEF ReaderInv, Types, Stored
<1>6. Opened'
  BY <1>1, <1>4 DEF Opened, OnlyWholeFilesOpen, IsOpen
<1>7. Cached'
  BY <1>1, <1>3, <1>4 DEF Cached, FromImage
<1>8. Reading'
  BY <1>1 DEF Reading
<1>9. QED BY <1>5, <1>6, <1>7, <1>8 DEF ReaderInv

LEMMA CacheSet ==
    ASSUME ReaderInv, NEW k \in Caches, FromImage(k), calls' \in Nat,
           reader' = [reader EXCEPT !.cache = k], UNCHANGED <<layout, image, cursor>>
    PROVE  ReaderInv'
<1>1. reader \in Readers
  BY DEF ReaderInv, Types
<1>2. /\ reader' \in Readers /\ reader'.cache = k
      /\ reader'.state = reader.state /\ reader'.metadata = reader.metadata
  BY <1>1 DEF Readers
<1>3. QED BY <1>2, CursorKept

LEMMA PrebufferStep ==
    ASSUME ReaderInv, NEW g \in DOMAIN reader.metadata,
           NEW columns \in SUBSET DOMAIN reader.metadata[g], columns # {}, Prebuffer(g, columns)
    PROVE  ReaderInv'
<1> DEFINE places == {Place(reader.metadata, g, c) : c \in columns}
<1>1. IsOpen /\ calls' = calls + 1 /\ UNCHANGED <<layout, image, cursor>>
  BY DEF Prebuffer, Changes
<1>2. PICK k \in Buffered(Around(places)) : reader' = [reader EXCEPT !.cache = k]
  BY DEF Prebuffer
<1>3. Stored /\ calls' \in Nat /\ layout \in Layouts /\ image = FileOf(layout) /\ reader.metadata = layout
  BY <1>1, OfAnOpenFile DEF ReaderInv, Types
<1>4. /\ places # {}
      /\ \A p \in places : /\ p.dictionary \in Nat /\ p.size \in Nat
                           /\ p.dictionary + p.size <= Len(image)
  <2>1. ASSUME NEW c \in columns
        PROVE  LET p == Place(layout, g, c)
               IN  /\ p.dictionary \in Nat /\ p.size \in Nat
                   /\ p.dictionary + p.size <= Len(image)
    <3>1. g \in DOMAIN layout /\ c \in DOMAIN layout[g]
      BY <1>3
    <3>2. /\ layout[g][c] \in FileChunks
          /\ Place(layout, g, c).dictionary \in Nat
          /\ Place(layout, g, c).size = Len(ChunkCells(layout[g][c]))
          /\ Holds(FileOf(layout), Place(layout, g, c).dictionary, ChunkCells(layout[g][c]))
      BY <1>3, <3>1, PlaceIs
    <3>3. Len(ChunkCells(layout[g][c])) \in Nat
      BY <3>2, ChunkCellsType
    <3>4. QED BY <1>3, <3>2, <3>3 DEF Holds
  <2>2. QED BY <1>3, <2>1
<1> HIDE DEF places
<1>5. Around(places) \in Caches /\ FromImage(Around(places))
  BY <1>3, <1>4, AroundIs
<1>6. k \in Caches /\ FromImage(k)
  BY <1>3, <1>5, NoCacheIs DEF Buffered
<1>7. QED BY <1>1, <1>2, <1>3, <1>6, CacheSet

LEMMA ReleaseStep == ASSUME ReaderInv, ReleasePrebuffer PROVE ReaderInv'
<1>1. Stored /\ calls' \in Nat /\ UNCHANGED <<layout, image, cursor>>
  BY DEF ReaderInv, Types, ReleasePrebuffer, Changes
<1>2. reader' = [reader EXCEPT !.cache = NoCache]
  BY DEF ReleasePrebuffer
<1>3. QED BY <1>1, <1>2, NoCacheIs, CacheSet

LEMMA CloseStep == ASSUME ReaderInv, Close PROVE ReaderInv'
<1>1. /\ Stored /\ calls \in Nat /\ cursor' = NoColumn
      /\ layout' = layout /\ image' = image /\ calls' = calls
      /\ reader' = [Closed EXCEPT !.state = "done"]
  BY DEF ReaderInv, Types, Close
<1>2. reader' \in Readers /\ reader'.state = "done" /\ reader'.cache = NoCache
  BY <1>1, NoCacheIs DEF Closed, Readers
<1>3. Types'
  BY <1>1, <1>2, NoColumnIs DEF Types, Stored
<1>4. Opened'
  BY <1>2 DEF Opened, OnlyWholeFilesOpen, IsOpen
<1>5. Cached'
  BY <1>1, <1>2, NoCacheIs DEF Cached, FromImage
<1>6. Reading'
  BY <1>1 DEF Reading
<1>7. QED BY <1>3, <1>4, <1>5, <1>6 DEF ReaderInv

\* The column reader alone changes.
LEMMA ReaderKept ==
    ASSUME ReaderInv, IsOpen, UNCHANGED <<layout, image, reader, calls>>,
           cursor' \in Cursors, ReadSoFar(cursor')
    PROVE  ReaderInv'
<1>1. Types'
  BY DEF ReaderInv, Types, Stored
<1>2. Opened'
  BY DEF ReaderInv, Opened, OnlyWholeFilesOpen, IsOpen
<1>3. Cached'
  BY DEF ReaderInv, Cached, FromImage
<1>4. Reading'
  BY DEF Reading, ReadSoFar, ChunkOf, Named, Loaded
<1>5. QED BY <1>1, <1>2, <1>3, <1>4 DEF ReaderInv

LEMMA GetColumnStep ==
    ASSUME ReaderInv, NEW g \in DOMAIN reader.metadata, NEW c \in DOMAIN reader.metadata[g],
           GetColumn(g, c)
    PROVE  ReaderInv'
<1>1. IsOpen /\ UNCHANGED <<layout, image, reader, calls>>
  BY DEF GetColumn
<1>2. layout \in Layouts /\ layout \in Seq(Seq(FileChunks)) /\ reader.metadata = layout
  BY <1>1, OfAnOpenFile
<1> DEFINE chunk == layout[g][c]
           place == Place(layout, g, c)
           left == Len(chunk.pages)
<1>3. /\ g \in DOMAIN layout /\ c \in DOMAIN layout[g] /\ g \in Nat /\ c \in Nat
  <2>1. g \in 1 .. Len(layout) /\ layout[g] \in Seq(FileChunks)
    BY <1>2
  <2>2. c \in 1 .. Len(layout[g])
    BY <1>2, <2>1
  <2>3. QED BY <1>2, <2>1, <2>2
<1>4. /\ chunk \in FileChunks /\ place.dictionary \in Nat
      /\ chunk.dictionary = <<>> => place.data = place.dictionary + DictionarySize(chunk)
      /\ place.data = place.dictionary
                    + Len(ChunkCells([chunk EXCEPT !.pages = <<>>])) + chunk.off
  BY <1>2, <1>3, PlaceIs, DictionaryLies
<1>5. left \in Nat /\ PagesSize(chunk, 0) = 0 /\ chunk.off \in Nat
  BY <1>4, SizesAreNat DEF FileChunks
<1>6. place.data \in Nat
  <2> DEFINE bare == [chunk EXCEPT !.pages = <<>>]
  <2>1. bare \in FileChunks
    <3>1. <<>> \in Seq(FilePages)
      OBVIOUS
    <3>2. QED BY <1>4, <3>1 DEF FileChunks
  <2> HIDE DEF bare
  <2>2. Len(ChunkCells(bare)) \in Nat
    BY <2>1, ChunkCellsType
  <2>3. QED BY <1>4, <1>5, <2>2 DEF bare
<1>7. cursor' = [NoColumn EXCEPT !.of = <<g, c>>, !.left = left, !.start = place.data]
  BY <1>2 DEF GetColumn
<1> HIDE DEF place, left, chunk
<1>8. /\ cursor'.of = <<g, c>> /\ cursor'.left = left /\ cursor'.start = place.data
      /\ cursor'.dictionary = <<>> /\ cursor'.next = 0 /\ cursor'.got = <<>>
      /\ cursor'.failed = FALSE /\ cursor' \in Cursors
  <2>1. <<g, c>> \in Seq(Nat)
    BY <1>3
  <2>2. /\ cursor'.of = <<g, c>> /\ cursor'.left = left /\ cursor'.start = place.data
        /\ cursor'.dictionary = <<>> /\ cursor'.next = 0 /\ cursor'.got = <<>>
        /\ cursor'.failed = FALSE
    BY <1>7 DEF NoColumn
  <2>3. cursor' = [of |-> <<g, c>>, dictionary |-> <<>>, start |-> place.data, next |-> 0,
                   left |-> left, got |-> <<>>, failed |-> FALSE]
    BY <1>7 DEF NoColumn
  <2>4. <<>> \in Seq(Contents)
    OBVIOUS
  <2>5. cursor' \in Cursors
    BY <1>5, <1>6, <2>1, <2>3, <2>4 DEF Cursors
  <2>6. QED BY <2>2, <2>5
<1>9. /\ cursor'.of[1] = g /\ cursor'.of[2] = c /\ Len(cursor'.of) = 2 /\ Len(cursor'.got) = 0
  BY <1>8
<1>10. Named(cursor')
  BY <1>3, <1>9 DEF Named
<1>11. ChunkOf(cursor') = chunk
  BY <1>9 DEF ChunkOf, chunk
<1>12. Loaded(cursor') <=> chunk.dictionary = <<>>
  BY <1>8, <1>11 DEF Loaded
<1>13. 0 + left = Len(chunk.pages)
  BY <1>5 DEF left
<1>14. place = Place(layout, cursor'.of[1], cursor'.of[2])
  BY <1>9 DEF place
<1>15. ReadSoFar(cursor')
  BY <1>4, <1>5, <1>8, <1>9, <1>10, <1>11, <1>12, <1>13, <1>14 DEF ReadSoFar
<1>16. QED BY <1>1, <1>8, <1>15, ReaderKept

\* The dictionary is read where the metadata says it is.
LEMMA DictionaryRead ==
    ASSUME ReaderInv, IsOpen, NEW col \in Cursors, ReadSoFar(col), ~Loaded(col)
    PROVE  LET read == WithDictionary(col, PageAt(PlaceOf(col).dictionary))
           IN  read \in Cursors /\ ReadSoFar(read) /\ Loaded(read) /\ read.left = col.left
<1> DEFINE g == col.of[1]
           c == col.of[2]
           chunk == ChunkOf(col)
           place == Place(layout, g, c)
           page == chunk.dictionary[1]
           read == WithDictionary(col, PageAt(place.dictionary))
<1>1. /\ layout \in Layouts /\ image = FileOf(layout) /\ Stored /\ Cached
      /\ PlaceOf(col) = place
  BY OfAnOpenFile DEF ReaderInv, Types, PlaceOf
<1>2. g \in DOMAIN layout /\ c \in DOMAIN layout[g] /\ chunk = layout[g][c]
  BY DEF ReadSoFar, Named, ChunkOf
<1>3. chunk.dictionary # <<>> /\ col.dictionary = <<>>
  BY DEF Loaded
<1>4. /\ chunk \in FileChunks /\ place.dictionary \in Nat /\ page \in FilePages
      /\ DictionarySize(chunk) = Len(PageCells(page))
      /\ Holds(image, place.dictionary, PageCells(page))
  BY <1>1, <1>2, <1>3, PlaceIs, DictionaryLies
<1>5. PageAt(place.dictionary) = PageRead(page)
  BY <1>1, <1>4, PageAtIs
<1>6. /\ page.data \in Contents /\ page.head \in Nat /\ Len(page.data) \in Nat
      /\ Len(PageCells(page)) = page.head + Len(page.data)
  BY <1>4, PageCellsIs DEF FilePages, Contents
<1> DEFINE start == place.dictionary + DictionarySize(chunk)
<1>7. read = [col EXCEPT !.dictionary = << page.data >>, !.start = start]
  BY <1>1, <1>4, <1>5, <1>6 DEF WithDictionary, PageRead
<1>8. << page.data >> \in Seq(Contents) /\ << page.data >> # <<>> /\ start \in Nat
  BY <1>4, <1>6
<1> HIDE DEF page, start, chunk, read
<1>9. /\ read \in Cursors /\ read.of = col.of /\ read.dictionary = << page.data >>
      /\ read.start = start /\ read.next = col.next /\ read.left = col.left
      /\ read.got = col.got /\ read.failed = col.failed
  BY <1>7, <1>8 DEF Cursors
<1>10. ChunkOf(read) = chunk /\ Named(read)
  BY <1>9 DEF ReadSoFar, Named, ChunkOf, chunk
<1>11. Loaded(read)
  BY <1>8, <1>9 DEF Loaded
<1>12. ReadSoFar(read)
  BY <1>3, <1>9, <1>10, <1>11 DEF ReadSoFar, chunk, page, start
<1>13. QED BY <1>1, <1>9, <1>11, <1>12 DEF read

\* The next page is read where the ones before it end.
LEMMA NextPageRead ==
    ASSUME ReaderInv, IsOpen, NEW col \in Cursors, ReadSoFar(col), Loaded(col), col.left > 0
    PROVE  LET read == WithPage(col, PageAt(col.start + col.next))
           IN  read \in Cursors /\ ReadSoFar(read)
<1> DEFINE g == col.of[1]
           c == col.of[2]
           chunk == ChunkOf(col)
           place == Place(layout, g, c)
           n == Len(col.got)
           page == chunk.pages[n + 1]
           at == col.start + col.next
           read == WithPage(col, PageAt(at))
<1>1. layout \in Layouts /\ image = FileOf(layout) /\ Stored /\ Cached
  BY OfAnOpenFile DEF ReaderInv, Types
<1>2. g \in DOMAIN layout /\ c \in DOMAIN layout[g] /\ chunk = layout[g][c]
  BY DEF ReadSoFar, Named, ChunkOf
<1>3. chunk \in FileChunks /\ chunk.pages \in Seq(FilePages)
  <2>1. layout[g][c] \in FileChunks
    BY <1>1, <1>2, PlaceIs
  <2>2. QED BY <1>2, <2>1 DEF FileChunks
<1>4. /\ n \in Nat /\ col.left \in Nat \ {0} /\ n + col.left = Len(chunk.pages)
      /\ Len(chunk.pages) \in Nat
      /\ col.start = place.dictionary + DictionarySize(chunk)
      /\ col.next = PagesSize(chunk, n)
  <2>1. Len(chunk.pages) \in Nat
    <3> DEFINE s == chunk.pages
    <3>1. s \in Seq(FilePages)
      BY <1>3
    <3> HIDE DEF s
    <3>2. Len(s) \in Nat
      BY <3>1
    <3>3. QED BY <3>2 DEF s
  <2>2. n \in Nat /\ col.left \in Nat /\ col.left # 0
    BY DEF Cursors
  <2> HIDE DEF n
  <2>3. /\ n + col.left = Len(chunk.pages)
        /\ col.start = place.dictionary + DictionarySize(chunk)
        /\ col.next = PagesSize(chunk, n)
    BY DEF ReadSoFar, n
  <2>4. QED BY <2>1, <2>2, <2>3
<1>5. n + 1 \in 1 .. Len(chunk.pages) /\ (n + 1) - 1 = n
  BY <1>4
<1>6. at \in Nat /\ Holds(image, at, PageCells(page))
  <2>1. PICK k \in 1 .. Len(chunk.pages) : k = n + 1 /\ k - 1 = n
    BY <1>5
  <2>2. LET there == place.dictionary + DictionarySize(chunk) + PagesSize(chunk, k - 1)
        IN  there \in Nat /\ Holds(FileOf(layout), there, PageCells(chunk.pages[k]))
    BY <1>1, <1>2, PageLies
  <2>3. at = place.dictionary + DictionarySize(chunk) + PagesSize(chunk, k - 1)
    BY <1>4, <2>1
  <2>4. QED BY <1>1, <2>1, <2>2, <2>3
<1>7. page \in FilePages
  BY <1>3, <1>5
<1>8. PageAt(at) = PageRead(page)
  BY <1>1, <1>6, <1>7, PageAtIs
<1>9. /\ page.data \in Contents /\ page.head \in Nat /\ Len(page.data) \in Nat
      /\ Len(PageCells(page)) = page.head + Len(page.data)
  BY <1>7, PageCellsIs DEF FilePages, Contents
<1> DEFINE got == Append(col.got, page.data)
           next == col.next + (page.head + Len(page.data))
           left == col.left - 1
<1>10. read = [col EXCEPT !.got = got, !.next = next, !.left = left]
  <2> DEFINE p == PageAt(at)
  <2>1. p.ok = TRUE /\ p.data = page.data /\ p.size = page.head + Len(page.data)
    BY <1>8 DEF PageRead
  <2> HIDE DEF p, page
  <2>2. WithPage(col, p) = [col EXCEPT !.got = Append(col.got, p.data),
                                       !.next = col.next + p.size, !.left = col.left - 1]
    BY <2>1 DEF WithPage, Cursors
  <2>3. QED BY <2>1, <2>2 DEF p
<1>11. /\ got \in Seq(Contents) /\ Len(got) = n + 1 /\ next \in Nat /\ left \in Nat
       /\ (n + 1) + left = Len(chunk.pages)
       /\ \A p \in 1 .. n : got[p] = col.got[p]
       /\ got[n + 1] = page.data /\ got # <<>>
  <2>1. col.got \in Seq(Contents) /\ col.next \in Nat
    BY DEF Cursors
  <2>2. /\ got \in Seq(Contents) /\ Len(got) = n + 1
        /\ \A p \in 1 .. n : got[p] = col.got[p]
        /\ got[n + 1] = page.data /\ got # <<>>
    BY <1>9, <2>1
  <2>3. next \in Nat /\ left \in Nat /\ (n + 1) + left = Len(chunk.pages)
    <3> HIDE DEF page, chunk, n
    <3>1. next \in Nat
      BY <1>9, <2>1
    <3>2. QED BY <1>4, <3>1
  <2>4. QED BY <2>2, <2>3
<1>12. next = PagesSize(chunk, n + 1)
  <2>1. PagesSize(chunk, n + 1) = PagesSize(chunk, n) + Len(PageCells(page))
    <3>1. PICK k \in 1 .. Len(chunk.pages) : k = n + 1 /\ k - 1 = n
      BY <1>5
    <3>2. PagesSize(chunk, k) = PagesSize(chunk, k - 1) + Len(PageCells(chunk.pages[k]))
      BY <1>3, SizesAreNat
    <3>3. QED BY <3>1, <3>2
  <2>2. QED BY <1>4, <1>9, <2>1
<1>13. /\ \A p \in 1 .. n : col.got[p] = chunk.pages[p].data
       /\ ~col.failed
       /\ col.dictionary # <<>> =>
             chunk.dictionary # <<>> /\ col.dictionary = << chunk.dictionary[1].data >>
  BY DEF ReadSoFar
<1>14. \A p \in 1 .. n + 1 : got[p] = chunk.pages[p].data
  <2>1. SUFFICES ASSUME NEW p \in 1 .. n + 1 PROVE got[p] = chunk.pages[p].data
    OBVIOUS
  <2>2. p \in 1 .. n \/ p = n + 1
    BY <1>4
  <2>3. QED BY <1>11, <1>13, <2>2
<1> HIDE DEF got, next, left, read, chunk, n, page
<1>15. /\ read \in Cursors /\ read.of = col.of /\ read.dictionary = col.dictionary
       /\ read.start = col.start /\ read.next = next /\ read.left = left
       /\ read.got = got /\ read.failed = col.failed
  BY <1>10, <1>11 DEF Cursors
<1>16. ChunkOf(read) = chunk /\ Named(read)
  BY <1>15 DEF ReadSoFar, Named, ChunkOf, chunk
<1>17. Loaded(read)
  BY <1>15 DEF Loaded, ChunkOf
<1>18. ReadSoFar(read)
  <2>1. Len(read.got) = n + 1
    BY <1>11, <1>15
  <2>2. place = Place(layout, read.of[1], read.of[2])
    BY <1>15
  <2>3. QED BY <1>4, <1>11, <1>12, <1>13, <1>14, <1>15, <1>16, <1>17, <2>1, <2>2 DEF ReadSoFar
<1>19. QED BY <1>15, <1>18 DEF read

LEMMA ReadPageStep == ASSUME ReaderInv, ReadPage PROVE ReaderInv'
<1>1. IsOpen /\ cursor.left > 0 /\ UNCHANGED <<layout, image, reader, calls>>
  BY DEF ReadPage
<1>2. cursor \in Cursors /\ reader.metadata = layout
  BY <1>1, OfAnOpenFile
<1>3. cursor # NoColumn
  BY <1>1 DEF NoColumn
<1>4. ReadSoFar(cursor)
  BY <1>1, <1>3 DEF ReaderInv, Reading
<1> DEFINE col == IF HasDictionary(cursor) /\ cursor.dictionary = <<>>
                  THEN WithDictionary(cursor, PageAt(PlaceOf(cursor).dictionary)) ELSE cursor
<1>5. cursor' = IF col.failed THEN col ELSE WithPage(col, PageAt(col.start + col.next))
  BY DEF ReadPage
<1>6. HasDictionary(cursor) /\ cursor.dictionary = <<>> <=> ~Loaded(cursor)
  BY <1>2 DEF HasDictionary, Loaded, ChunkOf
<1>7. col \in Cursors /\ ReadSoFar(col) /\ Loaded(col) /\ col.left > 0
  <2>1. CASE Loaded(cursor)
    BY <1>1, <1>2, <1>4, <1>6, <2>1
  <2>2. CASE ~Loaded(cursor)
    BY <1>1, <1>2, <1>4, <1>6, <2>2, DictionaryRead
  <2>3. QED BY <2>1, <2>2
<1> HIDE DEF col
<1>8. ~col.failed
  BY <1>7 DEF ReadSoFar
<1>9. cursor' \in Cursors /\ ReadSoFar(cursor')
  BY <1>1, <1>5, <1>7, <1>8, NextPageRead
<1>10. QED BY <1>1, <1>9, ReaderKept

LEMMA ReaderInvStep == ReaderInv /\ [ReaderNext]_readerVars => ReaderInv'
<1> SUFFICES ASSUME ReaderInv, [ReaderNext]_readerVars PROVE ReaderInv'
  OBVIOUS
<1>1. CASE \E way \in DOMAIN Mapping : Open(way)
  BY <1>1, OpenStep
<1>2. ASSUME NEW g \in DOMAIN reader.metadata,
             NEW columns \in SUBSET DOMAIN reader.metadata[g], columns # {}, Prebuffer(g, columns)
      PROVE  ReaderInv'
  BY <1>2, PrebufferStep
<1>3. ASSUME NEW g \in DOMAIN reader.metadata, NEW c \in DOMAIN reader.metadata[g],
             GetColumn(g, c)
      PROVE  ReaderInv'
  BY <1>3, GetColumnStep
<1>4. CASE ReleasePrebuffer
  BY <1>4, ReleaseStep
<1>5. CASE ReadPage
  BY <1>5, ReadPageStep
<1>6. CASE Close
  BY <1>6, CloseStep
<1>7. CASE UNCHANGED readerVars
  <2>1. UNCHANGED <<layout, image, reader, cursor, calls>>
    BY <1>7 DEF readerVars
  <2>2. /\ reader \in Readers /\ calls \in Nat /\ reader.cache \in Caches
        /\ FromImage(reader.cache)
    BY DEF ReaderInv, Types, Cached
  <2>3. QED BY <2>1, <2>2, CursorKept
<1>8. QED BY <1>1, <1>2, <1>3, <1>4, <1>5, <1>6, <1>7 DEF ReaderNext

-------------------------------------------------------------------------------
(* What is proved of the reader.                                           *)

\* The inductive invariant: what is stored is a beginning of the file or all of
\* it and more, what is cached is of the file, a reader that is open has all of
\* it, and a column reader stands where the pages it has read end.
THEOREM ReaderInvariant == ReaderSpec => []ReaderInv
BY ReaderInvInit, ReaderInvStep, PTL DEF ReaderSpec

\* A file that was closed opens, in every way, with the metadata it was given;
\* one that lost its end, or has something behind it, opens in none (read_footer,
\* read_footer_mmap, carquet_reader_open_buffer), whatever its pages hold
\* that is not metadata itself.
THEOREM OnlyWholeFilesOpenHolds == ReaderSpec => []OnlyWholeFilesOpen
<1>1. ReaderInv => OnlyWholeFilesOpen
  BY DEF ReaderInv, Opened
<1>2. QED BY ReaderInvariant, <1>1, PTL

\* Pages are read as they were written and none fails, whichever ranges were
\* cached, replaced or released between them (prebuf_read_at), and however a
\* guess at a header falls (read_and_parse_page_header_fread).
THEOREM PagesAreTheFilesHolds == ReaderSpec => []PagesAreTheFiles
<1>1. ReaderInv => PagesAreTheFiles
  <2> SUFFICES ASSUME ReaderInv, IsOpen, cursor # NoColumn
               PROVE  LET chunk == layout[cursor.of[1]][cursor.of[2]]
                      IN  /\ ~cursor.failed
                          /\ \A p \in DOMAIN cursor.got : cursor.got[p] = chunk.pages[p].data
                          /\ cursor.got # <<>> /\ chunk.dictionary # <<>> =>
                                cursor.dictionary = << chunk.dictionary[1].data >>
    BY DEF PagesAreTheFiles
  <2>1. ReadSoFar(cursor) /\ cursor.got \in Seq(Contents)
    BY DEF ReaderInv, Reading, Types, Cursors
  <2>2. DOMAIN cursor.got = 1 .. Len(cursor.got)
    BY <2>1
  <2>3. QED BY <2>1, <2>2 DEF ReadSoFar, Loaded, ChunkOf
<1>2. QED BY ReaderInvariant, <1>1, PTL
===============================================================================
