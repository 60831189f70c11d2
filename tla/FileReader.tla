------------------------------- MODULE FileReader -------------------------------
(***************************************************************************)
(* Opening a file and reading its bytes: the footer is found from the end  *)
(* (file_reader.c, buffer_reader.c, mmap_reader.c), and pages are read     *)
(* through a cache of a range of the file (carquet_reader_prebuffer) that  *)
(* the caller may fill, replace and release between any two of them.       *)
(*                                                                         *)
(* A file is a sequence of cells.  The magic and the footer's length take  *)
(* one each; metadata and page headers begin with a cell of their own kind *)
(* and are understood when all their cells are there; what a page holds    *)
(* may look like anything but metadata.                                    *)
(***************************************************************************)
EXTENDS Integers, Sequences, SequencesExt

CONSTANTS Layouts,      \* what files hold: groups of chunks [dictionary, pages, off]
          DataCells,    \* what pages hold: anything that does not look like metadata
          FooterCells,  \* cells of the metadata
          Speculative,  \* CARQUET_FOOTER_SPECULATIVE_SIZE
          HeaderWindow, \* first guess at the length of a page header: 256
          MaxWindow,    \* where guessing ends: CARQUET_MAX_PAGE_PAYLOAD_SIZE
          MaxCalls      \* bound: calls that change the cache

\* No header is longer than a reader's last guess; a chunk has one dictionary or
\* none; where it has none its place is that of the data.
FilePages == [head : 1 .. MaxWindow, data : Seq(DataCells)]
FileChunks == [dictionary : Seq(FilePages), pages : Seq(FilePages), off : Nat]
OfTheFormat(chunk) ==
    Len(chunk.dictionary) <= 1 /\ (chunk.dictionary = <<>> => chunk.off = 0)

ASSUME FileReaderAssumption ==
    /\ Layouts \subseteq Seq(Seq(FileChunks))
    /\ \A groups \in Layouts : \A g \in DOMAIN groups : \A c \in DOMAIN groups[g] :
           OfTheFormat(groups[g][c])
    /\ \A cell \in DataCells : cell[1] # "meta" /\ (cell[1] = "size" => cell[2] \in Nat)
    /\ FooterCells \in Nat \ {0} /\ MaxCalls \in Nat
    /\ Speculative \in Nat /\ Speculative >= 2
    /\ HeaderWindow \in Nat \ {0} /\ MaxWindow \in Nat /\ MaxWindow >= HeaderWindow

VARIABLES layout,   \* what was written: history
          image,    \* what is stored
          reader,   \* carquet_reader_t: [state, mapped, metadata, cache]
          cursor,   \* carquet_column_reader_t: [of, dictionary, start, next, left, got, failed]
          calls
readerVars == <<layout, image, reader, cursor, calls>>

-------------------------------------------------------------------------------
(* The file, as FileWriter leaves it.  A page is [head, data]: the cells of *)
(* its header, and what it holds.  Of a chunk with a dictionary the place   *)
(* of the data may be off in files of other writers.                        *)

MagicCell == <<"magic", 0>>
Mores(n) == [i \in 1 .. n |-> <<"more", 0>>]
PageCells(page) == << <<"head", page>> >> \o Mores(page.head - 1) \o page.data
AllPages(chunk) == chunk.dictionary \o chunk.pages
ChunkCells(chunk) ==
    LET pages == AllPages(chunk) IN FlattenSeq([p \in DOMAIN pages |-> PageCells(pages[p])])
GroupCells(group) == FlattenSeq([c \in DOMAIN group |-> ChunkCells(group[c])])
FileOf(groups) ==
    << MagicCell >> \o FlattenSeq([g \in DOMAIN groups |-> GroupCells(groups[g])])
    \o << <<"meta", groups>> >> \o Mores(FooterCells - 1)
    \o << <<"size", FooterCells>>, MagicCell >>

\* The places the metadata gives for a chunk.
Place(groups, g, c) ==
    LET chunk == groups[g][c]
        start == 1 + Len(FlattenSeq([k \in 1 .. g - 1 |-> GroupCells(groups[k])]))
                   + Len(GroupCells(SubSeq(groups[g], 1, c - 1)))
    IN  [dictionary |-> start, size |-> Len(ChunkCells(chunk)),
         data |-> start + Len(ChunkCells([chunk EXCEPT !.pages = <<>>])) + chunk.off]

-------------------------------------------------------------------------------
(* Opening.                                                                *)

NoCache == [at |-> 0, cells |-> <<>>]
Closed == [state |-> "closed", mapped |-> FALSE, metadata |-> <<>>, cache |-> NoCache]
Refused == [Closed EXCEPT !.state = "refused"]
NoColumn == [of |-> <<>>, dictionary |-> <<>>, start |-> 0, next |-> 0, left |-> 0,
             got |-> <<>>, failed |-> FALSE]

\* Four bytes that are no length are any number.
SizesOf(cell) == IF cell[1] = "size" THEN {cell[2]} ELSE 0 .. Len(image) + 1

\* The last n cells; of a stream a guess at the footer is read before its
\* length is known, and read again when it is longer (read_footer).
EndOf(n) == SubSeq(image, Len(image) - n + 1, Len(image))
FooterInGuess(size, guess) == SubSeq(guess, Len(guess) - 2 - size + 1, Len(guess) - 2)
Footer(size) ==
    LET guess == IF Len(image) < Speculative THEN image ELSE EndOf(Speculative)
    IN  IF size + 2 <= Len(guess) THEN FooterInGuess(size, guess)
        ELSE SubSeq(EndOf(size + 2), 1, size)

\* read_footer, read_footer_mmap and carquet_reader_open_buffer.  Of a stream
\* the magic at the beginning is not looked at.
\* SoundAtStart would look there and not at the end.
SoundAtStart(mapped) == Len(image) >= 3 /\ image[1] = MagicCell
Sound(mapped) ==
    /\ Len(image) >= 3
    /\ mapped => image[1] = MagicCell
    /\ image[Len(image)] = MagicCell
Parses(cells) == cells # <<>> /\ cells[1][1] = "meta" /\ Len(cells) >= FooterCells
OpenedWith(mapped, size) ==
    LET cells == IF mapped THEN SubSeq(EndOf(size + 2), 1, size) ELSE Footer(size)
    IN  IF size <= Len(image) - 2 /\ Parses(cells)
        THEN [state |-> "open", mapped |-> mapped, metadata |-> cells[1][2], cache |-> NoCache]
        ELSE Refused

\* carquet_reader_open_file, _open and _open_buffer: a file that is to be mapped
\* (carquet_mmap_open) and cannot be is opened as a stream.
Mapping == [stream |-> {FALSE}, path |-> BOOLEAN, buffer |-> {TRUE}]
Open(way) ==
    /\ reader.state = "closed" /\ calls = 0
    /\ \E mapped \in Mapping[way] :
          \/ Sound(mapped) /\ \E size \in SizesOf(image[Len(image) - 1]) :
                                 reader' = OpenedWith(mapped, size)
          \/ ~Sound(mapped) /\ reader' = Refused
    /\ UNCHANGED <<layout, image, cursor, calls>>

-------------------------------------------------------------------------------
(* The cache.                                                              *)

IsOpen == reader.state = "open"
Changes == IsOpen /\ calls < MaxCalls /\ calls' = calls + 1

\* carquet_reader_prebuffer reads one range around the columns it is asked for,
\* dictionaries included.  The range before is released first, so it is gone
\* when the reading fails; a reader of mapped memory has no use for a range.
Around(places) ==
    LET first == CHOOSE x \in {k.dictionary : k \in places} : \A k \in places : x <= k.dictionary
        end   == CHOOSE x \in {k.dictionary + k.size : k \in places} :
                     \A k \in places : x >= k.dictionary + k.size
    IN  [at |-> first, cells |-> SubSeq(image, first + 1, end)]
\* BufferedEarly would set the place before the cells are read.
BufferedEarly(range) == {[range EXCEPT !.cells = reader.cache.cells], range}
Buffered(range) == {NoCache, range}
Prebuffer(g, columns) ==
    /\ Changes /\ ~reader.mapped
    /\ \E k \in Buffered(Around({Place(reader.metadata, g, c) : c \in columns})) :
          reader' = [reader EXCEPT !.cache = k]
    /\ UNCHANGED <<layout, image, cursor>>
ReleasePrebuffer ==
    /\ Changes /\ reader.cache # NoCache
    /\ reader' = [reader EXCEPT !.cache = NoCache]
    /\ UNCHANGED <<layout, image, cursor>>

\* prebuf_read_at: the cache is used when it holds all of the cells; the end of
\* the file may leave fewer than were asked for.
InFile(at, n) == SubSeq(image, at + 1, IF at + n <= Len(image) THEN at + n ELSE Len(image))
ReadAt(at, n) ==
    LET k == reader.cache
    IN  IF k # NoCache /\ at >= k.at /\ at + n <= k.at + Len(k.cells)
        THEN SubSeq(k.cells, at - k.at + 1, at - k.at + n)
        ELSE InFile(at, n)

-------------------------------------------------------------------------------
(* Reading pages.                                                          *)

\* read_and_parse_page_header_fread: the guess grows fourfold while the header
\* is longer and the file is not at its end.  Mapped memory needs no guess.
Understood(cells) == cells # <<>> /\ cells[1][1] = "head" /\ Len(cells) >= cells[1][2].head
Guesses == ({HeaderWindow * 4^k : k \in 0 .. MaxWindow} \cap 1 .. MaxWindow) \cup {MaxWindow}
Grown(at, n) == \A k \in Guesses : k < n =>
                    Len(ReadAt(at, k)) = k /\ ~Understood(ReadAt(at, k))
HeaderCells(at) ==
    IF reader.mapped THEN InFile(at, Len(image))
    ELSE LET enough == {n \in Guesses : Understood(ReadAt(at, n)) /\ Grown(at, n)}
         IN  IF enough = {} THEN <<>> ELSE ReadAt(at, CHOOSE n \in enough : TRUE)

\* A page at a place, as far as it is there: what it holds, and what follows.
PageWith(header, at) ==
    LET page == header[1][2]
        data == IF reader.mapped THEN InFile(at + page.head, Len(page.data))
                ELSE ReadAt(at + page.head, Len(page.data))
    IN  IF Understood(header) /\ at + page.head + Len(page.data) <= Len(image)
        THEN [ok |-> TRUE, data |-> data, size |-> page.head + Len(page.data)]
        ELSE [ok |-> FALSE, data |-> <<>>, size |-> 0]
PageAt(at) == PageWith(HeaderCells(at), at)

\* carquet_reader_get_column, and carquet_column_reader_free of the one before.
GetColumn(g, c) ==
    /\ IsOpen /\ cursor.left = 0
    /\ cursor' = [NoColumn EXCEPT !.of = <<g, c>>, !.left = Len(reader.metadata[g][c].pages),
                                  !.start = Place(reader.metadata, g, c).data]
    /\ UNCHANGED <<layout, image, reader, calls>>

\* load_next_page_fread, load_next_page_mmap: the dictionary first when it is not
\* loaded (load_dictionary_page_fread, load_dictionary_page_mmap), then the page
\* at current_page behind data_start_offset.  What follows the dictionary is the
\* data, wherever the metadata says it is.
PlaceOf(col) == Place(reader.metadata, col.of[1], col.of[2])
HasDictionary(col) == reader.metadata[col.of[1]][col.of[2]].dictionary # <<>>
WithDictionary(col, page) ==
    IF page.ok THEN [col EXCEPT !.dictionary = << page.data >>,
                                 !.start = PlaceOf(col).dictionary + page.size]
    ELSE [col EXCEPT !.failed = TRUE, !.left = 0]
WithPage(col, page) ==
    IF page.ok THEN [col EXCEPT !.got = Append(@, page.data), !.next = @ + page.size, !.left = @ - 1]
    ELSE [col EXCEPT !.failed = TRUE, !.left = 0]
ReadPage ==
    /\ IsOpen /\ cursor.left > 0
    /\ \E col \in {IF HasDictionary(cursor) /\ cursor.dictionary = <<>>
                    THEN WithDictionary(cursor, PageAt(PlaceOf(cursor).dictionary)) ELSE cursor} :
          cursor' = IF col.failed THEN col ELSE WithPage(col, PageAt(col.start + col.next))
    /\ UNCHANGED <<layout, image, reader, calls>>

-------------------------------------------------------------------------------
\* What a writer that stopped anywhere, or a disk that lost an end, leaves
\* behind: any part of the file from its beginning, or something behind it.
ReaderInit ==
    /\ layout \in Layouts
    /\ image \in {SubSeq(FileOf(layout), 1, n) : n \in 0 .. Len(FileOf(layout))}
                \cup {Append(FileOf(layout), <<"junk", 0>>)}
    /\ reader = Closed /\ cursor = NoColumn /\ calls = 0

\* carquet_reader_close, when its column readers are freed.
Close ==
    /\ IsOpen /\ cursor.left = 0
    /\ reader' = [Closed EXCEPT !.state = "done"] /\ cursor' = NoColumn
    /\ UNCHANGED <<layout, image, calls>>

ReaderNext ==
    \/ \E way \in DOMAIN Mapping : Open(way)
    \/ \E g \in DOMAIN reader.metadata :
          \/ \E columns \in SUBSET DOMAIN reader.metadata[g] :
                columns # {} /\ Prebuffer(g, columns)
          \/ \E c \in DOMAIN reader.metadata[g] : GetColumn(g, c)
    \/ ReleasePrebuffer \/ ReadPage \/ Close
ReaderSpec == ReaderInit /\ [][ReaderNext]_readerVars

-------------------------------------------------------------------------------
(* Properties.                                                             *)

\* A file that was closed opens, in every way, with the metadata it was given;
\* one that was not, or lost its end, opens in none, whatever its pages hold
\* that is not metadata itself (read_footer, read_footer_mmap, carquet_reader_open_buffer).
OnlyWholeFilesOpen ==
    /\ reader.state = "refused" => image # FileOf(layout)
    /\ IsOpen => image = FileOf(layout) /\ reader.metadata = layout

\* Pages are read as they were written and none fails, whichever range of the
\* file was cached, replaced or released between them, whether or not it was
\* read in full, and wherever a guess at a header crosses its end.
PagesAreTheFiles ==
    IsOpen /\ cursor # NoColumn =>
        LET chunk == layout[cursor.of[1]][cursor.of[2]]
        IN  /\ ~cursor.failed
            /\ \A p \in DOMAIN cursor.got : cursor.got[p] = chunk.pages[p].data
            /\ cursor.got # <<>> /\ chunk.dictionary # <<>> =>
                  cursor.dictionary = << chunk.dictionary[1].data >>
===============================================================================
