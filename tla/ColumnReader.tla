------------------------------ MODULE ColumnReader ------------------------------
(***************************************************************************)
(* page_reader.c and column_reader.c over one column chunk: the dictionary *)
(* and then page after page is loaded, checked, unpacked and decoded, and  *)
(* rows are copied out of the decoded page.  Byte arrays are handed out as *)
(* pointers: into the mapping, the dictionary, the buffer a page is read   *)
(* into, the buffer it is decompressed into, or a copy that is retained.   *)
(* A reader is a record; an operation gives the reader it leaves.          *)
(***************************************************************************)
EXTENDS PageFormat

CONSTANT SkipChunk  \* rows that skip reads at a time: 1024

ASSUME ColumnReaderAssumption == SkipChunk \in Nat \ {0}

NoPage == [reps |-> <<>>, defs |-> <<>>, values |-> <<>>]
NewColumnReader(total) ==
    [at |-> 1,               \* current_page, as the number of a page
     dict |-> "none",        \* has_dictionary, and dictionary_ownership
     loaded |-> FALSE,       \* page_loaded
     page |-> NoPage,        \* decoded levels and values
     used |-> 0,             \* page_values_read
     left |-> total,         \* values_remaining
     buffer |-> 0,           \* the page last read into page_buffer
     inflated |-> 0,         \* the page last put into decompress_buffer
     kept |-> <<>>]          \* retained_pages

Pointer(in, n, i) == [in |-> in, n |-> n, i |-> i]

\* The loads of one call that fail by chance: of the dictionary (0) or a page.
Loaded(r) == [r |-> r, ok |-> TRUE]
NotLoaded(r) == [r |-> r, ok |-> FALSE]

\* The dictionary as later lookups see it.
Dictionary(chunk) ==
    IF chunk.dictionary = <<>> THEN <<>>
    ELSE Intact(chunk.dictionary[1], chunk.dictionary[1].entries)

\* load_dictionary_page_mmap views what it need not decompress;
\* load_dictionary_page_fread owns what it read.
DictionaryFromMapping(stored, r) ==
    IF ~ChecksumOk(stored) THEN NotLoaded(r)
    ELSE Loaded([r EXCEPT !.dict = IF stored.packed = "none" THEN "view" ELSE "owned"])
DictionaryFromFile(stored, r) ==
    IF ~ChecksumOk(stored) THEN NotLoaded(r) ELSE Loaded([r EXCEPT !.dict = "owned"])

LoadDictionary(col, chunk, r, fails) ==
    CASE chunk.dictionary = <<>> \/ r.dict # "none" -> Loaded(r)
      [] chunk.dictionary # <<>> /\ r.dict = "none" /\ 0 \in fails -> NotLoaded(r)
      [] OTHER -> IF col.mapped THEN DictionaryFromMapping(chunk.dictionary[1], r)
                  ELSE DictionaryFromFile(chunk.dictionary[1], r)

\* page_values_can_be_viewed_directly, and the retention rules of the two
\* loaders: every payload that byte arrays point into, unless it is mapped.
IsInflated(stored) == stored.packed # "none"
PointsIntoPayload(col, stored) == col.kind = "bytes" /\ stored.coding \in {"plain", "length"}
RetainsFromMapping(col, stored) == PointsIntoPayload(col, stored) /\ IsInflated(stored)
RetainsFromFile(col, stored) == PointsIntoPayload(col, stored)
Retains(col, stored) ==
    \/ IF col.mapped THEN RetainsFromMapping(col, stored) ELSE RetainsFromFile(col, stored)
    \/ col.kind = "bytes" /\ stored.coding = "delta"   \* its scratch is a retained page

\* Where the page's byte arrays lie once it is loaded.
Place(col, stored, r) ==
    CASE Retains(col, stored)    -> [in |-> "kept", n |-> Len(r.kept) + 1]
      [] stored.coding = "dict"  -> [in |-> "dict", n |-> 0]
      [] IsInflated(stored)      -> [in |-> "inflated", n |-> 0]
      [] col.mapped              -> [in |-> "mapped", n |-> r.at]
      [] OTHER                   -> [in |-> "buffer", n |-> 0]

\* Decoded values as they are handed out; a pointer into the dictionary is to
\* the entry, any other to the value's place in its page.
PointersInto(place, stored, values) ==
    [i \in DOMAIN values |->
       Pointer(place.in, place.n,
               IF place.in = "dict" THEN FlattenSeq(stored.page.values)[i] + 1 ELSE i)]
HandedOut(col, stored, r, values) ==
    IF col.kind = "bytes" THEN PointersInto(Place(col, stored, r), stored, values)
    ELSE values

\* A decompressed payload is in decompress_buffer, good page or not.
Inflated(stored, r) == IF IsInflated(stored) THEN [r EXCEPT !.inflated = r.at] ELSE r

\* The end of both loaders: byte arrays are led to a retained copy.
PageInPlace(col, stored, r, decoded) ==
    IF ~decoded.ok THEN NotLoaded(r)
    ELSE Loaded([r EXCEPT !.loaded = TRUE, !.used = 0,
                          !.kept = IF Retains(col, stored) THEN Append(@, r.at) ELSE @,
                          !.page = [reps |-> decoded.reps, defs |-> decoded.defs,
                                    values |-> HandedOut(col, stored, r, decoded.values)]])

\* load_next_page_mmap
PageFromMapping(col, stored, dictionary, r) ==
    IF ~ChecksumOk(stored) THEN NotLoaded(r)
    ELSE PageInPlace(col, stored, Inflated(stored, r), DecodedPage(col, stored, dictionary))

\* load_next_page_fread: the bytes go through page_buffer.
ReadAt(r) == [r EXCEPT !.buffer = r.at]
PageFromFile(col, stored, dictionary, r) ==
    PageFromMapping(col, stored, dictionary, ReadAt(r))

LoadPage(col, chunk, r, fails) ==
    CASE r.at > Len(chunk.pages) \/ r.at \in fails -> NotLoaded(r)
      [] r.at \in DOMAIN chunk.pages \ fails /\ col.mapped ->
           PageFromMapping(col, chunk.pages[r.at], Dictionary(chunk), r)
      [] OTHER -> PageFromFile(col, chunk.pages[r.at], Dictionary(chunk), r)

IfLoaded(l, col, chunk, fails) == IF l.ok THEN LoadPage(col, chunk, l.r, fails) ELSE l
LoadNextPage(col, chunk, r, fails) ==
    IfLoaded(LoadDictionary(col, chunk, r, fails), col, chunk, fails)

\* carquet_column_ensure_page_loaded
PageNum(r) == Len(r.page.defs)
EnsureFirstPageLoaded(col, chunk, r, fails) ==
    IF r.loaded THEN Loaded(r) ELSE LoadNextPage(col, chunk, r, fails)
EnsurePageLoaded(col, chunk, r, fails) ==
    IF r.loaded /\ r.used < PageNum(r) THEN Loaded(r)
    ELSE LoadNextPage(col, chunk,
                      IF r.loaded THEN [r EXCEPT !.at = @ + 1, !.loaded = FALSE] ELSE r,
                      fails)

-------------------------------------------------------------------------------
(* Reading.  The caller's arrays: levels, and the present values in front. *)

NoRows == [reps |-> <<>>, defs |-> <<>>, values |-> <<>>]

\* carquet_read_next_page, with a page loaded that has rows to give.
DenseStart(col, r) == CountPresent(col, SubSeq(r.page.defs, 1, r.used))
CopiedRows(col, r, n, out) ==
    LET defs  == SubSeq(r.page.defs, r.used + 1, r.used + n)
        start == DenseStart(col, r)
    IN  [defs |-> out.defs \o defs,
         reps |-> out.reps \o SubSeq(r.page.reps, r.used + 1, r.used + n),
         values |-> out.values \o SubSeq(r.page.values, start + 1,
                                         start + CountPresent(col, defs))]

\* The loop of carquet_column_read_batch: a page without rows ends it; so does an
\* error, which is one for the caller only if there is nothing to return.
RECURSIVE ReadPages(_, _, _, _, _, _)
ReadFrom(e, col, chunk, n, fails, out) ==
    LET k == Min({n - Len(out.defs), PageNum(e.r) - e.r.used})
    IN  IF ~e.ok THEN [r |-> e.r, out |-> out, ok |-> out.defs # <<>>]
        ELSE IF k = 0 THEN [r |-> e.r, out |-> out, ok |-> TRUE]
        ELSE ReadPages(col, chunk, [e.r EXCEPT !.used = @ + k, !.left = @ - k],
                       n, fails, CopiedRows(col, e.r, k, out))
ReadPages(col, chunk, r, n, fails, out) ==
    IF Len(out.defs) = n \/ r.left <= 0 THEN [r |-> r, out |-> out, ok |-> TRUE]
    ELSE ReadFrom(EnsurePageLoaded(col, chunk, r, fails), col, chunk, n, fails, out)

ReadBatch(col, chunk, r, n, fails) == ReadPages(col, chunk, r, n, fails, NoRows)

\* carquet_column_skip reads into a buffer of its own.
RECURSIVE SkipRows(_, _, _, _, _, _)
Discarded(part, col, chunk, n, fails, done) ==
    IF part.out.defs = <<>> THEN [r |-> part.r, done |-> done]
    ELSE SkipRows(col, chunk, part.r, n, fails, done + Len(part.out.defs))
SkipRows(col, chunk, r, n, fails, done) ==
    IF done >= n \/ r.left <= 0 THEN [r |-> r, done |-> done]
    ELSE Discarded(ReadBatch(col, chunk, r, Min({SkipChunk, n - done}), fails),
                   col, chunk, n, fails, done)

-------------------------------------------------------------------------------

\* What a pointer handed out earlier leads to now: it lies in a page, unless
\* it is an entry of the dictionary.
ValueAt(values, i) == IF i \in DOMAIN values THEN values[i] ELSE Garbage
PageAt(r, x) ==
    CASE x.in = "mapped"   -> x.n
      [] x.in = "kept"     -> r.kept[x.n]
      [] x.in = "inflated" -> r.inflated
      [] x.in = "buffer"   -> r.buffer
Deref(col, chunk, r, x) ==
    IF col.kind # "bytes" THEN x
    ELSE IF x.in = "dict" THEN Dictionary(chunk)[x.i]
    ELSE ValueAt(DecodedPage(col, chunk.pages[PageAt(r, x)], Dictionary(chunk)).values, x.i)
===============================================================================
