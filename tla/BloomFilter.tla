------------------------------ MODULE BloomFilter ------------------------------
(***************************************************************************)
(* The split block bloom filters of metadata/bloom_filter.c: filled value  *)
(* by value while a column chunk is written, merged, stored in the file    *)
(* behind a header, and read back.                                         *)
(*                                                                         *)
(* A filter is its size and the set of the bits that are set, each a       *)
(* block, a word of the block and a position in the word.  Values are      *)
(* their hashes, of twice HalfBits bits.                                   *)
(***************************************************************************)
EXTENDS Integers, Sequences

CONSTANTS Filters,       \* handles of filters
          Hashes,        \* the hashes of the values that occur
          BlockBytes,    \* BLOOM_FILTER_BLOCK_SIZE: 32
          Salt,          \* one multiplier per word of a block
          HalfBits,      \* width of half a hash: 32
          PositionBits,  \* width of a position in a word: 5
          MaxBytes       \* bound: sizes that filters are asked for

ASSUME BloomAssumption ==
    /\ BlockBytes \in Nat \ {0} /\ MaxBytes \in Nat
    /\ HalfBits \in Nat /\ PositionBits \in 0 .. HalfBits
    /\ Salt \in Seq(Nat) /\ Hashes \subseteq Nat

VARIABLES filter,  \* the filters in memory
          values,  \* the values that went into each: history
          file,    \* the filter in the file, behind the size in its header
          stored   \* the values that went into that one: history
bloomVars == <<filter, values, file, stored>>

NoFilter == [bytes |-> 0, bits |-> {}]
Exists(f) == filter[f].bytes > 0

\* carquet_bloom_filter_create rounds up to whole blocks, and to one at least.
Rounded(bytes) ==
    IF bytes < BlockBytes THEN BlockBytes
    ELSE ((bytes + BlockBytes - 1) \div BlockBytes) * BlockBytes
NumBlocks(bytes) == bytes \div BlockBytes

\* bloom_filter_block_index scales the upper half of the hash to the number of
\* blocks; the lower half, times each salt, gives a position in each word.
BlockIndex(hash, blocks) == ((hash \div 2^HalfBits) * blocks) \div 2^HalfBits
Position(hash, word) ==
    ((Salt[word] * (hash % 2^HalfBits)) % 2^HalfBits) \div 2^(HalfBits - PositionBits)
BitsOf(hash, bytes) ==
    {[block |-> BlockIndex(hash, NumBlocks(bytes)), word |-> w, position |-> Position(hash, w)] :
        w \in DOMAIN Salt}

\* carquet_bloom_filter_check_hash
Check(x, hash) == BitsOf(hash, x.bytes) \subseteq x.bits

-------------------------------------------------------------------------------
NoFile == [numBytes |-> 0, bytes |-> 0, bits |-> {}]
BloomInit ==
    /\ filter = [f \in Filters |-> NoFilter] /\ values = [f \in Filters |-> {}]
    /\ file = NoFile /\ stored = {}

Create(f) ==
    /\ ~Exists(f)
    /\ \E bytes \in 0 .. MaxBytes :
          filter' = [filter EXCEPT ![f] = [bytes |-> Rounded(bytes), bits |-> {}]]
    /\ values' = [values EXCEPT ![f] = {}]
    /\ UNCHANGED <<file, stored>>

\* carquet_bloom_filter_insert_i32 and its kin, from bloom_filter_insert_chunk
Insert(f, hash) ==
    /\ Exists(f)
    /\ filter' = [filter EXCEPT ![f].bits = @ \cup BitsOf(hash, filter[f].bytes)]
    /\ values' = [values EXCEPT ![f] = @ \cup {hash}]
    /\ UNCHANGED <<file, stored>>

\* carquet_bloom_filter_merge refuses filters of different sizes.
MergeAnySize(f, g) ==
    /\ Exists(f) /\ Exists(g)
    /\ filter' = [filter EXCEPT ![f].bits = @ \cup filter[g].bits]
    /\ values' = [values EXCEPT ![f] = @ \cup values[g]]
    /\ UNCHANGED <<file, stored>>
Merge(f, g) ==
    /\ Exists(f) /\ Exists(g)
    /\ filter[f].bytes = filter[g].bytes
    /\ filter' = [filter EXCEPT ![f].bits = @ \cup filter[g].bits]
    /\ values' = [values EXCEPT ![f] = @ \cup values[g]]
    /\ UNCHANGED <<file, stored>>

\* carquet_bloom_filter_write, behind a header with the number of bytes
Write(f) ==
    /\ Exists(f)
    /\ file' = [numBytes |-> filter[f].bytes, bytes |-> filter[f].bytes, bits |-> filter[f].bits]
    /\ stored' = values[f]
    /\ UNCHANGED <<filter, values>>

\* The file was cut: what is left of the filter is shorter than announced.
CutFile ==
    /\ \E n \in 0 .. file.bytes - 1 :
          file' = [file EXCEPT !.bytes = n,
                               !.bits = {b \in @ : (b.block + 1) * BlockBytes <= n}]
    /\ UNCHANGED <<filter, values, stored>>

\* carquet_reader_get_bloom_filter and carquet_bloom_filter_from_data: the
\* announced bytes must be there, and be whole blocks.
ReadFilter(f) ==
    /\ ~Exists(f)
    /\ file.numBytes > 0 /\ file.numBytes <= file.bytes
    /\ file.numBytes >= BlockBytes /\ file.numBytes % BlockBytes = 0
    /\ filter' = [filter EXCEPT ![f] = [bytes |-> file.numBytes, bits |-> file.bits]]
    /\ values' = [values EXCEPT ![f] = stored]
    /\ UNCHANGED <<file, stored>>

Destroy(f) ==
    /\ Exists(f)
    /\ filter' = [filter EXCEPT ![f] = NoFilter] /\ values' = [values EXCEPT ![f] = {}]
    /\ UNCHANGED <<file, stored>>

BloomNext ==
    \/ \E f \in Filters :
          \/ Create(f) \/ Write(f) \/ ReadFilter(f) \/ Destroy(f)
          \/ \E hash \in Hashes : Insert(f, hash)
          \/ \E g \in Filters : Merge(f, g)
    \/ CutFile
BloomSpec == BloomInit /\ [][BloomNext]_bloomVars

-------------------------------------------------------------------------------
\* A value that went into a filter, alone, by a merge or through the file, is
\* never denied by it: a reader that skips a column chunk because of its bloom
\* filter misses nothing (carquet_bloom_filter_check_hash).
NoFalseNegatives ==
    \A f \in Filters : \A hash \in values[f] : Check(filter[f], hash)
===============================================================================
