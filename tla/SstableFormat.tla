---------------------------- MODULE SstableFormat ----------------------------
(***************************************************************************)
(* What write_entries puts into an SSTable file, and how a key is found in *)
(* it again (storage/sstable.rs, storage/flat_index.rs): entries packed    *)
(* into blocks, an index of places, a bloom filter, the range of keys.     *)
(*                                                                         *)
(* Keys are numbers, of which only the order matters.  `table` maps the    *)
(* keys of a file to the sizes of their entries.  Checksums, compression   *)
(* and byte layout are left out: a block is read back as it was written or *)
(* the read fails.                                                         *)
(***************************************************************************)
EXTENDS Naturals, Sequences, FiniteSetsExt, SequencesExt, Sizes

CONSTANTS
  NumHashes,    \* hash functions of the bloom filter
  Hash(_, _)    \* key and function -> a number

ASSUME FormatAssumption == NumHashes \in Nat \ {0}

\* The keys of a table in the order they are written.
KeySeq(table) ==
  [n \in 1..Cardinality(DOMAIN table) |->
     CHOOSE k \in DOMAIN table :
       Cardinality({j \in DOMAIN table : j < k}) = n - 1]

\* write_entries: a block that has reached the target is written before the
\* next entry is added.  The place of an entry is its block and the offset in
\* it; write_snappy_block enters it into the index.  A file of the older,
\* uncompressed format frames every entry on its own, as for target 0.
Places(table, target) ==
  LET keys == KeySeq(table)
      Place[n \in 1..Cardinality(DOMAIN table)] ==
        IF n = 1 THEN [block |-> 1, off |-> 0]
        ELSE LET p == Place[n - 1]
                 end == p.off + table[keys[n - 1]]
             IN  IF end >= target THEN [block |-> p.block + 1, off |-> 0]
                 ELSE [block |-> p.block, off |-> end]
  IN  Place

\* FlatIndex: the keys in order, with their places.
FlatIndex(table, target) ==
  [n \in 1..Cardinality(DOMAIN table) |->
     [key |-> KeySeq(table)[n], at |-> Places(table, target)[n]]]

\* partition_point: how many keys are below k.  get: the record after them, if
\* it is for k.
PartitionPoint(index, k) ==
  Cardinality({n \in DOMAIN index : index[n].key < k})
IndexGet(index, k) ==
  {index[n] : n \in {PartitionPoint(index, k) + 1} \cap
                    {m \in DOMAIN index : index[m].key = k}}

\* The keys whose entries are in block b, where they were appended in order.
BlockKeys(table, target, b) ==
  {k \in DOMAIN table : \E n \in 1..Cardinality(DOMAIN table) :
     KeySeq(table)[n] = k /\ Places(table, target)[n].block = b}

\* parse_framed_entry: the entry that begins at an offset of the block; 0 when
\* none does, and the checksum fails.
EntryAt(table, target, b, off) ==
  LET ks == BlockKeys(table, target, b)
      here == {k \in ks : Total({j \in ks : j < k}, table) = off}
  IN  IF here = {} THEN 0 ELSE CHOOSE k \in here : TRUE

\* BloomFilter: ten bits per entry; tombstones are added too.
BloomSize(table) == 10 * Cardinality(DOMAIN table)
BloomBits(table) ==
  {Hash(k, i) % BloomSize(table) : k \in DOMAIN table, i \in 1..NumHashes}
MightContain(table, k) ==
  \A i \in 1..NumHashes : Hash(k, i) % BloomSize(table) \in BloomBits(table)

\* key_may_exist: the range, and the filter where there is one: a file opened
\* from disk has none.
KeyMayExist(table, k, bloom) ==
  /\ Min(DOMAIN table) <= k /\ k <= Max(DOMAIN table)
  /\ bloom => MightContain(table, k)
=============================================================================
