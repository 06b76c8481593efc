----------------------------- MODULE BlockCache ------------------------------
(***************************************************************************)
(* The cache of decompressed blocks that all SSTables share                *)
(* (storage/block_cache.rs), as a value and the operations on it.  A block *)
(* is known by its key; what it holds is the business of the module that   *)
(* extends this one, and so is its size.  Hit, miss and eviction counters  *)
(* are left out.  Every operation runs under the mutex of                  *)
(* SharedBlockCache.                                                       *)
(***************************************************************************)
EXTENDS Naturals, Sequences, SequencesExt, FiniteSetsExt, Sizes

CONSTANT CacheMax    \* max_size

ASSUME CacheAssumption == CacheMax \in Nat

\* blocks: the keys of the HashMap; order: access_order; size: current_size.
EmptyCache == [blocks |-> {}, order |-> <<>>, size |-> 0]

\* get: a hit moves the key, the first time it is there, to the end of
\* access_order.
\* Mutant: it is taken out of access_order and not put back.
TouchLost(c, b) == [c EXCEPT !.order = RemoveFirst(@, b)]
Touch(c, b) == [c EXCEPT !.order = Append(RemoveFirst(@, b), b)]

\* evict_lru, n times: a key that is no longer cached only leaves the order.
EvictLru(c, n, sizes) ==
  LET gone == c.blocks \cap Range(SubSeq(c.order, 1, n))
  IN  [blocks |-> c.blocks \ gone,
       order  |-> SubSeq(c.order, n + 1, Len(c.order)),
       size   |-> c.size - Total(gone, sizes)]

\* put: evict while the block does not fit and there is something to evict,
\* then insert.  A key that is already there is entered and counted again; a
\* block larger than the cache is inserted too.
Put(c, b, sizes) ==
  LET evict == {n \in 0..Len(c.order) :
                  LET d == EvictLru(c, n, sizes)
                  IN  d.blocks = {} \/ d.size + sizes[b] <= CacheMax}
      d == EvictLru(c, IF evict = {} THEN Len(c.order) ELSE Min(evict), sizes)
  IN  [blocks |-> d.blocks \cup {b}, order |-> Append(d.order, b),
       size   |-> d.size + sizes[b]]

\* The loop of put ends and no subtraction of evict_lru goes below zero: what
\* is cached is in access_order, and has been counted.
CacheConsistent(c, sizes) ==
  /\ c.blocks \subseteq Range(c.order)
  /\ c.size >= Total(c.blocks, sizes)
=============================================================================
