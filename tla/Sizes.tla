-------------------------------- MODULE Sizes --------------------------------
(***************************************************************************)
(* Sums of sizes, of entries in a block or of blocks in the cache, counted *)
(* as bytes.                                                               *)
(***************************************************************************)
EXTENDS Naturals, FiniteSets

Bytes(S, sizes) == UNION {{x} \X (1..sizes[x]) : x \in S}
Total(S, sizes) == Cardinality(Bytes(S, sizes))
=============================================================================
