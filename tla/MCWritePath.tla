----------------------------- MODULE MCWritePath -----------------------------
(* Instances of WritePath for TLC.                                         *)
EXTENDS WritePathInv, WritePathKV, TLC

CONSTANTS k1, k2, c1, c2, o1, o2, o3

\* Each key has one writing client: c1 overwrites k1, c2 writes k2.
OwnKeysOf == (o1 :> {k1}) @@ (o2 :> {k2}) @@ (o3 :> {k1})
OwnClientOf == (o1 :> c1) @@ (o2 :> c2) @@ (o3 :> c1)

\* Two clients on one key plus a batch over two keys.
SharedKeysOf ==
  (o1 :> {k1}) @@ (o2 :> {k1, k2}) @@ (o3 :> {k1})

\* One operation of each client, one of them a batch.
PairKeysOf == (o1 :> {k1}) @@ (o2 :> {k1, k2})
PairClientOf == (o1 :> c1) @@ (o2 :> c2)

\* A key that only the last operation writes.
SplitKeysOf == (o1 :> {k1}) @@ (o2 :> {k1}) @@ (o3 :> {k2})
=============================================================================
