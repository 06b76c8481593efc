----------------------------- MODULE WritePathKV -----------------------------
(***************************************************************************)
(* The write path implements the key-value map of KVStore: swaps, SSTable  *)
(* writes, publications, removals and WAL truncation are invisible, and a  *)
(* crash gives back the map.  The claim is for keys that one client writes *)
(* at a time: two clients on one key may reach the WAL and the memtable in *)
(* opposite orders.                                                        *)
(***************************************************************************)
EXTENDS WritePath

RunBy(o) == {c \in Clients : cur[c] = o}

StatusBar ==
  [o \in Ops |-> IF o \in acked THEN "ok"
                 ELSE IF o \in ended THEN "lost"
                 ELSE IF RunBy(o) # {} THEN "running" ELSE "new"]

AppliedBar ==
  [o \in Ops |-> IF o \in acked THEN KeysOf[o]
                 ELSE {k \in KeysOf[o] :
                        \E c \in RunBy(o) : pc[c] # "log" /\ k \notin todo[c]}]

KvBar == [k \in Keys |-> CHOOSE o \in View(k) : TRUE]

KV == INSTANCE KVStore WITH
        kv <- KvBar,
        status <- StatusBar,
        applied <- AppliedBar

\* Every behaviour of put, delete, batch_put, flush, compact and crash
\* recovery is a behaviour of the map that the StorageEngine trait promises.
ImplementsKVStore == KV!Spec
=============================================================================
