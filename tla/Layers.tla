-------------------------------- MODULE Layers -------------------------------
(***************************************************************************)
(* The layers of the engine as EngineApi and ColumnFamilies see them.  A   *)
(* layer (memtable or SSTable) maps each key to a cell: 0 when it has no   *)
(* entry, n when it holds the value of the n-th write, -n when it holds    *)
(* the tombstone of the n-th write.  The number of the write stands for    *)
(* the entry's timestamp too: with one flush at a time both orders agree   *)
(* (Sequencer).                                                            *)
(***************************************************************************)
EXTENDS Integers, Sequences, SequencesExt, FiniteSetsExt

Stamp(c) == IF c < 0 THEN -c ELSE c
Value(c) == IF c > 0 THEN c ELSE 0

\* A lookup takes what the newer layer says, if it says something.
Over(c, d) == IF c # 0 THEN c ELSE d

\* The entries of k in a list of layers: the first and the last of the list
\* that has one, and the newest by timestamp.
Hits(tables, k) == {i \in DOMAIN tables : tables[i][k] # 0}
Cells(tables, k) == {tables[i][k] : i \in Hits(tables, k)}
FirstHit(tables, k) ==
  IF Hits(tables, k) = {} THEN 0 ELSE tables[Min(Hits(tables, k))][k]
LastHit(tables, k) ==
  IF Hits(tables, k) = {} THEN 0 ELSE tables[Max(Hits(tables, k))][k]
NewestHit(tables, k) ==
  IF Cells(tables, k) = {} THEN 0
  ELSE CHOOSE c \in Cells(tables, k) :
         \A d \in Cells(tables, k) : Stamp(d) <= Stamp(c)
=============================================================================
