------------------------------ MODULE EngineApi ------------------------------
(***************************************************************************)
(* The calls of LsmTreeEngine (core/engine.rs) that span all layers: the   *)
(* live key counter kept by put, batch_put and delete, the key scans, the  *)
(* merging scans, the resumable prefix cursor, clear() and                 *)
(* recover_from_corruption(), beside one flush at a time and compaction.   *)
(*                                                                         *)
(* A layer maps keys to the cells of Layers.  Keys are numbers, since only *)
(* their order matters, and a scan's prefix or range holds all of them:    *)
(* every layer filters by it alike.  A point lookup is one step here;      *)
(* WritePath and Compaction take it apart.                                 *)
(***************************************************************************)
EXTENDS Layers

CONSTANTS
  NumKeys,         \* number of keys
  Writers,         \* tasks that put and delete
  Scanners,        \* tasks that scan, once each
  Workloads,       \* what to look at: the calls made and the files found
  Limit,           \* the limit given to scan_range_limit, and the size of
                   \* the batches asked of try_prefix_scan_next_n_sync
  NullPuts,        \* whether a put may store Value::Null
  Modulus,         \* stands for 2^64, the range of live_key_count
  MaxFlushes,      \* bound on the number of flushes
  MaxCompactions   \* bound on the number of compactions

\* The kinds of scans: from the newest layer down, with a cursor, and from
\* the oldest layer up ("merge").
DownScans == {"keys", "range", "limit", "all"}
Cursors == {"cursor", "next", "try"}
AllKinds == DownScans \cup Cursors \cup {"merge"}

ASSUME ApiAssumption ==
  /\ NumKeys \in Nat \ {0} /\ Modulus \in Nat \ {0}
  /\ MaxFlushes \in Nat /\ MaxCompactions \in Nat /\ Limit \in Nat \ {0}
  /\ NullPuts \in BOOLEAN

\* A workload: the key lists that put and delete calls are made with, the
\* kinds of scans, the files found at open (a list for level 0, in any order,
\* and one for level 1), and the bounds on writes and on administrative calls
\* (clear, recover_from_corruption, set_bulk_import).
ASSUME WorkloadAssumption ==
  \A w \in Workloads :
    /\ w.puts \cup w.deletes \subseteq Seq(1..NumKeys) \ {<<>>}
    /\ w.kinds \subseteq AllKinds
    /\ \A f \in w.old : /\ f[1] \in Seq([1..NumKeys -> {-3, -2, 0, 2, 3}])
                        /\ f[2] \in [1..NumKeys -> {0, 1}]
    /\ w.writes \in Nat /\ w.admin \in Nat

Keys == 1..NumKeys
KeySeq == [i \in Keys |-> i]

\* What a session finds on disk was written by writes 1 (level 1), 2 and 3
\* (level 0); its own writes are numbered from 4.
OldWrites == 3
NoEntries == [k \in Keys |-> 0]

VARIABLES
  work,     \* the workload
  active,   \* active_memtable
  imm,      \* immutable_memtables, oldest first
  l0, l1,   \* the files of level 0, in the order of the list; level 1
  left,     \* files in data_dir that the level map does not hold
  wal,      \* the last WAL record of each key
  linked,   \* whether the segment being written is in the WAL directory
  count,    \* live_key_count
  bulk,     \* bulk_import
  flush,    \* the running flush: where it is and the entries it cloned
  reset,    \* where the running clear or recover_from_corruption is
  call,     \* the put or delete each writer runs
  scan,     \* the scan each scanner runs
  seen,     \* seen[s][k]: what gets of k returned since scan s began
  writes, flushes, compactions, admin,
  calm,     \* no write call overlapped another one, a flush or a reset
  exact     \* no put skipped the lookup and nothing was counted twice

layers == <<active, imm, l0, l1, left>>
log    == <<wal, linked>>
counts == <<count, bulk, exact>>
bounds == <<writes, flushes, compactions, admin>>
vars == <<work, active, imm, l0, l1, left, wal, linked, count, bulk, flush, reset,
          call, scan, seen, writes, flushes, compactions, admin, calm, exact>>

-----------------------------------------------------------------------------
(* Lookups.                                                                *)

\* get_from_memtables and get_from_sstables.
MemGet(k) == Over(active[k], FirstHit(imm, k))
SstGet(k) == Over(NewestHit(l0, k), l1[k])
\* What get(k) returns: a value's number, or 0.
Get(k) == Value(Over(MemGet(k), SstGet(k)))
LiveKeys == {k \in Keys : Get(k) # 0}

\* What get(k) would return after a restart: the log is replayed over every
\* file that load_existing_sstables finds.
AfterRestart(k) ==
  LET files(n) == SetToSeq({f.data : f \in {g \in left : g.level = n}})
  IN  Value(Over(wal[k], Over(NewestHit(l0 \o files(0), k),
                              FirstHit(<<l1>> \o files(1), k))))

NumEntries(t) == Cardinality({k \in Keys : t[k] # 0})

-----------------------------------------------------------------------------
NoFlush == [at |-> "idle", data |-> NoEntries]
NoCall == [at |-> "idle", kind |-> "put", todo |-> <<>>, effects |-> <<>>,
           wasLive |-> FALSE]
NoScan == [kind |-> "keys", at |-> "idle", out |-> <<>>, map |-> NoEntries,
           heads |-> <<>>, cand |-> 0, last |-> 0, batch |-> <<>>,
           moved |-> FALSE, shadow |-> FALSE, jumbled |-> FALSE,
           dropped |-> FALSE]

\* refresh_live_key_count: the entries of all layers, tombstones and older
\* versions included.
RefreshedCount ==
  LET entries(tables) ==
        MapThenSumSet(LAMBDA i : NumEntries(tables[i]), DOMAIN tables)
  IN  entries(l0) + NumEntries(l1) + NumEntries(active) + entries(imm)

\* An engine just opened: on an empty directory, or on the files of an
\* earlier session that ended with flush() and so left no WAL record.
\* load_existing_sstables lists level 0 in the order of read_dir, which need
\* not be the order in which the files were written.
Init ==
  /\ work \in Workloads
  /\ \E f \in work.old : l0 = f[1] /\ l1 = f[2]
  /\ active = NoEntries /\ imm = <<>> /\ left = {}
  /\ wal = NoEntries /\ linked = TRUE
  /\ count = RefreshedCount /\ bulk = FALSE
  /\ flush = NoFlush /\ reset = "idle"
  /\ call = [w \in Writers |-> NoCall]
  /\ scan = [s \in Scanners |-> NoScan]
  /\ seen = [s \in Scanners |-> [k \in Keys |-> {}]]
  /\ writes = 0 /\ flushes = 0 /\ compactions = 0 /\ admin = 0
  /\ calm = TRUE /\ exact = (count = Cardinality(LiveKeys))

-----------------------------------------------------------------------------
(* put, batch_put, delete, batch_delete and the live key counter.          *)

Quiet == \A w \in Writers : call[w].at = "idle"
Alone(w) ==
  /\ flush.at = "idle" /\ imm = <<>> /\ reset = "idle"
  /\ \A v \in Writers \ {w} : call[v].at = "idle"

\* adjust_live_key_count: fetch_add and fetch_sub wrap.
Adjusted(delta) == (count + delta) % Modulus

\* Memtable::put reports what it replaced in the active memtable; a Null is
\* a tombstone to it.
\* Mutant: a tombstone counts as a live entry.
PutEffectIgnoresTombstone(k) ==
  IF active[k] = 0 THEN "Inserted" ELSE "UpdatedLive"
PutEffect(k) ==
  IF active[k] = 0 THEN "Inserted"
  ELSE IF active[k] < 0 THEN "Resurrected" ELSE "UpdatedLive"

\* One entry goes to the log and into the active memtable.
Write(k, c) ==
  /\ writes' = writes + 1
  /\ active' = [active EXCEPT ![k] = c]
  /\ wal' = IF linked THEN [wal EXCEPT ![k] = c] ELSE wal

\* A call begins with a key list, or goes on with what is left of it.
Fresh(w, items) == call[w].at = "idle" /\ writes + Len(items) <= work.writes
Rest(w, kind, items) ==
  call[w].at = "apply" /\ call[w].kind = kind /\ call[w].todo = items

\* put, batch_put and put_with_ttl: one item of the call.  Without the ttl
\* feature put_with_ttl does all this, and then returns an error.
PutItem(w, items) ==
  /\ \/ items \in work.puts /\ Fresh(w, items)
     \/ Rest(w, "put", items)
  /\ LET k == Head(items)
         n == OldWrites + writes + 1
     IN  /\ \E c \in {n} \cup (IF NullPuts THEN {-n} ELSE {}) : Write(k, c)
         /\ call' = [call EXCEPT ![w] = [NoCall EXCEPT
              !.todo = Tail(items),
              !.effects = Append(call[w].effects, <<k, PutEffect(k)>>),
              !.at = IF Len(items) = 1 THEN "count" ELSE "apply"]]
  /\ UNCHANGED <<imm, l0, l1, left, linked, counts, flush, reset, scan,
                 flushes, compactions, admin>>

\* apply_put_key_count of the next effect.  The flag of bulk import spares
\* the lookup in the SSTables.
PutDelta(effect) ==
  CASE effect[2] = "UpdatedLive" -> 0
    [] effect[2] = "Resurrected" -> 1
    [] OTHER -> IF bulk \/ Value(SstGet(effect[1])) = 0 THEN 1 ELSE 0
CountItem(w) ==
  /\ call[w].at = "count" /\ call[w].kind = "put"
  /\ LET e == Head(call[w].effects)
     IN  /\ count' = Adjusted(PutDelta(e))
         /\ exact' = (exact /\ ~(bulk /\ e[2] = "Inserted"))
         /\ call' = [call EXCEPT ![w] =
              IF Len(@.effects) = 1 THEN NoCall
              ELSE [@ EXCEPT !.effects = Tail(@)]]
  /\ UNCHANGED <<layers, log, bulk, flush, reset, scan, bounds>>

\* batch_apply_put_key_counts in bulk import: one addition for the batch.
CountBatch(w) ==
  /\ call[w].at = "count" /\ call[w].kind = "put" /\ bulk
  /\ Len(call[w].effects) > 1
  /\ LET new == {i \in DOMAIN call[w].effects :
                   call[w].effects[i][2] # "UpdatedLive"}
     IN  count' = Adjusted(Cardinality(new))
  /\ exact' = FALSE
  /\ call' = [call EXCEPT ![w] = NoCall]
  /\ UNCHANGED <<layers, log, bulk, flush, reset, scan, bounds>>

\* delete: exists(key) before the guard is taken for the write, then the
\* tombstone, then the counter; batch_delete goes on to the next key.
DeleteLook(w, items) ==
  /\ \/ items \in work.deletes /\ Fresh(w, items)
     \/ call[w].at = "look" /\ call[w].todo = items
  /\ call' = [call EXCEPT ![w] = [NoCall EXCEPT
       !.kind = "delete", !.todo = items, !.at = "apply",
       !.wasLive = Get(Head(items)) # 0]]
  /\ UNCHANGED <<layers, log, counts, flush, reset, scan, bounds>>

DeleteItem(w) ==
  /\ Rest(w, "delete", call[w].todo)
  /\ Write(Head(call[w].todo), -(OldWrites + writes + 1))
  /\ call' = [call EXCEPT ![w].at = "count"]
  /\ UNCHANGED <<imm, l0, l1, left, linked, counts, flush, reset, scan,
                 flushes, compactions, admin>>

DeleteDelta(w) == IF call[w].wasLive THEN -1 ELSE 0
DeleteCount(w) ==
  /\ call[w].at = "count" /\ call[w].kind = "delete"
  /\ count' = Adjusted(DeleteDelta(w))
  /\ call' = [call EXCEPT ![w] =
       IF Len(@.todo) = 1 THEN NoCall
       ELSE [@ EXCEPT !.at = "look", !.todo = Tail(@)]]
  /\ UNCHANGED <<layers, log, bulk, exact, flush, reset, scan, bounds>>

\* set_bulk_import.
SetBulkImport ==
  /\ admin < work.admin
  /\ admin' = admin + 1
  /\ bulk' = ~bulk
  /\ UNCHANGED <<layers, log, count, exact, flush, reset, call, scan, writes,
                 flushes, compactions>>

-----------------------------------------------------------------------------
(* Flush, compaction, clear and recover_from_corruption.                   *)

\* scan_range, scan_range_limit and scan_all keep the immutable list locked
\* for reading until they return; a write lock on it waits.
HoldsImm(s) == scan[s].at = "sst" /\ scan[s].kind \in {"range", "limit", "all"}
ImmFree == \A s \in Scanners : ~HoldsImm(s)

\* Between calls a scan depends on nothing it read before.
Resting == {"idle", "seek", "done", "ended"}
\* History: entries left the place where a scan under way may still look.
Moved(kinds) ==
  scan' = [s \in Scanners |->
             [scan[s] EXCEPT !.moved = @ \/ /\ scan[s].kind \in kinds
                                            /\ scan[s].at \notin Resting]]

\* flush_memtable_internal: swap and clone.
Swap ==
  /\ flush.at = "idle" /\ active # NoEntries
  /\ flushes < MaxFlushes /\ ImmFree
  /\ flushes' = flushes + 1
  /\ imm' = Append(imm, active)
  /\ active' = NoEntries
  /\ flush' = [at |-> "publish", data |-> active]
  /\ Moved({"merge"})
  /\ UNCHANGED <<l0, l1, left, log, counts, reset, call, writes, compactions,
                 admin>>

\* The file is complete and joins level 0.
Publish ==
  /\ flush.at = "publish"
  /\ l0' = Append(l0, flush.data)
  /\ flush' = [flush EXCEPT !.at = "remove"]
  /\ UNCHANGED <<active, imm, l1, left, log, counts, reset, call, scan, bounds>>

\* The flushed memtable leaves the immutable list, if a list that long is
\* still there.
RemoveImm ==
  /\ flush.at = "remove" /\ ImmFree
  /\ imm' = IF imm = <<>> THEN imm ELSE Tail(imm)
  /\ flush' = NoFlush
  /\ Moved({"merge"} \cup Cursors)
  /\ UNCHANGED <<active, l0, l1, left, log, counts, reset, call, bounds>>

\* compact_all: levels 0 and 1 become level 1 and tombstones go.
Compact ==
  /\ l0 # <<>> /\ compactions < MaxCompactions
  /\ compactions' = compactions + 1
  /\ l0' = <<>>
  /\ l1' = [k \in Keys |-> Value(SstGet(k))]
  /\ UNCHANGED <<active, imm, left, log, counts, flush, reset, call, scan,
                 writes, flushes, admin>>

\* clear, one lock after the other and under no guard: the active memtable,
\* the immutable list, the level map (the files stay where they are), the
\* WAL directory (the segment being written stays open), the counter.
ClearActive ==
  /\ reset = "idle" /\ admin < work.admin
  /\ admin' = admin + 1
  /\ active' = NoEntries
  /\ reset' = "clearImm"
  /\ UNCHANGED <<imm, l0, l1, left, log, counts, flush, call, scan, writes,
                 flushes, compactions>>

ClearImm ==
  /\ reset = "clearImm" /\ ImmFree
  /\ imm' = <<>>
  /\ reset' = "clearSst"
  /\ Moved(AllKinds)
  /\ UNCHANGED <<active, l0, l1, left, log, counts, flush, call, bounds>>

ClearSst ==
  /\ reset = "clearSst"
  /\ left' = left \cup {[level |-> 0, data |-> t] : t \in ToSet(l0)}
                  \cup {[level |-> 1, data |-> t] : t \in {l1} \ {NoEntries}}
  /\ l0' = <<>> /\ l1' = NoEntries
  /\ reset' = "clearWal"
  /\ Moved(AllKinds)
  /\ UNCHANGED <<active, imm, log, counts, flush, call, bounds>>

RemoveWalDir(next) ==
  /\ wal' = NoEntries /\ linked' = FALSE
  /\ reset' = next
ClearWal ==
  /\ reset = "clearWal"
  /\ RemoveWalDir("clearCount")
  /\ UNCHANGED <<layers, counts, flush, call, scan, bounds>>

ClearCount ==
  /\ reset = "clearCount"
  /\ count' = 0 /\ exact' = TRUE
  /\ reset' = "idle"
  /\ UNCHANGED <<layers, log, bulk, flush, call, scan, bounds>>

\* recover_from_corruption: the WAL directory, then the immutable list; the
\* flush it ends with is a Swap like any other.
RecoverWal ==
  /\ reset = "idle" /\ admin < work.admin
  /\ admin' = admin + 1
  /\ RemoveWalDir("recoverImm")
  /\ UNCHANGED <<layers, counts, flush, call, scan, writes, flushes,
                 compactions>>
RecoverImm ==
  /\ reset = "recoverImm" /\ ImmFree
  /\ imm' = <<>>
  /\ reset' = "idle"
  /\ Moved(AllKinds)
  /\ UNCHANGED <<active, l0, l1, left, log, counts, flush, call, bounds>>

-----------------------------------------------------------------------------
(* Scans from the newest layer down: scan_prefix and keys ("keys"),        *)
(* scan_range, scan_range_limit, scan_all.  They take no operation_guard.  *)

\* The entries a layer contributes, in key order.  The memtables and most
\* file scans leave tombstones out; SSTable::scan_prefix reads the index
\* only and lists them.
Pairs(keys, t) == [i \in DOMAIN keys |-> <<keys[i], t[keys[i]]>>]
LiveEntries(t) == Pairs(SelectSeq(KeySeq, LAMBDA k : t[k] > 0), t)
IndexKeys(t) == SelectSeq(KeySeq, LAMBDA k : t[k] # 0)
IndexEntries(t) == Pairs(IndexKeys(t), t)
FileEntries(kind, t) == IF kind = "keys" THEN IndexEntries(t)
                        ELSE LiveEntries(t)
AllOf(tables) == FlattenSeq([i \in DOMAIN tables |-> LiveEntries(tables[i])])

\* scan_range_limit returns as soon as it has enough, duplicates included.
Full(kind, out) == kind = "limit" /\ Len(out) >= Limit
Cut(kind, out) == IF Full(kind, out) THEN SubSeq(out, 1, Limit) ELSE out

\* Where a scan looks next; Mutant: the files before the immutable list.
AfterActiveSst == "sst"
AfterActive == "imm"

ScanActive(s) ==
  /\ scan[s].at = "active" /\ scan[s].kind \in DownScans
  /\ LET out == LiveEntries(active)
     IN  scan' = [scan EXCEPT
           ![s].out = Cut(scan[s].kind, out),
           ![s].at = IF Full(scan[s].kind, out) THEN "done" ELSE AfterActive]
  /\ UNCHANGED <<layers, log, counts, flush, reset, call, bounds>>

ScanImm(s) ==
  /\ scan[s].at = "imm" /\ scan[s].kind \in DownScans
  /\ LET out == scan[s].out \o AllOf(imm)
     IN  scan' = [scan EXCEPT
           ![s].out = Cut(scan[s].kind, out),
           ![s].at = IF Full(scan[s].kind, out) THEN "done" ELSE "sst"]
  /\ UNCHANGED <<layers, log, counts, flush, reset, call, bounds>>

ScanSst(s) ==
  /\ scan[s].at = "sst" /\ scan[s].kind \in DownScans
  /\ LET files == [i \in 1..(Len(l0) + 1) |->
                     FileEntries(scan[s].kind, (l0 \o <<l1>>)[i])]
     IN  scan' = [scan EXCEPT
           ![s].out = Cut(scan[s].kind, @ \o FlattenSeq(files)),
           ![s].at = "done"]
  /\ UNCHANGED <<layers, log, counts, flush, reset, call, bounds>>

-----------------------------------------------------------------------------
(* Scans from the oldest layer up: scan_prefix_with_values,                *)
(* scan_range_with_values, iter_range.                                     *)

\* apply_scan_layer: a value replaces, a tombstone removes.
\* Mutant of ApplyLayer: a tombstone leaves the older value.
ApplyLiveOnly(map, t) == [k \in Keys |-> IF t[k] > 0 THEN t[k] ELSE map[k]]
ApplyLayer(map, t) ==
  [k \in Keys |-> IF t[k] = 0 THEN map[k] ELSE Value(t[k])]
ApplyLayers(map, tables) == FoldLeft(ApplyLayer, map, tables)

\* Level 0 first, in the order of the list, and level 1 over it.
MergeSst(s) ==
  /\ scan[s].at = "sst" /\ scan[s].kind = "merge"
  /\ scan' = [scan EXCEPT
       ![s].map = ApplyLayers(NoEntries, l0 \o <<l1>>),
       ![s].shadow = \E k \in Keys : NewestHit(l0, k) # 0 /\ l1[k] # 0,
       ![s].jumbled = \E k \in Keys : LastHit(l0, k) # NewestHit(l0, k),
       ![s].at = "imm"]
  /\ UNCHANGED <<layers, log, counts, flush, reset, call, bounds>>

MergeImm(s) ==
  /\ scan[s].at = "imm" /\ scan[s].kind = "merge"
  /\ scan' = [scan EXCEPT ![s].map = ApplyLayers(@, imm), ![s].at = "active"]
  /\ UNCHANGED <<layers, log, counts, flush, reset, call, bounds>>

MergeActive(s) ==
  /\ scan[s].at = "active" /\ scan[s].kind = "merge"
  /\ scan' = [scan EXCEPT ![s].map = ApplyLayer(@, active), ![s].at = "done"]
  /\ UNCHANGED <<layers, log, counts, flush, reset, call, bounds>>

-----------------------------------------------------------------------------
(* The prefix cursor: prefix_scan_start and prefix_scan_next ("cursor"),   *)
(* scan_next ("next"), which starts anew after the last key on every call, *)
(* and the non-blocking try_prefix_scan_start_sync and                     *)
(* try_prefix_scan_next_n_sync ("try"), which collect a batch.             *)

\* A head is a pinned file and a position in its index, past the last key.
HeadOf(n, t, last) ==
  [level |-> n, data |-> t,
   pos |-> Cardinality({k \in 1..last : t[k] # 0}) + 1]
KeyAt(h) == IF h.pos <= Len(IndexKeys(h.data)) THEN IndexKeys(h.data)[h.pos]
            ELSE 0

\* prefix_scan_start and prefix_scan_seek_after.
CursorSeek(s) ==
  /\ scan[s].at = "seek"
  /\ scan' = [scan EXCEPT
       ![s].heads = [i \in DOMAIN l0 |-> HeadOf(0, l0[i], scan[s].last)]
                      \o <<HeadOf(1, l1, scan[s].last)>>,
       ![s].at = "min"]
  /\ UNCHANGED <<layers, log, counts, flush, reset, call, bounds>>

\* The least of the candidates after the last key; 0 when there is none.
Least(cands, last) == LET c == {k \in cands : k > last}
                      IN  IF c = {} THEN 0 ELSE Min(c)
HeldKeys(t) == {k \in Keys : t[k] # 0}

\* prefix_scan_min_key: the heads and the active memtable, then the
\* immutable ones; tombstones are candidates too.
CursorMin(s) ==
  /\ scan[s].at = "min"
  /\ scan' = [scan EXCEPT
       ![s].cand = Least(HeldKeys(active) \cup
                         {KeyAt(scan[s].heads[i]) : i \in DOMAIN scan[s].heads},
                         scan[s].last),
       ![s].at = "minImm"]
  /\ UNCHANGED <<layers, log, counts, flush, reset, call, bounds>>

CursorMinImm(s) ==
  /\ scan[s].at = "minImm"
  /\ LET cand == Least({scan[s].cand} \cup
                       UNION {HeldKeys(imm[i]) : i \in DOMAIN imm},
                       scan[s].last)
     IN  scan' = [scan EXCEPT
           ![s].cand = cand,
           ![s].out = IF cand = 0 THEN @ \o scan[s].batch ELSE @,
           ![s].batch = IF cand = 0 THEN <<>> ELSE @,
           ![s].at = IF cand = 0 THEN "done" ELSE "get"]
  /\ UNCHANGED <<layers, log, counts, flush, reset, call, bounds>>

\* prefix_scan_advance, and the entry is handed out unless it is dead.
Advanced(heads, k) ==
  [i \in DOMAIN heads |->
     IF KeyAt(heads[i]) = k THEN [heads[i] EXCEPT !.pos = @ + 1]
     ELSE heads[i]]
\* try_prefix_scan_next_n_sync returns what it has when the batch is full.
Deliver(s, c) ==
  LET sc == scan[s]
      live == c > 0
      got == IF live THEN Append(sc.batch, <<sc.cand, c>>) ELSE sc.batch
      returns == sc.kind # "try" \/ Len(got) = Limit
  IN  scan' = [scan EXCEPT ![s] = [sc EXCEPT
        !.out = IF returns THEN @ \o got ELSE @,
        !.batch = IF returns THEN <<>> ELSE got,
        !.last = sc.cand,
        !.heads = Advanced(@, sc.cand),
        !.cand = 0,
        !.at = IF live /\ sc.kind = "next" THEN "seek" ELSE "min"]]

\* A try_read finds the lock taken, by a put to any key: the call returns
\* None, what it collected is dropped while the cursor stays behind it, and
\* the caller falls back to prefix_scan_next with the same cursor.
\* Mutant of FallenBack: the cursor stood on the candidate already.
FallenBackPast(sc) ==
  [sc EXCEPT !.kind = "cursor", !.batch = <<>>, !.last = sc.cand, !.cand = 0,
             !.at = "min", !.dropped = sc.batch # <<>>]
FallenBack(sc) ==
  [sc EXCEPT !.kind = "cursor", !.batch = <<>>, !.cand = 0, !.at = "min",
             !.dropped = sc.batch # <<>>]
TryFails(s) ==
  /\ scan[s].kind = "try" /\ scan[s].at \in {"min", "minImm", "get", "getImm"}
  /\ scan' = [scan EXCEPT ![s] = FallenBack(@)]
  /\ UNCHANGED <<layers, log, counts, flush, reset, call, bounds>>

\* prefix_scan_resolve: the active memtable first,
CursorGet(s) ==
  /\ scan[s].at = "get"
  /\ IF active[scan[s].cand] # 0 THEN Deliver(s, active[scan[s].cand])
     ELSE scan' = [scan EXCEPT ![s].at = "getImm"]
  /\ UNCHANGED <<layers, log, counts, flush, reset, call, bounds>>

\* then the immutable ones, then the heads that stand on the key: the
\* newest of level 0 before level 1.
HeadsGet(heads, k) ==
  LET on(n) == SelectSeq(heads, LAMBDA h : h.level = n /\ KeyAt(h) = k)
      tables(n) == [i \in DOMAIN on(n) |-> on(n)[i].data]
  IN  Over(NewestHit(tables(0), k), FirstHit(tables(1), k))
CursorGetImm(s) ==
  /\ scan[s].at = "getImm"
  /\ Deliver(s, Over(FirstHit(imm, scan[s].cand),
                     HeadsGet(scan[s].heads, scan[s].cand)))
  /\ UNCHANGED <<layers, log, counts, flush, reset, call, bounds>>

\* A scan begins.
BeginScan(s, kind) ==
  /\ scan[s].at = "idle"
  /\ scan' = [scan EXCEPT ![s] = [NoScan EXCEPT !.kind = kind,
       !.at = IF kind \in Cursors THEN "seek"
              ELSE IF kind = "merge" THEN "sst" ELSE "active"]]
  /\ UNCHANGED <<layers, log, counts, flush, reset, call, bounds>>

\* A scan returns.  Nothing can change its result any more, so that no other
\* step needs to come first.
Returning == \E s \in Scanners : scan[s].at = "done"
EndScan(s) ==
  /\ scan[s].at = "done"
  /\ scan' = [scan EXCEPT ![s] = [NoScan EXCEPT !.at = "ended"]]
  /\ UNCHANGED <<layers, log, counts, flush, reset, call, bounds>>

-----------------------------------------------------------------------------
WriterStep(w) ==
  \/ \E items \in work.puts \cup {call[w].todo} : PutItem(w, items)
  \/ \E items \in work.deletes \cup {call[w].todo} : DeleteLook(w, items)
  \/ CountItem(w) \/ CountBatch(w) \/ DeleteItem(w) \/ DeleteCount(w)

FlushStep == Swap \/ Publish \/ RemoveImm

ResetStep ==
  \/ ClearActive \/ ClearImm \/ ClearSst \/ ClearWal \/ ClearCount
  \/ RecoverWal \/ RecoverImm

ScanStep(s) ==
  \/ \E kind \in work.kinds : BeginScan(s, kind)
  \/ ScanActive(s) \/ ScanImm(s) \/ ScanSst(s)
  \/ MergeSst(s) \/ MergeImm(s) \/ MergeActive(s)
  \/ CursorSeek(s) \/ CursorMin(s) \/ CursorMinImm(s)
  \/ CursorGet(s) \/ CursorGetImm(s) \/ TryFails(s)

\* History: what gets returned while a scan was under way.
Observe ==
  seen' = [s \in Scanners |->
             IF scan'[s].at \in {"idle", "ended"} THEN [k \in Keys |-> {}]
             ELSE [k \in Keys |-> seen[s][k] \cup {Get(k)'}]]

\* History in calm: whether a write call was by itself from end to end.
Next ==
  /\ \/ /\ ~Returning
        /\ \/ \E w \in Writers : WriterStep(w) /\ calm' = (calm /\ Alone(w))
           \/ FlushStep /\ calm' = (calm /\ Quiet /\ reset = "idle")
           \/ ResetStep /\ calm' = (calm /\ Quiet /\ flush.at = "idle")
           \/ (Compact \/ SetBulkImport) /\ UNCHANGED calm
     \/ (\E s \in Scanners : ScanStep(s)) /\ UNCHANGED calm
     \/ (\E s \in Scanners : EndScan(s)) /\ UNCHANGED calm
  /\ Observe
  /\ UNCHANGED work

Spec == Init /\ [][Next]_vars

-----------------------------------------------------------------------------
(* Properties.                                                             *)

\* count(): as long as write calls never overlapped each other, a flush or a
\* clear, live_key_count is never below the number of keys that gets find,
\* and equals it unless bulk import or the estimate made at open put it off.
CountCoversLiveKeys ==
  calm /\ Quiet /\ reset = "idle" =>
    /\ count >= Cardinality(LiveKeys)
    /\ exact => count = Cardinality(LiveKeys)

Done(s, kinds) == scan[s].at = "done" /\ scan[s].kind \in kinds
LiveThroughout(s) == {k \in Keys : 0 \notin seen[s][k]}
OutKeys(s) == {scan[s].out[i][1] : i \in DOMAIN scan[s].out}

\* keys, scan_prefix, scan_range, scan_range_limit, scan_all: a key that gets
\* found at every moment of the scan is in the result, whatever a flush, a
\* compaction or a write did meanwhile, unless the limit cut it off; and
\* scan_all has the value of a key that did not change.
KeyScansMissNothing ==
  \A s \in Scanners : Done(s, DownScans) /\ ~scan[s].moved =>
    \/ Full(scan[s].kind, scan[s].out)
    \/ /\ LiveThroughout(s) \subseteq OutKeys(s)
       /\ scan[s].kind = "all" =>
            \A k \in LiveThroughout(s) : \A v \in seen[s][k] :
              seen[s][k] = {v} => <<k, v>> \in ToSet(scan[s].out)

\* scan_prefix_with_values and its kin: each key has a value, or the absence,
\* that a get could have returned during the scan, beside concurrent puts,
\* deletes and compactions.  Not covered: a flush that moves a memtable
\* during the scan, a key in level 0 as well as in level 1, and level 0 files
\* that a restart lists in another order than the one they were written in.
MergeScanIsFresh ==
  \A s \in Scanners :
    Done(s, {"merge"}) /\ ~scan[s].moved /\ ~scan[s].shadow /\ ~scan[s].jumbled =>
      \A k \in Keys : scan[s].map[k] \in seen[s][k]

\* prefix_scan_next, scan_next and try_prefix_scan_next_n_sync: keys come in
\* strictly increasing order, with a value a get could have returned since the
\* scan began, and at the end no key is missing that gets found throughout.
\* Compactions replace the level map at any time.  Not covered: a flush that
\* ends under way, a scan_next whose `after` lies outside the prefix, and for
\* missing keys a non-blocking call that gave up with entries in hand.
CursorIsFaithful ==
  \A s \in Scanners : scan[s].kind \in Cursors =>
    LET out == scan[s].out
    IN  /\ \A i, j \in DOMAIN out : i < j => out[i][1] < out[j][1]
        /\ ~scan[s].moved =>
             /\ \A i \in DOMAIN out : out[i][2] \in seen[s][out[i][1]]
             /\ scan[s].at = "done" /\ ~scan[s].dropped =>
                  LiveThroughout(s) \subseteq OutKeys(s)

-----------------------------------------------------------------------------
(* What the code does not provide: the README has the scenario in which    *)
(* each of them fails.                                                     *)

\* count() is the number of live keys whenever no write is under way, also
\* after racing calls (traits.rs:258).
CountNeverDrifts == Quiet /\ reset = "idle" /\ exact =>
                      count = Cardinality(LiveKeys)

\* keys(), scan_prefix and scan_range list no key that was deleted before
\* the scan began and stayed so (traits.rs:252).
ScansListNoDeletedKey ==
  \A s \in Scanners : Done(s, {"keys", "range"}) =>
    \A k \in OutKeys(s) : seen[s][k] # {0}

\* scan_range_limit returns no key twice (traits.rs:182).
LimitedScanHasNoDuplicates ==
  \A s \in Scanners : Done(s, {"limit"}) =>
    Cardinality(OutKeys(s)) = Len(scan[s].out)

\* A merging scan is fresh although level 1 holds an older version of a key
\* of level 0 (engine.rs:2075, "newer layers call this later").
MergeScanIsFreshAcrossLevels ==
  \A s \in Scanners : Done(s, {"merge"}) /\ ~scan[s].moved /\ ~scan[s].jumbled =>
    \A k \in Keys : scan[s].map[k] \in seen[s][k]

\* A merging scan is fresh in whatever order a restart listed level 0
\* (engine.rs:2228, "merged by entry timestamp (not by vector / read_dir
\* order)", is said of gets; engine.rs:2075, "newer layers call this later").
MergeScanIsFreshInAnyOrder ==
  \A s \in Scanners : Done(s, {"merge"}) /\ ~scan[s].moved /\ ~scan[s].shadow =>
    \A k \in Keys : scan[s].map[k] \in seen[s][k]

\* A merging scan is fresh although a flush moves a memtable meanwhile
\* (engine.rs:1809, reads find the data of a memtable during its flush).
MergeScanIsFreshBesideFlush ==
  \A s \in Scanners : Done(s, {"merge"}) /\ ~scan[s].shadow /\ ~scan[s].jumbled =>
    \A k \in Keys : scan[s].map[k] \in seen[s][k]

\* A cursor does not skip a key because its memtable was flushed after the
\* cursor took its heads (engine.rs:165, "cannot silently skip keys").
CursorSkipsNothing ==
  \A s \in Scanners : Done(s, Cursors) /\ ~scan[s].dropped =>
    LiveThroughout(s) \subseteq OutKeys(s)

\* A caller that falls back to prefix_scan_next, as the doc of
\* try_prefix_scan_next_n_sync tells it to (engine.rs:651), misses no key.
FallbackSkipsNothing ==
  \A s \in Scanners : Done(s, Cursors) /\ ~scan[s].moved =>
    LiveThroughout(s) \subseteq OutKeys(s)

\* What clear removed stays removed, and what was written after it stays,
\* when the engine is opened again (engine.rs:3014, "this is irreversible").
RestartAgreesWithReads ==
  Quiet /\ reset = "idle" /\ flush.at = "idle" =>
    \A k \in Keys : AfterRestart(k) = Get(k)

=============================================================================
