----------------------------- MODULE WalSegments -----------------------------
(***************************************************************************)
(* The segmented write-ahead log (storage/wal.rs, WALManager) and its      *)
(* recovery (recover_from_wal in core/engine.rs): writes append to the     *)
(* current segment and rotate when it is full; flush() and shutdown()      *)
(* empty the memtable and then remove the segment files one by one; a      *)
(* background task removes segments by age and by number; a restart reads  *)
(* the files that are left, in id order, and replays them by timestamp.    *)
(*                                                                         *)
(* A write is its version; a batch gives all its keys one version.  The    *)
(* memtables are one map and so are the SSTables: WritePath shows how data *)
(* moves between them.  The size of a segment is counted in records.       *)
(***************************************************************************)
EXTENDS Naturals, Sequences, FiniteSetsExt

CONSTANTS
  Keys,         \* the keys
  None,         \* no key
  SegCap,       \* segment_size
  Retention,    \* the shorter of retention_period and retention_after_flush
  MaxSegments,  \* max_segments
  CrashIn,      \* where a crash may happen
  Cleaner,      \* whether the cleanup task runs
  Oversize,     \* whether values larger than a segment are written
  MaxIds,       \* bound on segment ids
  MaxWrites,    \* bound on writes
  MaxTime,      \* bound on the clock
  MaxCrashes,   \* bound on crashes
  MaxErrors     \* bound on I/O errors

Pcs == {"idle", "close", "remove", "clean", "cleanForce", "force", "down"}

ASSUME WalAssumption ==
  /\ SegCap \in Nat \ {0} /\ Retention \in Nat /\ MaxSegments \in Nat
  /\ MaxIds \in Nat \ {0} /\ MaxWrites \in Nat /\ MaxTime \in Nat \ {0}
  /\ MaxCrashes \in Nat /\ MaxErrors \in Nat
  /\ Cleaner \in BOOLEAN /\ Oversize \in BOOLEAN
  /\ CrashIn \subseteq Pcs \ {"down"} /\ None \notin Keys

Ids == 1..MaxIds

VARIABLES
  log,      \* id -> the records of the segment
  born,     \* id -> when the segment was created
  disk,     \* ids of the segment files in wal_dir
  current,  \* id of current_segment, 0 when there is none
  tracked,  \* ids in `segments`: those this session has completed
  counter,  \* segment_counter
  mem,      \* key -> version in the memtables, 0 if absent
  sst,      \* key -> version in the SSTables, 0 if absent
  truth,    \* key -> version of the last acknowledged write
  ver,      \* the last version handed out
  now,      \* the clock, in seconds
  pc,       \* what flush(), shutdown() or the cleanup task does
  pending,  \* segment files it has still to remove
  crashes, errors

segVars == <<log, born, disk, current, tracked, counter>>
dataVars == <<mem, sst, truth, ver>>
taskVars == <<pc, pending>>
bounds == <<crashes, errors>>
vars == <<segVars, dataVars, taskVars, now, bounds>>

Record(kind, k, v) == [kind |-> kind, key |-> k, ver |-> v, ts |-> now]
PutRec(k) == Record("put", k, ver + 1)
Checkpoint == Record("ckpt", None, 0)
Torn == Record("torn", None, 0)
NoVersion == [k \in Keys |-> 0]

-----------------------------------------------------------------------------
(* Recovery                                                                *)

\* read_entries: the records before the first that is torn or longer than a
\* segment.
Readable(i) ==
  {n \in DOMAIN log[i] : \A m \in 1..n : log[i][m].kind \in {"put", "ckpt"}}

\* read_entries_from_disk: the places of all records that can be read.
Places == UNION {{i} \X Readable(i) : i \in disk}
At(p) == log[p[1]][p[2]]

\* recover_from_wal: entries not after the last checkpoint are skipped ...
LastCheckpoint ==
  Max({0} \cup {At(p).ts : p \in {q \in Places : At(q).kind = "ckpt"}})
Replay(k) ==
  LET t == LastCheckpoint
  IN  {p \in Places : At(p).kind = "put" /\ At(p).key = k /\ At(p).ts > t}

\* ... and of the others the last one for a key wins.  They are sorted by
\* timestamp, and the sort is stable: among equals the segment id and then
\* the place in the file decide.
Latest(R) ==
  LET t == Max({At(p).ts : p \in R}) IN {p \in R : At(p).ts = t}
LastPlace(R) ==
  LET L == Latest(R)
      i == Max({p[1] : p \in L})
      n == Max({p[2] : p \in {q \in L : q[1] = i}})
  IN  <<i, n>>
\* Mutant of Replayed: the order of the segments is not restored.
ReplayedUnsorted(k) ==
  IF Replay(k) = {} THEN 0 ELSE At(CHOOSE p \in Latest(Replay(k)) : TRUE).ver
Replayed(k) == IF Replay(k) = {} THEN 0 ELSE At(LastPlace(Replay(k))).ver

\* What a get returns for k when the engine restarts now.
Recovered(k) == IF Replayed(k) # 0 THEN Replayed(k) ELSE sst[k]

-----------------------------------------------------------------------------
(* Segments                                                                *)

\* A segment takes n more records.  One that holds an oversize record is
\* longer than segment_size.
Fits(n) ==
  /\ Len(log[current]) + n <= SegCap
  /\ \A m \in DOMAIN log[current] : log[current][m].kind # "huge"

\* rotate_segment: complete the current segment and create the next file.
CompleteCurrent == IF current = 0 THEN tracked ELSE tracked \cup {current}
Rotate ==
  /\ counter <= MaxIds
  /\ tracked' = CompleteCurrent
  /\ current' = counter
  /\ disk' = disk \cup {counter}
  /\ born' = [born EXCEPT ![counter] = now]
  /\ counter' = counter + 1

Stay == UNCHANGED <<tracked, current, disk, born, counter>>

\* write_entry and batch_write_entries: append the records, which are together
\* of size n, to the current segment, or to a new one when they do not fit.
AppendRecords(recs, n) ==
  /\ IF Fits(n) THEN Stay ELSE Rotate
  /\ log' = [log EXCEPT ![current'] = @ \o recs]

Init ==
  /\ log = [i \in Ids |-> <<>>] /\ born = [i \in Ids |-> 1]
  /\ disk = {1} /\ current = 1 /\ tracked = {} /\ counter = 2
  /\ mem = NoVersion /\ sst = NoVersion /\ truth = NoVersion
  /\ ver = 0 /\ now = 1 /\ pc = "idle" /\ pending = {}
  /\ crashes = 0 /\ errors = 0

Tick ==
  /\ now < MaxTime /\ now' = now + 1
  /\ UNCHANGED <<segVars, dataVars, taskVars, bounds>>

-----------------------------------------------------------------------------
(* put, delete and batch_put: log the records, then update the memtable.   *)
(* With no current segment the write is refused.                           *)

\* The keys of a write: one for put and delete, several for batch_put.
Batches == {s \in UNION {[1..n -> Keys] : n \in 1..Cardinality(Keys)} :
              \A i, j \in DOMAIN s : s[i] = s[j] => i = j}

CanWrite == pc = "idle" /\ current # 0 /\ ver < MaxWrites

\* The memtable takes the write and the caller is told so.
Acknowledge(s) ==
  LET Over(f) == [k \in Keys |-> IF \E i \in DOMAIN s : s[i] = k
                                 THEN ver + 1 ELSE f[k]]
  IN  mem' = Over(mem) /\ truth' = Over(truth) /\ ver' = ver + 1

Write(s) ==
  /\ CanWrite
  /\ AppendRecords([i \in DOMAIN s |-> PutRec(s[i])], Len(s))
  /\ Acknowledge(s)
  /\ UNCHANGED <<sst, taskVars, now, bounds>>

\* The value at place h is larger than a segment.  write_entry finds no room,
\* rotates, finds no room again and reports success all the same; a batch
\* writes the record, and read_entries stops at it.
WriteHuge(s, h) ==
  /\ CanWrite /\ Oversize
  /\ AppendRecords(IF Len(s) = 1 THEN <<>>
                   ELSE [i \in DOMAIN s |->
                          IF i = h THEN Record("huge", s[i], ver + 1)
                          ELSE PutRec(s[i])], SegCap + 1)
  /\ Acknowledge(s)
  /\ UNCHANGED <<sst, taskVars, now, bounds>>

\* The write or the sync fails and the caller gets an error: n records of the
\* batch are in the file, and a part of the next one may be.
WriteFails(s, n, tail) ==
  /\ CanWrite /\ errors < MaxErrors
  /\ errors' = errors + 1
  /\ AppendRecords([i \in 1..n |-> PutRec(s[i])] \o tail, Len(s))
  /\ ver' = ver + 1
  /\ UNCHANGED <<mem, sst, truth, taskVars, now, crashes>>

\* The rotation of a write fails, closing the old segment or creating the
\* new one: there is no current segment any more.
RotateFails(s) ==
  /\ CanWrite /\ ~Fits(Len(s)) /\ errors < MaxErrors
  /\ errors' = errors + 1
  /\ current' = 0
  /\ tracked' \in {tracked, CompleteCurrent}
  /\ UNCHANGED <<log, born, disk, counter, dataVars, taskVars, now, crashes>>

-----------------------------------------------------------------------------
(* flush(), shutdown() and the flush of a full memtable.                   *)

\* flush_memtable_internal: the memtable becomes the newest SSTable.
MoveToSst ==
  /\ sst' = [k \in Keys |-> IF mem[k] # 0 THEN mem[k] ELSE sst[k]]
  /\ mem' = NoVersion

\* A full memtable, or compact(): the WAL is left alone.
FlushMemtable ==
  /\ pc = "idle" /\ mem # NoVersion
  /\ MoveToSst
  /\ UNCHANGED <<segVars, truth, ver, taskVars, now, bounds>>

\* flush(), under the exclusive operation_guard.
Flush ==
  /\ pc = "idle"
  /\ MoveToSst /\ pc' = "close"
  /\ UNCHANGED <<segVars, truth, ver, pending, now, bounds>>

\* shutdown(): mark_clean_shutdown logs a checkpoint first.  Writes that race
\* it are the subject of WritePath.
Shutdown ==
  /\ pc = "idle"
  /\ MoveToSst /\ pc' = "close"
  /\ IF current # 0 THEN AppendRecords(<<Checkpoint>>, 1)
     ELSE UNCHANGED segVars
  /\ UNCHANGED <<truth, ver, pending, now, bounds>>

\* truncate_after_flush: drop the handle and the list ...
\* Mutant: the list is kept.
CloseKeepsTracked ==
  /\ pc = "close"
  /\ current' = 0 /\ pending' = disk /\ pc' = "remove"
  /\ UNCHANGED <<log, born, disk, tracked, counter, dataVars, now, bounds>>
Close ==
  /\ pc = "close"
  /\ current' = 0 /\ tracked' = {} /\ pending' = disk /\ pc' = "remove"
  /\ UNCHANGED <<log, born, disk, counter, dataVars, now, bounds>>

\* ... remove the files, in the order read_dir gives them ...
Unlink(S) ==
  /\ disk' = disk \ S
  /\ log' = [i \in Ids |-> IF i \in S THEN <<>> ELSE log[i]]
RemoveFile(i) ==
  /\ pc \in {"remove", "clean", "cleanForce", "force"} /\ i \in pending
  /\ Unlink({i})
  /\ pending' = pending \ {i}
  /\ UNCHANGED <<born, current, tracked, counter, dataVars, pc, now, bounds>>

\* ... and create a new segment.
Renew ==
  /\ pc \in {"remove", "force"} /\ pending = {}
  /\ Rotate /\ pc' = "idle"
  /\ UNCHANGED <<log, dataVars, pending, now, bounds>>

\* A file cannot be removed, or the new segment not created: flush() returns
\* the error, and there is no current segment.
TruncateFails ==
  /\ pc \in {"remove", "force"} /\ errors < MaxErrors
  /\ pc = "force" => pending = {}
  /\ errors' = errors + 1
  /\ pc' = "idle" /\ pending' = {}
  /\ UNCHANGED <<segVars, dataVars, now, crashes>>

-----------------------------------------------------------------------------
(* The cleanup task, which holds wal_manager.write() throughout.           *)

\* cleanup_old_segments and cleanup_flushed_segments: the completed segments
\* that are old enough, whether or not their records are in an SSTable.
Expired == {i \in tracked : born[i] + Retention < now}
Clean ==
  /\ Cleaner /\ pc = "idle"
  /\ Expired # {} \/ Cardinality(disk) > MaxSegments
  /\ pending' = Expired /\ tracked' = tracked \ Expired
  /\ pc' = IF Cardinality(disk) > MaxSegments THEN "cleanForce" ELSE "clean"
  /\ UNCHANGED <<log, born, disk, current, counter, dataVars, now, bounds>>

\* A removal that fails is logged.
SkipFile(i) ==
  /\ pc \in {"clean", "cleanForce", "force"} /\ i \in pending
  /\ errors < MaxErrors
  /\ errors' = errors + 1
  /\ pending' = pending \ {i}
  /\ UNCHANGED <<segVars, dataVars, pc, now, crashes>>

CleanDone ==
  /\ pc = "clean" /\ pending = {}
  /\ pc' = "idle"
  /\ UNCHANGED <<segVars, dataVars, pending, now, bounds>>

\* force_cleanup: remove the current segment, then the completed ones.
ForceCleanup ==
  /\ pc = "cleanForce" /\ pending = {}
  /\ Unlink({current})
  /\ current' = 0 /\ pending' = tracked /\ tracked' = {} /\ pc' = "force"
  /\ UNCHANGED <<born, counter, dataVars, now, bounds>>

-----------------------------------------------------------------------------
\* A crash, which may leave the record of an unacknowledged write, or a part
\* of it, at the end of the current segment.
Crash(tail) ==
  /\ pc \in CrashIn /\ crashes < MaxCrashes
  /\ tail # <<>> => CanWrite /\ Fits(1)
  /\ crashes' = crashes + 1
  /\ IF tail = <<>> THEN UNCHANGED <<log, ver>>
     ELSE log' = [log EXCEPT ![current] = @ \o tail] /\ ver' = ver + 1
  /\ current' = 0 /\ tracked' = {} /\ pending' = {} /\ pc' = "down"
  /\ mem' = NoVersion
  /\ UNCHANGED <<born, disk, counter, sst, truth, now, errors>>

\* The restart: replay, then scan_existing_segments, then reuse of an empty
\* last segment or creation of a new one.
\* Mutant of ScanNext: the last id is handed out again.
ScanLast == Max({0} \cup disk)
ScanNext == Max({0} \cup disk) + 1
Reusable == ScanNext > 1 /\ log[ScanNext - 1] = <<>>
Restart ==
  /\ pc = "down"
  /\ mem' = [k \in Keys |-> Replayed(k)]
  /\ IF Reusable
     THEN /\ current' = ScanNext - 1 /\ counter' = ScanNext
          /\ UNCHANGED <<disk, born>>
     ELSE /\ ScanNext <= MaxIds
          /\ current' = ScanNext /\ counter' = ScanNext + 1
          /\ disk' = disk \cup {ScanNext}
          /\ born' = [born EXCEPT ![ScanNext] = now]
  /\ pc' = "idle" /\ tracked' = {} /\ pending' = {}
  /\ UNCHANGED <<log, sst, truth, ver, now, bounds>>

Tails == {<<>>, <<Torn>>} \cup {<<PutRec(k)>> : k \in Keys}

Next ==
  \/ Tick
  \/ \E s \in Batches :
       \/ Write(s) \/ RotateFails(s)
       \/ \E h \in DOMAIN s : WriteHuge(s, h)
       \/ \E n \in 0..Len(s) : WriteFails(s, n, <<>>)
       \/ \E n \in 0..(Len(s) - 1) : WriteFails(s, n, <<Torn>>)
  \/ FlushMemtable \/ Flush \/ Shutdown \/ Close \/ Renew \/ TruncateFails
  \/ Clean \/ CleanDone \/ ForceCleanup
  \/ \E i \in Ids : RemoveFile(i) \/ SkipFile(i)
  \/ (\E tail \in Tails : Crash(tail)) \/ Restart

Spec == Init /\ [][Next]_vars

-----------------------------------------------------------------------------
(* Properties                                                              *)

RecordType == [kind : {"put", "ckpt", "torn", "huge"}, key : Keys \cup {None},
               ver : 0..MaxWrites, ts : 1..MaxTime]

\* Type correctness of WALManager; the segments it knows of are on disk.
TypeOK ==
  /\ log \in [Ids -> Seq(RecordType)] /\ born \in [Ids -> 1..MaxTime]
  /\ disk \subseteq Ids /\ tracked \subseteq disk /\ pending \subseteq disk
  /\ current \in disk \cup {0} /\ current \notin tracked \cup pending
  /\ tracked \cap pending = {}
  /\ counter \in 1..(MaxIds + 1)
  /\ mem \in [Keys -> 0..MaxWrites] /\ sst \in [Keys -> 0..MaxWrites]
  /\ truth \in [Keys -> 0..MaxWrites] /\ ver \in 0..MaxWrites
  /\ now \in 1..MaxTime /\ pc \in Pcs
  /\ crashes \in 0..MaxCrashes /\ errors \in 0..MaxErrors

\* After a crash, replaying the segments that are on disk over the SSTables
\* gives back every acknowledged write or a newer one, whatever rotations,
\* truncations and restarts went before.
AckedWritesRecovered ==
  pc = "down" => \A k \in Keys : Recovered(k) >= truth[k]

\* A segment that becomes the current one is empty: rotation and restart
\* never write a header over a file that holds records.
CurrentStartsEmpty ==
  [][current' # current /\ current' # 0 => log[current'] = <<>>]_vars

\* The inductive invariant behind it: segment_counter is past every file, and
\* a file that is not there holds nothing.
SegmentsInv ==
  /\ \A i \in disk : i < counter
  /\ \A i \in Ids \ disk : log[i] = <<>>
=============================================================================
