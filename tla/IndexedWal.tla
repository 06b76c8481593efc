------------------------------ MODULE IndexedWal -----------------------------
(***************************************************************************)
(* The indexed write-ahead log (storage/wal_indexed.rs, wal_index.rs):     *)
(* entries are staged, a full or a synced staging buffer becomes a frame   *)
(* file of the current segment, and wal.idx, which has two slots written   *)
(* in turn, records the last frame.  A restart reads every frame file of   *)
(* every segment and resumes behind the frame that wal.idx names.          *)
(*                                                                         *)
(* Calls are serialised by wal_manager, so the interleavings are those of  *)
(* one call with a crash or a failure at each of its I/O steps.  A write   *)
(* is its version; an entry has size 1, or is larger than a frame.  All    *)
(* writes fall in one second, so the stable sort by timestamp leaves the   *)
(* order of the files (the clock is in WalSegments).  Segment ids are one  *)
(* above the code's, and 0 is no segment.                                  *)
(***************************************************************************)
EXTENDS Naturals, Sequences, FiniteSetsExt

CONSTANTS
  Keys,         \* the keys
  PerEntry,     \* sync_mode Fsync: every put is flushed to a frame
  FrameCap,     \* frame_size, in entries
  FrameCount,   \* indexed_frame_count
  BigKeys,      \* the keys whose entries are larger than a frame
  PowerLoss,    \* whether a crash loses what was not synced
  CrashIn,      \* where a crash may happen
  MaxIds,       \* bound on segment ids
  MaxWrites,    \* bound on writes
  MaxCrashes,   \* bound on crashes
  MaxErrors     \* bound on I/O errors

Pcs == {"idle", "append", "frame", "index", "rotate", "header", "wipe",
        "wipeAll", "down"}

ASSUME IndexedAssumption ==
  /\ FrameCap \in Nat \ {0} /\ FrameCount \in Nat \ {0}
  /\ PerEntry \in BOOLEAN /\ BigKeys \subseteq Keys
  /\ PowerLoss \in BOOLEAN /\ (PowerLoss => PerEntry)
  /\ CrashIn \subseteq Pcs \ {"down"} /\ MaxIds \in Nat \ {0}
  /\ MaxWrites \in Nat /\ MaxCrashes \in Nat /\ MaxErrors \in Nat

Ids == 1..MaxIds
FrameIds == 1..FrameCount

VARIABLES
  frame,    \* segment, frame id -> the frame file
  dirs,     \* segments that have a directory
  slots,    \* wal.idx: the header in each slot
  maybe,    \* wal.idx: the headers a power loss may leave in each slot
  seg,      \* current_segment, 0 when there is none
  next,     \* staging_frame: the id of the next frame
  staging,  \* entries staged for it
  tracked,  \* `segments`: those sealed in this session
  counter,  \* segment_counter
  op,       \* the call that runs
  queue,    \* its entries that are not staged yet
  written,  \* its keys
  mem, sst, truth, ver,  \* as in WalSegments
  pc, crashes, errors

fileVars == <<frame, dirs, slots, maybe>>
segVars == <<seg, next, staging, tracked, counter>>
callVars == <<op, queue, written, pc>>
dataVars == <<mem, sst, truth, ver>>
bounds == <<crashes, errors>>
vars == <<fileVars, segVars, callVars, dataVars, bounds>>

Entry == [key : Keys, ver : 1..MaxWrites, big : BOOLEAN]
NoVersion == [k \in Keys |-> 0]

\* A frame file: absent, of length zero, or of frame_size or the size of the
\* one entry that is larger, padded with zeros.
FrameFile == [st : {"absent", "zero", "file"}, big : BOOLEAN, recs : Seq(Entry)]
Absent == [st |-> "absent", big |-> FALSE, recs |-> <<>>]
Zero == [Absent EXCEPT !.st = "zero"]
HasBig(s) == \E i \in DOMAIN s : s[i].big
FileOf(s) == [st |-> "file", big |-> HasBig(s), recs |-> s]
Blank(s) == [FileOf(s) EXCEPT !.recs = <<>>]

\* Bytes used by staged entries, and the length of a frame file.
Used(s) == IF HasBig(s) THEN FrameCap + 1 ELSE Len(s)
Length(f) == IF f.big THEN FrameCap + 1 ELSE FrameCap

-----------------------------------------------------------------------------
(* wal.idx                                                                 *)

Header == [gen : Nat, seg : Ids, frame : 0..FrameCount, off : 0..(FrameCap + 1),
           some : BOOLEAN]
NoHeader == [gen |-> 0, seg |-> 0, frame |-> 0, off |-> 0, some |-> FALSE]

\* read_latest: of the valid slots the one with the higher generation.
Latest == IF slots[0].gen > slots[1].gen THEN slots[0] ELSE slots[1]

\* write_slot writes over the slot of the older generation; commit syncs the
\* file, commit_volatile does not, and a power loss may then leave the old
\* header, the new one, or neither.
WriteSlot(h, durable) ==
  LET g == Latest.gen + 1
  IN  /\ slots' = [slots EXCEPT ![g % 2] = [h EXCEPT !.gen = g]]
      /\ maybe' = IF durable THEN [s \in {0, 1} |-> {slots'[s]}]
                  ELSE [maybe EXCEPT ![g % 2] = @ \cup {slots'[g % 2], NoHeader}]

-----------------------------------------------------------------------------
(* Recovery: read_entries_from_disk, read_committed_entries                *)

Present(i) == {f \in FrameIds : frame[i][f].st # "absent"}
LastFrame(i) ==
  Max({0} \cup Present(i) \cup (IF Latest.seg = i THEN {Latest.frame} ELSE {}))

\* The bytes of a frame that are decoded: all, except that the last frame of
\* the active segment is cut where wal.idx says.
Limit(i, f) ==
  IF /\ Latest.seg = i /\ Latest.frame = LastFrame(i) /\ f = LastFrame(i)
     /\ Latest.off > 0
  THEN Latest.off ELSE Length(frame[i][f])
Decoded(i, f) ==
  {n \in DOMAIN frame[i][f].recs : Used(SubSeq(frame[i][f].recs, 1, n)) <= Limit(i, f)}

\* A file of length zero cannot be read, and an offset behind the end of the
\* frame panics: the engine refuses to start.
Refused ==
  \E i \in dirs : \E f \in Present(i) :
    frame[i][f].st = "zero" \/ Limit(i, f) > Length(frame[i][f])

\* The entry for k that is applied last: segment id, frame id and place in
\* the frame decide.
Places(k) ==
  {p \in dirs \X FrameIds \X (1..(FrameCap + 1)) :
     p[3] \in Decoded(p[1], p[2]) /\ frame[p[1]][p[2]].recs[p[3]].key = k}
Before(p, q) ==
  \/ p[1] < q[1]
  \/ p[1] = q[1] /\ (p[2] < q[2] \/ (p[2] = q[2] /\ p[3] <= q[3]))
Replayed(k) ==
  IF Places(k) = {} THEN 0
  ELSE LET p == CHOOSE q \in Places(k) : \A r \in Places(k) : Before(r, q)
       IN  frame[p[1]][p[2]].recs[p[3]].ver
Recovered(k) == IF Replayed(k) # 0 THEN Replayed(k) ELSE sst[k]

-----------------------------------------------------------------------------
\* What initialize leaves in an empty directory.
Init ==
  /\ frame = [i \in Ids |-> [f \in FrameIds |-> Absent]]
  /\ dirs = {1}
  /\ slots = [s \in {0, 1} |-> IF s = 0 THEN NoHeader
                               ELSE [NoHeader EXCEPT !.gen = 1, !.seg = 1]]
  /\ maybe = [s \in {0, 1} |-> {slots[s]}]
  /\ seg = 1 /\ next = 1 /\ staging = <<>> /\ tracked = {} /\ counter = 2
  /\ op = "none" /\ queue = <<>> /\ written = {} /\ pc = "idle"
  /\ mem = NoVersion /\ sst = NoVersion /\ truth = NoVersion /\ ver = 0
  /\ crashes = 0 /\ errors = 0

\* The call returns.
Done == op' = "none" /\ queue' = <<>> /\ written' = {} /\ pc' = "idle"

-----------------------------------------------------------------------------
(* write_operation, write_delete, batch_write_operations                   *)

Batches == {s \in UNION {[1..n -> Keys] : n \in 1..Cardinality(Keys)} :
              \A i, j \in DOMAIN s : s[i] = s[j] => i = j}

\* The entries of a put or a batch.  With no current segment the call fails.
Call(s) ==
  /\ pc = "idle" /\ seg # 0 /\ ver < MaxWrites
  /\ ver' = ver + 1 /\ written' = {s[i] : i \in DOMAIN s}
  /\ queue' = [i \in DOMAIN s |-> [key |-> s[i], ver |-> ver + 1,
                                 big |-> s[i] \in BigKeys]]
  /\ op' = IF Len(s) = 1 THEN "put" ELSE "batch"
  /\ pc' = "append"
  /\ UNCHANGED <<fileVars, segVars, mem, sst, truth, bounds>>

\* Mutant of HasCapacity: one frame too many.
HasCapacityOffByOne == next <= FrameCount + 1
HasCapacity == next <= FrameCount

\* The next entry does not fit behind what is staged.
NeedsFlush ==
  staging # <<>> /\ (Head(queue).big \/ Len(staging) >= FrameCap)
FlushFirst ==
  /\ pc = "append" /\ queue # <<>> /\ NeedsFlush
  /\ pc' = "frame"
  /\ UNCHANGED <<fileVars, segVars, op, queue, written, dataVars, bounds>>

\* A new frame is needed and the segment has none left.
Full ==
  /\ pc = "append" /\ queue # <<>> /\ staging = <<>> /\ ~HasCapacity
  /\ pc' = "rotate"
  /\ UNCHANGED <<fileVars, segVars, op, queue, written, dataVars, bounds>>

\* Stage the entry; it goes to a frame at once when it fills one, when each
\* put is synced, and at the end of a batch.
Stage ==
  /\ pc = "append" /\ queue # <<>> /\ ~NeedsFlush
  /\ staging # <<>> \/ HasCapacity
  /\ staging' = Append(staging, Head(queue))
  /\ queue' = Tail(queue)
  /\ pc' = IF \/ Head(queue).big
              \/ op = "put" /\ (PerEntry \/ (staging = <<>> /\ FrameCap = 1))
              \/ op = "batch" /\ Tail(queue) = <<>>
           THEN "frame" ELSE "append"
  /\ UNCHANGED <<fileVars, seg, next, tracked, counter, op, written, dataVars,
                 bounds>>

\* flush_staging and commit_frame: write and sync the frame file ...
WriteFrame ==
  /\ pc = "frame" /\ HasCapacity
  /\ frame' = [frame EXCEPT ![seg][next] = FileOf(staging)]
  /\ pc' = "index"
  /\ UNCHANGED <<dirs, slots, maybe, segVars, op, queue, written, dataVars, bounds>>

\* ... and then the index, without a sync.
CommitIndex ==
  /\ pc = "index"
  /\ WriteSlot([Latest EXCEPT !.frame = next, !.off = Used(staging),
                              !.some = TRUE], FALSE)
  /\ staging' = <<>> /\ next' = next + 1
  /\ pc' = "append"
  /\ UNCHANGED <<frame, dirs, seg, tracked, counter, op, queue, written, dataVars, bounds>>

\* The call has staged or written all: the memtable takes the write and the
\* caller is told so.
Acknowledge ==
  LET Over(m) == [k \in Keys |-> IF k \in written THEN ver ELSE m[k]]
  IN  /\ pc = "append" /\ queue = <<>> /\ op \in {"put", "batch"}
      /\ mem' = Over(mem) /\ truth' = Over(truth)
      /\ Done
      /\ UNCHANGED <<fileVars, segVars, sst, ver, bounds>>

-----------------------------------------------------------------------------
(* I/O errors.  The caller gets the error; staged entries stay staged, and *)
(* the next flush writes them, except for one that is larger than a frame. *)

\* set_len: an entry that is larger than a frame does not survive the cut.
Resized(f) ==
  [st |-> "file", big |-> HasBig(staging),
   recs |-> IF f.big /\ ~HasBig(staging) THEN <<>> ELSE f.recs]

\* What a write of the staged entries that does not complete leaves of the
\* frame file: the old file or an empty one, the file with its new length, or
\* the whole frame; a power loss may also leave a frame that decodes to nothing.
Partial ==
  LET old == frame[seg][next]
  IN  {old, Resized(old), FileOf(staging)}
        \cup (IF old.st = "absent" THEN {Zero} ELSE {})
        \cup (IF PowerLoss THEN {Blank(staging)} ELSE {})

KeepStaging == staging' = IF HasBig(staging) THEN <<>> ELSE staging

FrameFails ==
  /\ pc = "frame" /\ errors < MaxErrors
  /\ errors' = errors + 1
  /\ \E f \in Partial : frame' = [frame EXCEPT ![seg][next] = f]
  /\ KeepStaging /\ Done
  /\ UNCHANGED <<dirs, slots, maybe, seg, next, tracked, counter, dataVars,
                 crashes>>

IndexFails ==
  /\ pc = "index" /\ errors < MaxErrors
  /\ errors' = errors + 1
  /\ KeepStaging /\ Done
  /\ UNCHANGED <<fileVars, seg, next, tracked, counter, dataVars, crashes>>

-----------------------------------------------------------------------------
(* rotate_segment: seal the current segment, create the next directory ... *)

Sealed == tracked \cup ({seg} \ {0})
RotateDir ==
  /\ pc = "rotate" /\ counter <= MaxIds
  /\ tracked' = Sealed
  /\ seg' = counter /\ dirs' = dirs \cup {counter} /\ counter' = counter + 1
  /\ next' = 1 /\ staging' = <<>>
  /\ pc' = "header"
  /\ UNCHANGED <<frame, slots, maybe, op, queue, written, dataVars, bounds>>

\* ... and name it in wal.idx, whose other fields are left as they are.
RotateHeader ==
  /\ pc = "header"
  /\ WriteSlot([Latest EXCEPT !.seg = seg], TRUE)
  /\ IF op \in {"put", "batch"} THEN pc' = "append" /\ UNCHANGED <<op, queue, written>>
     ELSE Done
  /\ UNCHANGED <<frame, dirs, segVars, dataVars, bounds>>

\* The directory or wal.idx cannot be written, or wal.idx not synced: there is
\* no current segment.
RotateFails ==
  /\ pc \in {"rotate", "header"} /\ errors < MaxErrors
  /\ errors' = errors + 1
  /\ \/ UNCHANGED <<slots, maybe>>
     \/ pc = "header" /\ WriteSlot([Latest EXCEPT !.seg = seg], FALSE)
  /\ tracked' = IF pc = "rotate" THEN Sealed ELSE tracked
  /\ counter' = IF pc = "rotate" THEN counter + 1 ELSE counter
  /\ seg' = 0 /\ next' = 1 /\ staging' = <<>>
  /\ Done
  /\ UNCHANGED <<frame, dirs, dataVars, crashes>>

-----------------------------------------------------------------------------
(* flush() and the flush of a full memtable.                               *)

MoveToSst ==
  /\ sst' = [k \in Keys |-> IF mem[k] # 0 THEN mem[k] ELSE sst[k]]
  /\ mem' = NoVersion

FlushMemtable ==
  /\ pc = "idle" /\ mem # NoVersion
  /\ MoveToSst
  /\ UNCHANGED <<fileVars, segVars, callVars, truth, ver, bounds>>

\* flush() flushes the staged entries first ...
Flush ==
  /\ pc = "idle"
  /\ op' = "flush"
  /\ pc' = IF staging = <<>> THEN "append" ELSE "frame"
  /\ UNCHANGED <<fileVars, segVars, queue, written, dataVars, bounds>>

\* ... then the memtable, and truncates the log.
FlushData ==
  /\ pc = "append" /\ op = "flush"
  /\ MoveToSst
  /\ pc' = "wipe"
  /\ UNCHANGED <<fileVars, segVars, op, queue, written, truth, ver, bounds>>

\* Mutant of RemoveDir: the segment stays in `segments`.
RemoveDirOnly(i) ==
  /\ dirs' = dirs \ {i}
  /\ frame' = [frame EXCEPT ![i] = [f \in FrameIds |-> Absent]]
  /\ UNCHANGED tracked
RemoveDir(i) ==
  /\ dirs' = dirs \ {i}
  /\ frame' = [frame EXCEPT ![i] = [f \in FrameIds |-> Absent]]
  /\ tracked' = tracked \ {i}

\* truncate_after_flush: the current directory goes first, then those sealed
\* in this session, then the others, then wal.idx.
WipeCurrent ==
  /\ pc = "wipe"
  /\ IF seg = 0 THEN UNCHANGED <<dirs, frame, tracked>> ELSE RemoveDir(seg)
  /\ seg' = 0 /\ next' = 1 /\ staging' = <<>>
  /\ pc' = "wipeAll"
  /\ UNCHANGED <<slots, maybe, counter, op, queue, written, dataVars, bounds>>

WipeDir(i) ==
  /\ pc = "wipeAll" /\ i \in dirs
  /\ i \in tracked \/ tracked = {}
  /\ RemoveDir(i)
  /\ UNCHANGED <<slots, maybe, seg, next, staging, counter, callVars, dataVars,
                 bounds>>

WipeIndex ==
  /\ pc = "wipeAll" /\ dirs = {}
  /\ slots' = [s \in {0, 1} |-> NoHeader]
  /\ maybe' = [s \in {0, 1} |-> {NoHeader}]
  /\ pc' = "rotate"
  /\ UNCHANGED <<frame, dirs, segVars, op, queue, written, dataVars, bounds>>

-----------------------------------------------------------------------------
(* Crash and restart                                                       *)

Crash ==
  /\ pc \in CrashIn /\ crashes < MaxCrashes
  /\ crashes' = crashes + 1
  /\ IF pc = "frame"
     THEN \E f \in Partial : frame' = [frame EXCEPT ![seg][next] = f]
     ELSE UNCHANGED frame
  /\ IF PowerLoss
     THEN \E a \in maybe[0], b \in maybe[1] :
            slots' = [s \in {0, 1} |-> IF s = 0 THEN a ELSE b]
     ELSE UNCHANGED slots
  /\ maybe' = [s \in {0, 1} |-> {slots'[s]}]
  /\ seg' = 0 /\ next' = 1 /\ staging' = <<>> /\ tracked' = {}
  /\ op' = "none" /\ queue' = <<>> /\ written' = {} /\ pc' = "down"
  /\ mem' = NoVersion
  /\ UNCHANGED <<dirs, counter, sst, truth, ver, errors>>

\* scan_existing_segments: past the highest directory.
ScanNext == Max({1} \cup dirs) + 1

\* initialize: resume in the segment that wal.idx names, behind the frame it
\* names, if that segment may hold entries.
\* Mutant of Resume: the frame that wal.idx names is written again.
ResumeAtCommitted == Max({1, Latest.frame})
Resume == Latest.frame + 1
Resumable ==
  Latest.seg \in dirs /\ (Latest.some \/ Present(Latest.seg) # {})

Restart ==
  /\ pc = "down" /\ ~Refused
  /\ mem' = [k \in Keys |-> Replayed(k)]
  /\ counter' = ScanNext
  /\ IF Resumable
     THEN seg' = Latest.seg /\ next' = Resume /\ pc' = "idle"
     ELSE pc' = "rotate" /\ UNCHANGED <<seg, next>>
  /\ UNCHANGED <<fileVars, staging, tracked, op, queue, written, sst, truth, ver,
                 bounds>>

Next ==
  \/ \E s \in Batches : Call(s)
  \/ FlushFirst \/ Full \/ Stage \/ WriteFrame \/ CommitIndex \/ Acknowledge
  \/ FrameFails \/ IndexFails
  \/ RotateDir \/ RotateHeader \/ RotateFails
  \/ FlushMemtable \/ Flush \/ FlushData \/ WipeCurrent \/ WipeIndex
  \/ \E i \in Ids : WipeDir(i)
  \/ Crash \/ Restart

Spec == Init /\ [][Next]_vars

-----------------------------------------------------------------------------
(* Properties                                                              *)

\* Type correctness of IndexedWalManager; the segments it knows of have
\* directories, and frames are in directories.
TypeOK ==
  /\ frame \in [Ids -> [FrameIds -> FrameFile]]
  /\ dirs \subseteq Ids /\ tracked \subseteq dirs
  /\ \A i \in Ids \ dirs : Present(i) = {}
  /\ slots \in [{0, 1} -> Header \cup {NoHeader}]
  /\ \A s \in {0, 1} : maybe[s] \subseteq Header \cup {NoHeader}
  /\ seg \in dirs \cup {0} /\ seg \notin tracked
  /\ next \in 1..(FrameCount + 1) /\ staging \in Seq(Entry)
  /\ counter \in 1..(MaxIds + 1 + MaxErrors)
  /\ op \in {"none", "put", "batch", "flush"} /\ queue \in Seq(Entry)
  /\ written \subseteq Keys /\ ver \in 0..MaxWrites /\ pc \in Pcs
  /\ \A m \in {mem, sst, truth} : m \in [Keys -> 0..MaxWrites]
  /\ crashes \in 0..MaxCrashes /\ errors \in 0..MaxErrors

\* Staged entries always have a frame to go to, so flush and rotation never
\* fail with "segment full with unflushed staging", also after a resume and
\* after failed writes.
StagingHasRoom == staging # <<>> => next \in FrameIds

\* A restart that starts gives back every acknowledged write or a newer one,
\* although it resumes from an index that a crash may have left behind the
\* frames or, after a rotation, with the frame number of another segment.
AckedWritesRecovered ==
  pc = "down" /\ ~Refused => \A k \in Keys : Recovered(k) >= truth[k]

\* An acknowledged entry that is in no SSTable is never overwritten: no frame
\* is written again and no segment removed while it holds such an entry.
OnlyCopyIsKept ==
  [][\A i \in dirs : \A f \in Present(i) : \A n \in DOMAIN frame[i][f].recs :
       LET e == frame[i][f].recs[n]
       IN  e.ver = truth[e.key] /\ sst[e.key] < e.ver
           => \E m \in DOMAIN frame'[i][f].recs : frame'[i][f].recs[m] = e]_vars

\* What a crash leaves can be read.
RecoveryReads == pc = "down" => ~Refused
=============================================================================
