------------------------------ MODULE FrameWal -------------------------------
(***************************************************************************)
(* The frame write-ahead log (storage/wal_frame.rs, FrameWalManager) as    *)
(* the engine uses it, with its group commit.                              *)
(*                                                                         *)
(* Two processes touch the log.  The caller is whoever holds the engine's  *)
(* wal_manager lock: put, delete and batch_put hold it for writing, so     *)
(* they run one after the other, a caller that waits for durability        *)
(* included; flush(), flush_wal(), shutdown() and the cleanup task run     *)
(* between them.  The committer is the background task of group commit,    *)
(* which takes no such lock.  current_segment and the queue have locks of  *)
(* their own: each step below is one critical section.                     *)
(*                                                                         *)
(* A write is its version; versions follow the order of the calls.  The    *)
(* size of a segment is counted in records, and every value fits one (the  *)
(* other case is in WalSegments).  Memtables and SSTables are a map each.  *)
(***************************************************************************)
EXTENDS GroupCommit, FiniteSetsExt, SequencesExt

CONSTANTS
  Keys,         \* the keys
  None,         \* no key
  GroupModes,   \* values of group_commit_enabled to look at
  WaitModes,    \* values of group_commit_wait_durable to look at
  SegCap,       \* segment_size
  Exempt,       \* circumstances in which writes are known to be lost
  MaxIds,       \* bound on segment ids
  MaxWrites,    \* bound on writes
  MaxTime,      \* bound on the clock, in modes that wait for durability
  MaxAdmin,     \* bound on flush, flush_wal, shutdown and cleanup calls
  MaxCrashes,   \* bound on crashes
  MaxErrors     \* bound on I/O errors

Circumstances == {"nowait", "torn", "cleanup", "wipe", "shutdown"}

ASSUME FrameAssumption ==
  /\ GroupModes \subseteq BOOLEAN /\ WaitModes \subseteq BOOLEAN
  /\ SegCap \in Nat \ {0} /\ MaxIds \in Nat \ {0} /\ MaxWrites \in Nat
  /\ MaxTime \in Nat \ {0} /\ MaxAdmin \in Nat /\ MaxCrashes \in Nat
  /\ MaxErrors \in Nat /\ Exempt \subseteq Circumstances /\ None \notin Keys

Ids == 1..MaxIds
Procs == {"caller", "committer"}

VARIABLES
  group, wait,  \* the configuration
  file,         \* id -> the records of the segment file
  disk,         \* ids of the frame files in wal_dir
  torn,         \* ids of files with a part of a record at the end
  current,      \* id of current_segment, 0 when there is none
  segments,     \* the HashMap `segments`: pairs of key and id
  counter,      \* segment_counter
  pc, ret,      \* process -> its step, and the step after a rotation
  ents,         \* process -> the records it is writing
  plan,         \* the steps the caller has still to do
  op,           \* the record of the caller's own write
  reply,        \* the caller's oneshot channel
  listed,       \* files that truncate_after_flush has still to remove
  mem, sst,     \* key -> version in the memtables, in the SSTables
  truth,        \* key -> version of the last acknowledged write
  ver, now,     \* the last version handed out; the clock, in seconds
  past,         \* the circumstances that have occurred
  admin, crashes, errors

config == <<group, wait>>
segVars == <<file, disk, torn, current, segments, counter>>
procVars == <<pc, ret, ents, plan, op, reply, listed>>
dataVars == <<mem, sst, truth, ver>>
bounds == <<admin, crashes, errors>>
vars == <<config, groupVars, segVars, procVars, dataVars, now, past, bounds>>

Record(kind, k, v) == [kind |-> kind, key |-> k, ver |-> v, ts |-> now]
Checkpoint == Record("ckpt", None, 0)
NoOp == [kind |-> "none", key |-> None, ver |-> 0, ts |-> 1]
NoVersion == [k \in Keys |-> 0]

-----------------------------------------------------------------------------
(* Recovery: read_entries_from_disk and recover_from_wal.                  *)

\* read_entries fails on a torn record, and the whole file is skipped.
Places == UNION {{i} \X DOMAIN file[i] : i \in disk \ torn}
At(p) == file[p[1]][p[2]]

\* Files in id order, a stable sort by timestamp, entries not after the last
\* checkpoint skipped: the last entry of a key wins.
LastCheckpoint ==
  Max({0} \cup {At(p).ts : p \in {q \in Places : At(q).kind = "ckpt"}})
Replay(k) ==
  {p \in Places : At(p).key = k /\ At(p).ts > LastCheckpoint}
\* Mutant: among entries of one second the first one wins.
ReplayedFirst(p, q) ==
  \/ At(p).ts < At(q).ts
  \/ At(p).ts = At(q).ts /\ (p[1] > q[1] \/ (p[1] = q[1] /\ p[2] > q[2]))
ReplayedBefore(p, q) ==
  \/ At(p).ts < At(q).ts
  \/ At(p).ts = At(q).ts /\ (p[1] < q[1] \/ (p[1] = q[1] /\ p[2] < q[2]))
Replayed(k) ==
  LET R == Replay(k)
  IN  IF R = {} THEN 0
      ELSE At(CHOOSE p \in R : \A q \in R : q = p \/ ReplayedBefore(q, p)).ver

\* What a get returns for k when the engine restarts now.
Recovered(k) == IF Replayed(k) # 0 THEN Replayed(k) ELSE sst[k]

-----------------------------------------------------------------------------
Init ==
  /\ group \in GroupModes /\ wait \in WaitModes /\ (group \/ wait)
  /\ GroupInit(group)
  /\ file = [i \in Ids |-> <<>>] /\ disk = {1} /\ torn = {}
  /\ current = 1 /\ segments = {} /\ counter = 2
  /\ pc = [p \in Procs |-> "rest"] /\ ret = [p \in Procs |-> "rest"]
  /\ ents = [p \in Procs |-> <<>>] /\ plan = <<>>
  /\ op = NoOp /\ reply = "none" /\ listed = {}
  /\ mem = NoVersion /\ sst = NoVersion /\ truth = NoVersion
  /\ ver = 0 /\ now = 1
  /\ past = IF group /\ ~wait THEN {"nowait"} ELSE {}
  /\ admin = 0 /\ crashes = 0 /\ errors = 0

\* The clock is read when a call begins and when it writes a checkpoint:
\* nobody sees it advance in between.  Without a wait for durability nothing
\* that is stated depends on it, and it stands still.
Tick ==
  /\ pc["caller"] \in {"rest", "ckpt"}
  /\ wait /\ now < MaxTime /\ now' = now + 1
  /\ UNCHANGED <<config, groupVars, segVars, procVars, dataVars, past, bounds>>

-----------------------------------------------------------------------------
(* How a process goes on.                                                  *)

Goto(p, step) == pc' = [pc EXCEPT ![p] = step] /\ UNCHANGED <<plan, task>>

\* The caller does the next step of its plan; the committer is back in its
\* loop.
Advance(p) ==
  IF p = "committer"
  THEN pc' = [pc EXCEPT ![p] = "rest"] /\ task' = "look" /\ UNCHANGED plan
  ELSE /\ pc' = [pc EXCEPT ![p] = IF plan = <<>> THEN "rest" ELSE Head(plan)]
       /\ plan' = IF plan = <<>> THEN plan ELSE Tail(plan)
       /\ UNCHANGED task

\* flush_pending sends the result of the batch to those who wait for it.
SendAcks(p, result) ==
  reply' = IF /\ wait /\ pc["caller"] \in {"notify", "await"}
              /\ op \in Range(ents[p])
           THEN result ELSE reply

\* What an error leaves behind that a replay may take for newer than it is.
Remnants ==
  (IF pc["caller"] \in {"remove", "renew"} THEN {"wipe"} ELSE {})
    \cup (IF \/ \E q \in Places : At(q).kind = "ckpt"
             \/ \E n \in DOMAIN ents["caller"] :
                  ents["caller"][n].kind = "ckpt"
          THEN {"shutdown"} ELSE {})

\* An error is returned to the caller; the committer logs it, and so does
\* shutdown_background_tasks, after which shutdown() goes on.
Fail(p) ==
  /\ IF p = "committer" THEN Advance(p)
     ELSE /\ IF "mark" \in Range(plan)
             THEN pc' = [pc EXCEPT ![p] = "publish"] /\ plan' = <<"mark">>
             ELSE pc' = [pc EXCEPT ![p] = "rest"] /\ plan' = <<>>
          /\ UNCHANGED task
  /\ SendAcks(p, "err")
  /\ ents' = [ents EXCEPT ![p] = <<>>]
  /\ IF p = "caller" THEN op' = NoOp /\ listed' = {}
     ELSE UNCHANGED <<op, listed>>
  /\ ret' = [ret EXCEPT ![p] = "rest"]
  /\ UNCHANGED <<config, pending, timed, permit, dataVars, now, admin,
                 crashes>>

-----------------------------------------------------------------------------
(* Segments                                                                *)

Fits(p) == Len(file[current]) + Len(ents[p]) <= SegCap

\* Steps of p that only move its program counter.
Move(p, step) ==
  /\ Goto(p, step)
  /\ UNCHANGED <<config, pending, timed, permit, segVars, ents, ret, op, reply,
                 listed, dataVars, now, past, bounds>>

\* With no current segment the write is refused.
Refused(p) ==
  /\ pc[p] \in {"write", "rewrite", "try", "retry"} /\ current = 0
  /\ Fail(p)
  /\ UNCHANGED <<segVars, past, errors>>

\* batch_write_entries: a full segment is rotated first (should_rotate) ...
ToRotate(p, then) ==
  /\ ret' = [ret EXCEPT ![p] = then]
  /\ Goto(p, "rotate")
  /\ UNCHANGED <<config, pending, timed, permit, segVars, ents, op, reply,
                 listed, dataVars, now, past, bounds>>
Check(p) ==
  /\ pc[p] = "check"
  /\ IF current # 0 /\ Len(file[current]) >= SegCap
     THEN ToRotate(p, "write")
     ELSE Move(p, "write")

\* ... then, under the write lock, one into which the batch does not fit; a
\* single entry (write_entry) is tried first.
NoRoom(p) ==
  /\ pc[p] \in {"write", "try"} /\ current # 0 /\ ~Fits(p)
  /\ ToRotate(p, IF pc[p] = "write" THEN "rewrite" ELSE "retry")

\* The records are appended, flushed and synced.  After the rotation a batch
\* is written whatever its size; a single entry that finds no room again is
\* dropped, and success is reported.
\* Mutant: after a rotation the batch is not written again.
WriteOnce(p) ==
  /\ pc[p] \in {"write", "try", "rewrite", "retry"} /\ current # 0
  /\ pc[p] \in {"write", "try"} => Fits(p)
  /\ file' = IF pc[p] \in {"write", "try"}
             THEN [file EXCEPT ![current] = @ \o ents[p]] ELSE file
  /\ ents' = [ents EXCEPT ![p] = <<>>]
  /\ SendAcks(p, "ok")
  /\ Advance(p)
  /\ UNCHANGED <<config, pending, timed, permit, disk, torn, current, segments,
                 counter, ret, op, listed, dataVars, now, past, bounds>>
Write(p) ==
  /\ pc[p] \in {"write", "try", "rewrite", "retry"} /\ current # 0
  /\ pc[p] \in {"write", "try"} => Fits(p)
  /\ file' = IF pc[p] = "retry" /\ ~Fits(p) THEN file
             ELSE [file EXCEPT ![current] = @ \o ents[p]]
  /\ ents' = [ents EXCEPT ![p] = <<>>]
  /\ SendAcks(p, "ok")
  /\ Advance(p)
  /\ UNCHANGED <<config, pending, timed, permit, disk, torn, current, segments,
                 counter, ret, op, listed, dataVars, now, past, bounds>>

\* Writing or syncing fails: a part of the batch is in the file, with the
\* beginning of the next record or without.
Partial(p, n, tail) ==
  /\ file' = [file EXCEPT ![current] = @ \o SubSeq(ents[p], 1, n)]
  /\ torn' = IF tail THEN torn \cup {current} ELSE torn
Writing(p) ==
  /\ pc[p] \in {"write", "try", "rewrite", "retry"} /\ current # 0 /\ Fits(p)
WriteFails(p, n, tail) ==
  /\ Writing(p) /\ n <= Len(ents[p]) /\ (tail => n < Len(ents[p]))
  /\ errors < MaxErrors /\ errors' = errors + 1
  /\ Partial(p, n, tail)
  /\ past' = past \cup Remnants \cup (IF tail THEN {"torn"} ELSE {})
  /\ Fail(p)
  /\ UNCHANGED <<disk, current, segments, counter>>

\* FrameWalSegment::new: a file that exists is opened as it is.
OpenSegment(i) ==
  /\ disk' = disk \cup {i}
  /\ file' = IF i \in disk THEN file ELSE [file EXCEPT ![i] = <<>>]
  /\ torn' = IF i \in disk THEN torn ELSE torn \ {i}

\* rotate_segment, under the write lock: the old segment is entered under the
\* value of segment_counter, the new one is created with that id.
Tracked ==
  IF current = 0 THEN segments
  ELSE {s \in segments : s[1] # counter} \cup {<<counter, current>>}
Rotate(p) ==
  /\ pc[p] = "rotate" /\ counter <= MaxIds
  /\ segments' = Tracked
  /\ current' = counter
  /\ OpenSegment(counter)
  /\ Goto(p, "bump")
  /\ UNCHANGED <<config, pending, timed, permit, counter, ret, ents, op, reply,
                 listed, dataVars, now, past, bounds>>

\* The counter is incremented after the lock is released.
Bump(p) ==
  /\ pc[p] = "bump"
  /\ counter' = counter + 1
  /\ IF ret[p] = "rest" THEN Advance(p) ELSE Goto(p, ret[p])
  /\ ret' = [ret EXCEPT ![p] = "rest"]
  /\ UNCHANGED <<config, pending, timed, permit, file, disk, torn, current,
                 segments, ents, op, reply, listed, dataVars, now, past,
                 bounds>>

\* Closing the old file or creating the new one fails: there is no current
\* segment any more.
RotateFails(p) ==
  /\ pc[p] = "rotate"
  /\ errors < MaxErrors /\ errors' = errors + 1
  /\ current' = 0 /\ segments' \in {segments, Tracked}
  /\ past' = past \cup Remnants
  /\ Fail(p)
  /\ UNCHANGED <<file, disk, torn, counter>>

-----------------------------------------------------------------------------
(* flush_pending, by the background task and by the caller.                *)

Take(p) ==
  /\ IF p = "committer" THEN task = "flush" /\ pc[p] = "rest"
     ELSE pc[p] = "take"
  /\ TakeQueue
  /\ ents' = [ents EXCEPT ![p] = pending]
  /\ IF pending = <<>> THEN Advance(p) ELSE Goto(p, "check")
  /\ UNCHANGED <<config, permit, segVars, ret, op, reply, listed, dataVars,
                 now, past, bounds>>

-----------------------------------------------------------------------------
(* write_operation, write_delete and batch_write_operations.               *)

Start(step, rest) ==
  /\ pc["caller"] = "rest"
  /\ pc' = [pc EXCEPT !["caller"] = step]
  /\ plan' = rest

IfGroup(steps) == IF group THEN steps ELSE <<>>

\* put and delete: through the queue, or directly.
Put(k) ==
  /\ ver < MaxWrites /\ ver' = ver + 1
  /\ op' = Record("put", k, ver + 1)
  /\ IF group THEN Start("enqueue", <<>>) /\ UNCHANGED ents
     ELSE /\ Start("try", <<"done">>)
          /\ ents' = [ents EXCEPT !["caller"] = <<op'>>]
  /\ UNCHANGED <<config, groupVars, segVars, ret, reply, listed, mem, sst,
                 truth, now, past, bounds>>

PutEnqueue ==
  /\ pc["caller"] = "enqueue"
  /\ Enqueue(op)
  /\ Goto("caller", "notify")
  /\ UNCHANGED <<config, permit, segVars, ret, ents, op, reply, listed,
                 dataVars, now, past, bounds>>

PutNotify ==
  /\ pc["caller"] = "notify"
  /\ Notify
  /\ Goto("caller", IF wait THEN "await" ELSE "done")
  /\ UNCHANGED <<config, pending, timed, segVars, ret, ents, op, reply, listed,
                 dataVars, now, past, bounds>>

PutAwait ==
  /\ pc["caller"] = "await" /\ reply # "none"
  /\ reply' = "none"
  /\ Goto("caller", IF reply = "ok" THEN "done" ELSE "rest")
  /\ op' = IF reply = "ok" THEN op ELSE NoOp
  /\ UNCHANGED <<config, pending, timed, permit, segVars, ret, ents, listed,
                 dataVars, now, past, bounds>>

\* batch_put: the queue is flushed first, then the batch is written.
BatchPut(k) ==
  /\ ver < MaxWrites /\ ver' = ver + 1
  /\ op' = Record("put", k, ver + 1)
  /\ LET steps == IfGroup(<<"take">>) \o <<"own", "done">>
     IN  Start(Head(steps), Tail(steps))
  /\ UNCHANGED <<config, groupVars, segVars, ret, ents, reply, listed, mem,
                 sst, truth, now, past, bounds>>

WriteOwn(step, rec, next) ==
  /\ pc["caller"] = step
  /\ ents' = [ents EXCEPT !["caller"] = <<rec>>]
  /\ Goto("caller", next)
  /\ UNCHANGED <<config, pending, timed, permit, segVars, ret, op, reply,
                 listed, dataVars, now, past, bounds>>

\* The memtable takes the write and the call returns.
Done ==
  /\ pc["caller"] = "done"
  /\ mem' = [mem EXCEPT ![op.key] = op.ver]
  /\ truth' = [truth EXCEPT ![op.key] = op.ver]
  /\ Goto("caller", "rest") /\ op' = NoOp
  /\ UNCHANGED <<config, pending, timed, permit, segVars, ret, ents, reply,
                 listed, sst, ver, now, past, bounds>>

-----------------------------------------------------------------------------
(* flush_wal(), flush(), shutdown() and the cleanup task.                  *)

Wipe == <<"close", "remove", "renew">>

Administer(steps) ==
  /\ admin < MaxAdmin /\ admin' = admin + 1
  /\ Start(Head(steps), Tail(steps))
  /\ UNCHANGED <<config, groupVars, segVars, ret, ents, op, reply, listed,
                 dataVars, now, past, crashes, errors>>

FlushWal == Administer(IfGroup(<<"take">>) \o <<"sync">>)
FlushEngine ==
  Administer(IfGroup(<<"take">>) \o <<"sync", "publish">> \o Wipe)
Shutdown ==
  Administer(IfGroup(<<"take">>) \o <<"sync", "publish", "mark">>)

\* segment.flush(): the header, and what the operating system still holds.
Sync ==
  /\ pc["caller"] = "sync"
  /\ Advance("caller")
  /\ UNCHANGED <<config, pending, timed, permit, segVars, ret, ents, op, reply,
                 listed, dataVars, now, past, bounds>>

\* The memtable becomes an SSTable.
Publish ==
  /\ pc["caller"] = "publish"
  /\ sst' = [k \in Keys |-> IF mem[k] # 0 THEN mem[k] ELSE sst[k]]
  /\ mem' = NoVersion
  /\ Advance("caller")
  /\ UNCHANGED <<config, pending, timed, permit, segVars, ret, ents, op, reply,
                 listed, truth, ver, now, past, bounds>>

\* mark_clean_shutdown: a checkpoint, if there is a segment for it.
Mark ==
  /\ pc["caller"] = "mark"
  /\ LET steps == IF current = 0 THEN Wipe
                  ELSE IfGroup(<<"take">>) \o <<"ckpt">>
                         \o IfGroup(<<"take">>) \o <<"sync">> \o Wipe
     IN  pc' = [pc EXCEPT !["caller"] = Head(steps)] /\ plan' = Tail(steps)
  /\ UNCHANGED <<config, groupVars, segVars, ret, ents, op, reply, listed,
                 dataVars, now, past, bounds>>

\* truncate_after_flush: drop the handle and the list ...
Close ==
  /\ pc["caller"] = "close"
  /\ current' = 0 /\ segments' = {} /\ listed' = disk
  /\ Advance("caller")
  /\ UNCHANGED <<config, pending, timed, permit, file, disk, torn, counter,
                 ret, ents, op, reply, dataVars, now, past, bounds>>

\* ... remove the files that were there, in the order of read_dir ...
RemoveFile(i) ==
  /\ pc["caller"] = "remove" /\ i \in listed
  /\ disk' = disk \ {i} /\ listed' = listed \ {i}
  /\ UNCHANGED <<config, groupVars, file, torn, current, segments, counter, pc,
                 ret, ents, plan, op, reply, dataVars, now, past, bounds>>

Removed ==
  /\ pc["caller"] = "remove" /\ listed = {}
  /\ Advance("caller")
  /\ UNCHANGED <<config, pending, timed, permit, segVars, ret, ents, op, reply,
                 listed, dataVars, now, past, bounds>>

\* ... and, if none is left, create a new segment.
Renew ==
  /\ pc["caller"] = "renew" /\ disk = {}
  /\ ToRotate("caller", "rest")

Residue ==
  /\ pc["caller"] = "renew" /\ disk # {}
  /\ past' = past \cup Remnants
  /\ Fail("caller")
  /\ UNCHANGED <<segVars, errors>>

\* A file cannot be removed, or the header not be written.
AdminFails ==
  /\ pc["caller"] \in {"sync", "remove"}
  /\ errors < MaxErrors /\ errors' = errors + 1
  /\ past' = past \cup Remnants
  /\ Fail("caller")
  /\ UNCHANGED segVars

\* cleanup_old_segments and force_cleanup: completed segments that are old
\* enough, or all of them, are removed.
Cleanup(S) ==
  /\ pc["caller"] = "rest"
  /\ admin < MaxAdmin /\ admin' = admin + 1
  /\ segments' = segments \ S
  /\ disk' = disk \ {s[2] : s \in S}
  /\ past' = past \cup {"cleanup"}
  /\ UNCHANGED <<config, groupVars, file, torn, current, counter, procVars,
                 dataVars, now, crashes, errors>>

-----------------------------------------------------------------------------
\* A crash: only files are left, and a write in progress may have been done
\* in part.
Crash ==
  /\ pc["caller"] # "down"
  /\ crashes < MaxCrashes /\ crashes' = crashes + 1
  /\ \/ UNCHANGED <<file, torn>>
     \/ \E p \in Procs :
          Writing(p) /\ \E tail \in BOOLEAN : Partial(p, 0, tail)
     \/ \E p \in Procs : Writing(p) /\ Partial(p, Len(ents[p]), FALSE)
  /\ past' = past \cup Remnants \cup (IF torn' # torn THEN {"torn"} ELSE {})
  /\ GroupReset(FALSE)
  /\ current' = 0 /\ segments' = {} /\ listed' = {}
  /\ pc' = [p \in Procs |-> IF p = "caller" THEN "down" ELSE "rest"]
  /\ ret' = [p \in Procs |-> "rest"] /\ ents' = [p \in Procs |-> <<>>]
  /\ plan' = <<>> /\ op' = NoOp /\ reply' = "none"
  /\ mem' = NoVersion
  /\ UNCHANGED <<config, disk, counter, sst, truth, ver, now, admin,
                 errors>>

\* The restart: replay, then scan_existing_segments and a new segment.
Restart ==
  /\ pc["caller"] = "down"
  /\ mem' = [k \in Keys |-> Replayed(k)]
  /\ LET next == Max({0} \cup disk) + 1
     IN  /\ next <= MaxIds
         /\ current' = next /\ counter' = next + 1
         /\ OpenSegment(next)
  /\ GroupReset(group)
  /\ pc' = [pc EXCEPT !["caller"] = "rest"]
  /\ UNCHANGED <<config, segments, ret, ents, plan, op, reply, listed, sst,
                 truth, ver, now, past, bounds>>

-----------------------------------------------------------------------------
BatchStep(p) ==
  Take(p) \/ Check(p) \/ NoRoom(p) \/ Write(p) \/ Rotate(p) \/ Bump(p)
    \/ Refused(p)

CommitterStep ==
  \/ BatchStep("committer")
  \/ /\ TaskStep
     /\ UNCHANGED <<config, segVars, procVars, dataVars, now, past, bounds>>

CallerStep ==
  \/ BatchStep("caller")
  \/ PutEnqueue \/ PutNotify \/ PutAwait \/ Done
  \/ WriteOwn("own", op, "check") \/ WriteOwn("ckpt", Checkpoint, "try")
  \/ Sync \/ Publish \/ Mark \/ Close
  \/ (\E i \in Ids : RemoveFile(i)) \/ Removed
  \/ Renew \/ Residue \/ Restart

Fault ==
  \/ \E p \in Procs :
       \/ RotateFails(p)
       \/ \E n \in 0..MaxWrites, tail \in BOOLEAN : WriteFails(p, n, tail)
  \/ AdminFails \/ Crash

Next ==
  \/ Tick
  \/ \E k \in Keys : Put(k) \/ BatchPut(k)
  \/ FlushWal \/ FlushEngine \/ Shutdown
  \/ \E S \in SUBSET segments : S # {} /\ Cleanup(S)
  \/ CallerStep \/ CommitterStep \/ Fault

Spec == Init /\ [][Next]_vars

\* The runtime polls every task that can go on, and its locks are fair.
FairSpec == Spec /\ WF_vars(CallerStep) /\ WF_vars(CommitterStep)

-----------------------------------------------------------------------------
(* Properties                                                              *)

Sound == past \cap Exempt = {}

\* After a crash at any step, replaying the frame files over the SSTables
\* gives back every write that was acknowledged, or a newer one, when calls
\* wait for durability: whatever rotations, failed rotations, truncations and
\* restarts went before.
AckedWritesRecovered ==
  Sound /\ pc["caller"] = "down" => \A k \in Keys : Recovered(k) >= truth[k]

InQueue(v) == \E s \in {pending} \cup {ents[p] : p \in Procs} :
                \E n \in DOMAIN s : s[n].ver = v
InLog(v) == \E i \in disk : \E n \in DOMAIN file[i] : file[i][n].ver = v

\* An entry that write_entry_group_commit accepted is somewhere at all times:
\* in the queue, in a batch being written, in a file or in an SSTable.  No
\* taking of the queue, rotation or truncation drops it on the way.
NoAckedWriteVanishes ==
  past \cap (Exempt \ {"nowait"}) = {} /\ crashes = 0 /\ errors = 0 =>
    \A k \in Keys : LET v == truth[k]
                    IN  v # 0 => InQueue(v) \/ InLog(v) \/ sst[k] >= v

\* The cleanup task cannot remove the file that is being written, since it is
\* not in `segments`.  It holds where caller and background task never rotate
\* at the same time; without a wait for durability they do, and the code does
\* not provide it ("nowait" not in Exempt).
CleanupSparesCurrent ==
  Sound /\ current # 0 => \A s \in segments : s[2] # current

\* Every call returns, whatever faults occur.
CallsReturn == (pc["caller"] # "rest") ~> (pc["caller"] = "rest")

\* What was accepted without waiting is eventually taken from the queue: no
\* wake-up of the background task is lost.
QueueDrains == (pending # <<>>) ~> (pending = <<>>)

\* flush_wal() leaves nothing behind in the queue: what was acknowledged
\* before it can be recovered when it returns.
FlushWalCovers ==
  pc["caller"] = "sync" => \A k \in Keys : Recovered(k) >= truth[k]
=============================================================================
