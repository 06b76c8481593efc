----------------------------- MODULE GroupCommit -----------------------------
(***************************************************************************)
(* Group commit of the write-ahead log: the queue of pending entries, its  *)
(* Notify and the background task that decides when the queue is flushed   *)
(* (start_group_commit in storage/wal.rs and, with the same text, in       *)
(* storage/wal_frame.rs; the timing helpers of wal_group_commit.rs).       *)
(*                                                                         *)
(* max_wait and idle_flush only say how long the timer runs: it may fire   *)
(* at any moment, and it does fire if it stays armed.  What writes a batch *)
(* to the log is the business of the module that extends this one.         *)
(***************************************************************************)
EXTENDS Naturals, Sequences

CONSTANT MaxBatch    \* group_commit_max_batch_size

ASSUME GroupCommitAssumption == MaxBatch \in Nat \ {0}

VARIABLES
  pending,  \* the queue: entries in the order they were enqueued
  timed,    \* timing.first_pending_at is set
  permit,   \* commit_notify holds a wake-up
  task      \* where the background task is; "off" without group commit

groupVars == <<pending, timed, permit, task>>

\* write_entry_group_commit, under the queue lock: push and note the time.
\* Mutant: the time of the first entry is not recorded.
EnqueueUntimed(e) == pending' = Append(pending, e) /\ UNCHANGED timed
Enqueue(e) ==
  /\ pending' = Append(pending, e)
  /\ timed' = (timed \/ pending = <<>>)

\* The wake-up is sent after the lock is released; one is stored.
Notify == permit' = TRUE

\* flush_pending: take the queue and clear the timing.
TakeQueue ==
  /\ pending' = <<>>
  /\ timed' = (timed /\ pending = <<>>)

\* next_flush_deadline is Some.
HasDeadline == pending # <<>> /\ timed

\* The loop: compute the deadline ...
TaskLook ==
  /\ task = "look"
  /\ task' = IF HasDeadline THEN "armed" ELSE "idle"
  /\ UNCHANGED <<pending, timed, permit>>

\* ... and wait for it, or for a wake-up.
TaskTimer ==
  /\ task = "armed"
  /\ task' = "flush"
  /\ UNCHANGED <<pending, timed, permit>>

TaskNotified ==
  /\ task \in {"armed", "idle"} /\ permit
  /\ permit' = FALSE
  /\ task' = IF task = "armed" THEN "count" ELSE "look"
  /\ UNCHANGED <<pending, timed>>

TaskCount ==
  /\ task = "count"
  /\ task' = IF Len(pending) >= MaxBatch THEN "flush" ELSE "look"
  /\ UNCHANGED <<pending, timed, permit>>

TaskStep == TaskLook \/ TaskTimer \/ TaskNotified \/ TaskCount

GroupInit(on) ==
  /\ pending = <<>> /\ timed = FALSE /\ permit = FALSE
  /\ task = IF on THEN "look" ELSE "off"

\* After a restart.
GroupReset(on) ==
  /\ pending' = <<>> /\ timed' = FALSE /\ permit' = FALSE
  /\ task' = IF on THEN "look" ELSE "off"
=============================================================================
