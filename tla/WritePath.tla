------------------------------ MODULE WritePath ------------------------------
(***************************************************************************)
(* The write path of LsmTreeEngine (core/engine.rs): put, delete,          *)
(* batch_put and put_with_ttl append to the WAL and then update the active *)
(* memtable; a memtable that is full is swapped into the immutable list,   *)
(* cloned, written to an L0 SSTable, published and removed; flush() and    *)
(* compact() do the same under the exclusive side of operation_guard, and  *)
(* flush() then truncates the WAL; shutdown() flushes under the shared     *)
(* side and truncates with no guard.  get() reads active memtable,         *)
(* immutable memtables and L0 in separate steps.  A crash keeps only the   *)
(* WAL and the SSTable files.                                              *)
(*                                                                         *)
(* Data is reduced to identities.  An operation (a member of Ops) runs at  *)
(* most once and writes itself to every key of KeysOf[op]: put and delete  *)
(* to one key (a tombstone is an entry like any other here), batch_put to  *)
(* several.  wal[k] is the last WAL record for k, which is all that replay *)
(* keeps of the log; the log itself is the subject of WalSegments.  The    *)
(* sequence counter survives a crash here: Sequencer shows that it does.   *)
(***************************************************************************)
EXTENDS Naturals, Sequences, FiniteSets

CONSTANTS
  Keys,        \* the keys
  Ops,         \* put / delete / batch_put operations, each run at most once
  KeysOf,      \* the keys an operation writes
  Clients,     \* tasks that run operations
  ClientOf,    \* the task that runs an operation
  TtlOps,      \* the operations that are put_with_ttl calls
  Readers,     \* tasks that run get
  Flushers,    \* the clients whose writes may find the memtable full
  Admin,       \* the task that calls flush() and compact()
  Closers,     \* the tasks that call shutdown()
  None,        \* no entry, no operation, no task
  MaxCrashes,  \* bound on the number of crashes
  MaxIoErrors  \* bound on the number of failing SSTable writes

ASSUME OpsAssumption ==
  /\ Keys # {}
  /\ KeysOf \in [Ops -> SUBSET Keys]
  /\ \A o \in Ops : KeysOf[o] # {}
  /\ ClientOf \in [Ops -> Clients]
  /\ TtlOps \subseteq Ops
  /\ None \notin Ops

ASSUME TasksAssumption ==
  /\ Flushers \subseteq Clients
  /\ Admin \notin Clients \cup Readers \cup Closers
  /\ Closers \cap (Clients \cup Readers) = {}
  /\ Clients \cap Readers = {}
  /\ None \notin Clients \cup Readers \cup Closers \cup {Admin}

ASSUME BoundsAssumption == MaxCrashes \in Nat /\ MaxIoErrors \in Nat

Tasks == Clients \cup Closers \cup {Admin}

VARIABLES
  guardR,   \* tasks holding operation_guard shared
  guardW,   \* the task holding operation_guard exclusively, or None
  walLock,  \* the client inside wal_manager.write(), or None
  wal,      \* key -> operation of the last WAL record for the key
  active,   \* active_memtable: key -> operation
  imm,      \* immutable_memtables, oldest first
  disk,     \* SSTable files in data_dir
  l0,       \* SSTables of level 0 in the live map
  seq,      \* sequence_number
  pc,       \* where each task is
  cur,      \* the operation each client runs
  todo,     \* keys of that operation still to log or to apply
  slot,     \* immutable_index of the flush a task runs
  sst,      \* the SSTable that flush builds
  rd,       \* the get each reader runs
  acked,    \* operations that returned Ok
  ended,    \* operations that returned, failed or died in a crash
  before,   \* before[o]: the operations ended when o started
  crashes, ioErrors

memVars   == <<active, imm>>
guardVars == <<guardR, guardW>>
opVars    == <<walLock, cur, todo>>
flushVars == <<slot, sst, seq>>
histVars  == <<acked, ended, before>>
bounds    == <<crashes, ioErrors>>
vars == <<guardR, guardW, walLock, wal, active, imm, disk, l0, seq, pc, cur,
          todo, slot, sst, rd, acked, ended, before, crashes, ioErrors>>

-----------------------------------------------------------------------------
(* Memtables, SSTables and lookups.                                        *)

Memtable == [Keys -> Ops \cup {None}]
EmptyMemtable == [k \in Keys |-> None]
SSTable == [ts : Nat, data : Memtable]
NoSst == [ts |-> 0, data |-> EmptyMemtable]

\* get_from_memtables, second half: the immutable list is walked from the
\* oldest memtable and the first hit wins.
\* Mutant of ImmHits: the walk stops before the last memtable.
ImmHitsSkipsLast(k) == {i \in 1..(Len(imm) - 1) : imm[i][k] # None}
ImmHits(k) == {i \in 1..Len(imm) : imm[i][k] # None}
ImmGet(k) ==
  IF ImmHits(k) = {} THEN None
  ELSE imm[CHOOSE i \in ImmHits(k) : \A j \in ImmHits(k) : i <= j][k]

\* get_from_sstables, level 0: of the files that hold the key, the entry with
\* the highest timestamp wins.
SstHits(files, k) == {f \in files : f.data[k] # None}
\* Mutant of SstNewest: the lowest timestamp wins.
SstOldest(files, k) ==
  {f \in SstHits(files, k) : \A g \in SstHits(files, k) : f.ts <= g.ts}
SstNewest(files, k) ==
  {f \in SstHits(files, k) : \A g \in SstHits(files, k) : g.ts <= f.ts}
SstGet(files, k) ==
  IF SstHits(files, k) = {} THEN {None}
  ELSE {f.data[k] : f \in SstNewest(files, k)}

\* What a get that nothing interrupts returns for k.
View(k) ==
  IF active[k] # None THEN {active[k]}
  ELSE IF ImmGet(k) # None THEN {ImmGet(k)}
  ELSE SstGet(l0, k)

\* What such a get returns after a crash: replayed WAL over the SSTables
\* that load_existing_sstables finds on disk.
Recovered(k) == IF wal[k] # None THEN {wal[k]} ELSE SstGet(disk, k)

Label == {"idle", "log", "apply", "check", "queued", "flush", "clone",
          "write", "publish", "remove", "return", "truncate"}

\* A get, and a reader that has not begun one.
Get == [at : {"idle", "imm", "sst", "done"}, key : Keys,
        res : Ops \cup {None}, seen : SUBSET Ops]
NoGet == [at |-> "idle", key |-> CHOOSE k \in Keys : TRUE, res |-> None,
          seen |-> {}]

-----------------------------------------------------------------------------
(* operation_guard: a fair tokio RwLock, so a queued writer keeps new      *)
(* readers out.                                                            *)

\* Mutant of CanShare: only the queue is looked at, not the holder.
CanShareBesideWriter == pc[Admin] # "queued"
CanShare == guardW = None /\ pc[Admin] # "queued"
ReleaseGuard(t) ==
  /\ guardR' = guardR \ {t}
  /\ guardW' = IF guardW = t THEN None ELSE guardW

Init ==
  /\ guardR = {} /\ guardW = None /\ walLock = None
  /\ wal = EmptyMemtable /\ active = EmptyMemtable /\ imm = <<>>
  /\ disk = {} /\ l0 = {} /\ seq = 1
  /\ pc = [t \in Tasks |-> "idle"]
  /\ cur = [c \in Clients |-> None]
  /\ todo = [c \in Clients |-> {}]
  /\ slot = [t \in Tasks |-> 1]
  /\ sst = [t \in Tasks |-> NoSst]
  /\ rd = [r \in Readers |-> NoGet]
  /\ acked = {} /\ ended = {}
  /\ before = [o \in Ops |-> {}]
  /\ crashes = 0 /\ ioErrors = 0

Goto(t, l) == pc' = [pc EXCEPT ![t] = l]

-----------------------------------------------------------------------------
(* put, delete, batch_put, put_with_ttl                                    *)

\* The call: everything but put_with_ttl takes operation_guard.read().
Begin(c, o) ==
  /\ pc[c] = "idle" /\ ClientOf[o] = c
  /\ o \notin ended
  /\ IF o \in TtlOps THEN UNCHANGED guardR
     ELSE CanShare /\ guardR' = guardR \cup {c}
  /\ cur' = [cur EXCEPT ![c] = o]
  /\ todo' = [todo EXCEPT ![c] = KeysOf[o]]
  /\ before' = [before EXCEPT ![o] = ended]
  /\ Goto(c, "log")
  /\ UNCHANGED <<guardW, walLock, wal, memVars, disk, l0, flushVars, rd,
                 acked, ended, bounds>>

\* write_operation, write_delete, batch_write_operations: one record, under
\* the write side of wal_manager, which a batch keeps until its last record.
LogItem(c, k) ==
  /\ pc[c] = "log" /\ k \in todo[c]
  /\ walLock \in {None, c}
  /\ wal' = [wal EXCEPT ![k] = cur[c]]
  /\ IF todo[c] = {k}
     THEN /\ walLock' = None
          /\ todo' = [todo EXCEPT ![c] = KeysOf[cur[c]]]
          /\ Goto(c, "apply")
     ELSE /\ walLock' = c
          /\ todo' = [todo EXCEPT ![c] = @ \ {k}]
          /\ UNCHANGED pc
  /\ UNCHANGED <<guardVars, memVars, disk, l0, flushVars, cur, rd, histVars,
                 bounds>>

\* The WAL write or its fsync fails: the operation returns an error before
\* the memtable is touched.  The failing record may have reached the log, and
\* what a batch logged before it stays there.
LogFails(c) ==
  /\ pc[c] = "log" /\ walLock \in {None, c}
  /\ ioErrors < MaxIoErrors
  /\ ioErrors' = ioErrors + 1
  /\ \E k \in todo[c] : wal' \in {wal, [wal EXCEPT ![k] = cur[c]]}
  /\ walLock' = None
  /\ ReleaseGuard(c)
  /\ ended' = ended \cup {cur[c]}
  /\ cur' = [cur EXCEPT ![c] = None]
  /\ todo' = [todo EXCEPT ![c] = {}]
  /\ Goto(c, "idle")
  /\ UNCHANGED <<memVars, disk, l0, flushVars, rd, acked, before, crashes>>

\* One Memtable::put or Memtable::delete under active_memtable.write(); a
\* batch takes that lock anew for every item.
ApplyItem(c, k) ==
  /\ pc[c] = "apply" /\ k \in todo[c]
  /\ active' = [active EXCEPT ![k] = cur[c]]
  /\ todo' = [todo EXCEPT ![c] = @ \ {k}]
  /\ IF todo[c] = {k}
     THEN ReleaseGuard(c) /\ Goto(c, "check")
     ELSE UNCHANGED <<guardVars, pc>>
  /\ UNCHANGED <<walLock, wal, imm, disk, l0, flushVars, cur, rd, histVars,
                 bounds>>

\* check_memtable_flush: sizes are abstract, so a Flusher may find the
\* memtable full whenever it is not empty.
CheckFull(c) ==
  /\ pc[c] = "check" /\ c \in Flushers
  /\ active # EmptyMemtable
  /\ Goto(c, "flush")
  /\ UNCHANGED <<guardVars, opVars, wal, memVars, disk, l0, flushVars, rd,
                 histVars, bounds>>

\* The operation returns Ok, straight from the check or after its flush.
Return(c) ==
  /\ pc[c] \in {"check", "return"}
  /\ acked' = acked \cup {cur[c]}
  /\ ended' = ended \cup {cur[c]}
  /\ cur' = [cur EXCEPT ![c] = None]
  /\ Goto(c, "idle")
  /\ UNCHANGED <<guardVars, walLock, wal, memVars, disk, l0, flushVars, todo,
                 rd, before, bounds>>

-----------------------------------------------------------------------------
(* flush_memtable_internal, run by a client (flush_memtable), by flush(),  *)
(* compact() or shutdown().                                                *)

\* flush() and compact() queue for operation_guard.write().
QueueExclusive ==
  /\ pc[Admin] = "idle"
  /\ Goto(Admin, "queued")
  /\ UNCHANGED <<guardVars, opVars, wal, memVars, disk, l0, flushVars, rd,
                 histVars, bounds>>

\* Mutant of AcquireExclusive: the guard does not wait for its readers.
AcquireAmidReaders ==
  /\ pc[Admin] = "queued" /\ guardW = None
  /\ guardW' = Admin
  /\ Goto(Admin, "flush")
  /\ UNCHANGED <<guardR, opVars, wal, memVars, disk, l0, flushVars, rd,
                 histVars, bounds>>

AcquireExclusive ==
  /\ pc[Admin] = "queued"
  /\ guardR = {} /\ guardW = None
  /\ guardW' = Admin
  /\ Goto(Admin, "flush")
  /\ UNCHANGED <<guardR, opVars, wal, memVars, disk, l0, flushVars, rd,
                 histVars, bounds>>

\* shutdown() calls flush_memtable like a client does.
BeginShutdown(t) ==
  /\ t \in Closers /\ pc[t] = "idle"
  /\ Goto(t, "flush")
  /\ UNCHANGED <<guardVars, opVars, wal, memVars, disk, l0, flushVars, rd,
                 histVars, bounds>>

AfterFlush(t) == IF t \in Clients THEN "return" ELSE "truncate"

\* flush_memtable drops its shared guard when the internal flush returns;
\* flush() keeps the exclusive one until the WAL is truncated.
\* Mutant of LeaveFlush: the guard is leaked.
LeaveFlushHolding(t) == UNCHANGED guardVars
LeaveFlush(t) == IF t = Admin THEN UNCHANGED guardVars ELSE ReleaseGuard(t)

\* immutable_index: the place of the memtable that the swap pushes.
\* Mutant: the index of the last memtable before the push.
ImmIndexBeforePush == Len(imm)
ImmIndex == Len(imm) + 1

\* Take the guard (shared, unless held exclusively already), lock both lists
\* and swap the memtables; an empty memtable ends the flush.
Swap(t) ==
  /\ pc[t] = "flush"
  /\ t # Admin => CanShare
  /\ IF active = EmptyMemtable
     THEN /\ Goto(t, AfterFlush(t))
          /\ UNCHANGED <<guardVars, memVars, slot>>
     ELSE /\ guardR' = IF t = Admin THEN guardR ELSE guardR \cup {t}
          /\ imm' = Append(imm, active)
          /\ active' = EmptyMemtable
          /\ slot' = [slot EXCEPT ![t] = ImmIndex]
          /\ Goto(t, "clone")
          /\ UNCHANGED guardW
  /\ UNCHANGED <<opVars, wal, disk, l0, sst, seq, rd, histVars, bounds>>

\* Clone the memtable found at immutable_index, name the file and stamp its
\* entries from sequence_number.  The fetch_adds of one flush are taken
\* together: two flushes are ordered as wholes.  Nothing at that index: the
\* flush returns Ok.
Clone(t) ==
  /\ pc[t] = "clone"
  /\ IF slot[t] <= Len(imm)
     THEN /\ sst' = [sst EXCEPT ![t] = [ts |-> seq, data |-> imm[slot[t]]]]
          /\ seq' = seq + 1
          /\ Goto(t, "write")
          /\ UNCHANGED guardVars
     ELSE /\ LeaveFlush(t)
          /\ Goto(t, AfterFlush(t))
          /\ UNCHANGED <<sst, seq>>
  /\ UNCHANGED <<opVars, wal, memVars, disk, l0, slot, rd, histVars, bounds>>

\* SSTable::write_entries: the file is on disk once it is synced.
WriteFile(t) ==
  /\ pc[t] = "write"
  /\ disk' = disk \cup {sst[t]}
  /\ Goto(t, "publish")
  /\ UNCHANGED <<guardVars, opVars, wal, memVars, l0, flushVars, rd, histVars,
                 bounds>>

\* write_entries fails, or the open and the checks after it: the error is
\* returned at once, so the memtable stays in the immutable list.
FlushFails(t) ==
  /\ pc[t] \in {"write", "publish"}
  /\ ioErrors < MaxIoErrors
  /\ ioErrors' = ioErrors + 1
  /\ ReleaseGuard(t)
  /\ Goto(t, "idle")
  /\ IF t \in Clients
     THEN /\ ended' = ended \cup {cur[t]}
          /\ cur' = [cur EXCEPT ![t] = None]
     ELSE UNCHANGED <<ended, cur>>
  /\ UNCHANGED <<walLock, wal, memVars, disk, l0, flushVars, todo, rd, acked,
                 before, crashes>>

\* The opened SSTable is pushed to level 0.
Publish(t) ==
  /\ pc[t] = "publish"
  /\ l0' = l0 \cup {sst[t]}
  /\ Goto(t, "remove")
  /\ UNCHANGED <<guardVars, opVars, wal, memVars, disk, flushVars, rd,
                 histVars, bounds>>

\* immutable.remove(immutable_index), when the list is that long.
\* Mutant of RemoveAtSlot: the whole list is cleared.
RemoveAll(s, i) == <<>>
RemoveAtSlot(s, i) ==
  IF i <= Len(s)
  THEN [j \in 1..(Len(s) - 1) |-> IF j < i THEN s[j] ELSE s[j + 1]]
  ELSE s

Remove(t) ==
  /\ pc[t] = "remove"
  /\ imm' = RemoveAtSlot(imm, slot[t])
  /\ LeaveFlush(t)
  /\ Goto(t, AfterFlush(t))
  /\ UNCHANGED <<opVars, wal, active, disk, l0, flushVars, rd, histVars,
                 bounds>>

\* flush(): truncate_after_flush under the exclusive guard.  shutdown():
\* mark_clean_shutdown truncates with no guard at all.
Truncate(t) ==
  /\ t \notin Clients /\ pc[t] = "truncate"
  /\ walLock = None
  /\ wal' = EmptyMemtable
  /\ ReleaseGuard(t)
  /\ Goto(t, "idle")
  /\ UNCHANGED <<opVars, memVars, disk, l0, flushVars, rd, histVars, bounds>>

\* compact() and compact_all() release the guard without truncating.
SkipTruncate ==
  /\ pc[Admin] = "truncate"
  /\ ReleaseGuard(Admin)
  /\ Goto(Admin, "idle")
  /\ UNCHANGED <<opVars, wal, memVars, disk, l0, flushVars, rd, histVars,
                 bounds>>

-----------------------------------------------------------------------------
(* get                                                                     *)

\* The lookup ended with res; the shared guard is dropped.
Answer(r, res) ==
  /\ rd' = [rd EXCEPT ![r] = [@ EXCEPT !.at = "done", !.res = res]]
  /\ guardR' = guardR \ {r}

\* Take the guard and look in the active memtable.
GetActive(r, k) ==
  /\ rd[r].at \in {"idle", "done"} /\ CanShare
  /\ IF active[k] # None
     THEN /\ rd' = [rd EXCEPT ![r] = [at |-> "done", key |-> k,
                                      res |-> active[k], seen |-> acked]]
          /\ UNCHANGED guardR
     ELSE /\ rd' = [rd EXCEPT ![r] = [at |-> "imm", key |-> k,
                                      res |-> None, seen |-> acked]]
          /\ guardR' = guardR \cup {r}
  /\ UNCHANGED <<guardW, opVars, wal, memVars, disk, l0, flushVars, pc,
                 histVars, bounds>>

\* Look in the immutable memtables.
GetImm(r) ==
  /\ rd[r].at = "imm"
  /\ IF ImmGet(rd[r].key) # None
     THEN Answer(r, ImmGet(rd[r].key))
     ELSE rd' = [rd EXCEPT ![r] = [@ EXCEPT !.at = "sst"]] /\ UNCHANGED guardR
  /\ UNCHANGED <<guardW, opVars, wal, memVars, disk, l0, flushVars, pc,
                 histVars, bounds>>

\* Look in the SSTables of level 0.
GetSst(r) ==
  /\ rd[r].at = "sst"
  /\ \E o \in SstGet(l0, rd[r].key) : Answer(r, o)
  /\ UNCHANGED <<guardW, opVars, wal, memVars, disk, l0, flushVars, pc,
                 histVars, bounds>>

-----------------------------------------------------------------------------
\* A crash and the restart after it (initialize_components): the WAL is
\* replayed into the active memtable and every file on disk is loaded.
\* Recovery changes nothing on disk, so a crash during it is this step again.
Running == {cur[c] : c \in Clients} \ {None}
CrashRestart ==
  /\ crashes < MaxCrashes
  /\ crashes' = crashes + 1
  /\ guardR' = {} /\ guardW' = None /\ walLock' = None
  /\ active' = wal /\ imm' = <<>> /\ l0' = disk
  /\ pc' = [t \in Tasks |-> "idle"]
  /\ cur' = [c \in Clients |-> None]
  /\ todo' = [c \in Clients |-> {}]
  /\ slot' = [t \in Tasks |-> 1]
  /\ sst' = [t \in Tasks |-> NoSst]
  /\ rd' = [r \in Readers |-> NoGet]
  /\ ended' = ended \cup Running
  /\ UNCHANGED <<wal, disk, seq, acked, before, ioErrors>>

ClientStep(c) ==
  \/ \E k \in Keys : LogItem(c, k) \/ ApplyItem(c, k)
  \/ CheckFull(c) \/ Return(c)

FlushStep(t) ==
  Swap(t) \/ Clone(t) \/ WriteFile(t) \/ Publish(t) \/ Remove(t) \/ Truncate(t)

GetStep(r) == GetImm(r) \/ GetSst(r)

Next ==
  \/ \E c \in Clients : \/ \E o \in Ops : Begin(c, o)
                        \/ ClientStep(c)
                        \/ LogFails(c)
  \/ \E t \in Tasks : FlushStep(t) \/ FlushFails(t)
  \/ QueueExclusive \/ AcquireExclusive \/ SkipTruncate
  \/ \E t \in Closers : BeginShutdown(t)
  \/ \E r \in Readers : (\E k \in Keys : GetActive(r, k)) \/ GetStep(r)
  \/ CrashRestart

Spec == Init /\ [][Next]_vars

\* Tokio schedules every runnable task, so a task that has begun a call takes
\* its next step; nothing makes a caller begin one.  operation_guard serves
\* waiters in order, so a flush that waits for it is not passed over forever.
Fairness ==
  /\ \A c \in Clients : WF_vars(ClientStep(c))
  /\ \A t \in Tasks : SF_vars(FlushStep(t))
  /\ \A r \in Readers : WF_vars(GetStep(r))
  /\ WF_vars(AcquireExclusive)

FairSpec == Spec /\ Fairness

-----------------------------------------------------------------------------
(* Properties                                                              *)

\* Type correctness of the state of LsmTreeEngine.
TypeOK ==
  /\ guardR \subseteq Tasks \cup Readers
  /\ guardW \in {None, Admin}
  /\ walLock \in Clients \cup {None}
  /\ wal \in Memtable /\ active \in Memtable /\ imm \in Seq(Memtable)
  /\ disk \subseteq SSTable /\ l0 \subseteq SSTable /\ seq \in Nat
  /\ pc \in [Tasks -> Label]
  /\ cur \in [Clients -> Ops \cup {None}]
  /\ todo \in [Clients -> SUBSET Keys]
  /\ slot \in [Tasks -> Nat \ {0}]
  /\ sst \in [Tasks -> SSTable]
  /\ rd \in [Readers -> Get]
  /\ acked \subseteq ended /\ ended \subseteq Ops
  /\ before \in [Ops -> SUBSET Ops]
  /\ crashes \in 0..MaxCrashes /\ ioErrors \in 0..MaxIoErrors

\* o is no stale answer for k when the writes in W are known to have
\* succeeded: o is there, and no write of W to k began after o had ended.
Fresh(k, o, W) ==
  \A w \in W : k \in KeysOf[w] => o # None /\ o \notin before[w]

\* Reads see acknowledged writes: whatever put, flush and swap steps are under
\* way, the lookup order of get (active, immutable, L0 by timestamp) finds a
\* write that no acknowledged later write supersedes.
ReadsSeeAckedWrites ==
  \A k \in Keys : \A o \in View(k) : Fresh(k, o, acked)

\* Durability: at every instant a crash and restart would give back every
\* acknowledged write or a newer one, although flush() truncates the WAL.
AckedWritesAreDurable ==
  \A k \in Keys : \A o \in Recovered(k) : Fresh(k, o, acked)

\* A get that interleaves with swaps, publications and removals between its
\* three lookups still answers with nothing older than what had been
\* acknowledged when it took operation_guard.
GetIsNeverStale ==
  \A r \in Readers :
    rd[r].at = "done" => Fresh(rd[r].key, rd[r].res, rd[r].seen)

\* Even when SSTable writes fail, an acknowledged key never vanishes from
\* reads: its memtable stays in the immutable list.
AckedKeysStayReadable ==
  \A w \in acked : \A k \in KeysOf[w] : None \notin View(k)

\* flush() never truncates the WAL under a put, delete or batch that is
\* between its WAL record and its memtable update.
TruncateWaitsForWriters ==
  [][\A t \in Tasks : Truncate(t) =>
       \A c \in Clients : pc[c] \notin {"log", "apply"}]_vars

\* When no call is running, a crash changes no read: replay gives back what
\* the memtables held.
QuietCrashKeepsReads ==
  (\A t \in Tasks : pc[t] = "idle") => \A k \in Keys : View(k) = Recovered(k)

\* Every call that has begun returns, and flush() gets the exclusive guard
\* although gets and puts keep taking the shared one.
CallsReturn ==
  /\ \A c \in Clients : pc[c] # "idle" ~> pc[c] = "idle"
  /\ pc[Admin] = "queued" ~> pc[Admin] = "idle"
  /\ \A r \in Readers : rd[r].at = "imm" ~> rd[r].at \in {"done", "idle"}
=============================================================================
