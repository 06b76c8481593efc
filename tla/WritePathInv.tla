----------------------------- MODULE WritePathInv ----------------------------
(***************************************************************************)
(* The inductive invariant behind the safety properties of WritePath, for  *)
(* the use the code is safe under: at most one client fills memtables,     *)
(* nobody calls shutdown() or put_with_ttl while others write, and no      *)
(* SSTable write fails.                                                    *)
(***************************************************************************)
EXTENDS WritePath

SafeUse ==
  /\ \A c, d \in Flushers : c = d
  /\ Closers = {} /\ TtlOps = {}
  /\ MaxIoErrors = 0

InFlush(t) == pc[t] \in {"clone", "write", "publish", "remove"}

\* The operations known to be in the log, respectively the memtables, for k.
LoggedOps(k) ==
  acked \cup {cur[c] : c \in {d \in Clients :
                /\ pc[d] # "idle"
                /\ pc[d] = "log" => k \notin todo[d]}}
AppliedOps(k) ==
  acked \cup {cur[c] : c \in {d \in Clients :
                pc[d] \notin {"idle", "log"} /\ k \notin todo[d]}}

\* operation_guard and the tasks agree on who holds it.
GuardInv ==
  /\ guardW = Admin <=> InFlush(Admin) \/ pc[Admin] \in {"flush", "truncate"}
  /\ guardW # None => guardR = {}
  /\ \A c \in Clients : InFlush(c) \/ pc[c] \in {"log", "apply"} => c \in guardR
  /\ \A c \in Clients : pc[c] \notin {"queued", "truncate"}
  /\ \A r \in Readers : rd[r].at \in {"imm", "sst"} => r \in guardR
  /\ pc[Admin] \notin {"log", "apply", "check", "return"}

\* Each client runs its own operation, which has not ended.
OpInv ==
  /\ \A c \in Clients :
       /\ pc[c] = "idle" <=> cur[c] = None
       /\ cur[c] # None => ClientOf[cur[c]] = c /\ cur[c] \notin ended
       /\ IF pc[c] \in {"log", "apply"}
          THEN todo[c] # {} /\ todo[c] \subseteq KeysOf[cur[c]]
          ELSE todo[c] = {}
       /\ InFlush(c) \/ pc[c] \in {"flush", "return"} => c \in Flushers
  /\ \A o \in Ops : before[o] \subseteq ended

\* At most one flush is between its swap and its removal, it owns the only
\* immutable memtable, and its SSTable is the newest.
FlushInv ==
  /\ Len(imm) <= 1
  /\ \A t \in Tasks : InFlush(t) => Len(imm) = 1 /\ slot[t] = 1
  /\ Len(imm) = 1 => \E t \in Tasks : InFlush(t)
  /\ \A t, u \in Tasks : InFlush(t) /\ InFlush(u) => t = u
  /\ \A t \in Tasks : pc[t] \in {"write", "publish", "remove"} =>
       sst[t].data = imm[1] /\ sst[t].ts < seq
  /\ \A t \in Tasks : pc[t] = "write" => \A f \in disk : f.ts < sst[t].ts
  /\ \A t \in Tasks : pc[t] \in {"publish", "remove"} =>
       sst[t] \in disk /\ \A f \in disk : f = sst[t] \/ f.ts < sst[t].ts
  /\ \A t \in Tasks : pc[t] = "remove" => sst[t] \in l0
  /\ \A f \in disk : f.ts < seq
  /\ l0 \subseteq disk
  /\ \A f \in disk : f \notin l0 =>
       \E t \in Tasks : pc[t] = "publish" /\ f = sst[t]

\* The WAL covers the memtables.
WalInv ==
  /\ \A k \in Keys : active[k] # None => wal[k] # None
  /\ \A k \in Keys : Len(imm) = 1 /\ imm[1][k] # None => wal[k] # None
  /\ \A c \in Clients : pc[c] = "apply" =>
       \A k \in KeysOf[cur[c]] : wal[k] # None
  /\ \A c \in Clients : pc[c] = "log" =>
       \A k \in KeysOf[cur[c]] \ todo[c] : wal[k] # None
  /\ InFlush(Admin) \/ pc[Admin] = "truncate" => active = EmptyMemtable
  /\ pc[Admin] = "truncate" => Len(imm) = 0

\* Reads, and recovery, find nothing older than what was applied, or logged.
ReadInv == \A k \in Keys : \A o \in View(k) : Fresh(k, o, AppliedOps(k))
DurableInv == \A k \in Keys : \A o \in Recovered(k) : Fresh(k, o, LoggedOps(k))

\* What a get has still to look at is fresh for what it must see.
GetInv ==
  \A r \in Readers :
    /\ rd[r].seen \subseteq acked
    /\ rd[r].at \in {"imm", "sst"} /\ Len(imm) = 1 /\ imm[1][rd[r].key] # None
         => Fresh(rd[r].key, imm[1][rd[r].key], rd[r].seen)
    /\ \/ rd[r].at = "sst"
       \/ rd[r].at = "imm" /\ (Len(imm) = 1 => imm[1][rd[r].key] = None)
       => \A o \in SstGet(l0, rd[r].key) : Fresh(rd[r].key, o, rd[r].seen)
    /\ rd[r].at = "done" => Fresh(rd[r].key, rd[r].res, rd[r].seen)

\* The inductive strengthening of the write path's safety properties: guard,
\* operations, the single flush, the WAL and the three lookup paths together.
WritePathIInv ==
  TypeOK /\ GuardInv /\ OpInv /\ FlushInv /\ WalInv /\ ReadInv /\ DurableInv
  /\ GetInv

-----------------------------------------------------------------------------
(* What the refinement of KVStore needs besides.                           *)

\* No two clients write the same key.
OneWriterPerKey ==
  \A o, p \in Ops : KeysOf[o] \cap KeysOf[p] # {} => ClientOf[o] = ClientOf[p]

\* Client c has logged its write to k and not applied it yet.
Pending(c, k) ==
  \/ pc[c] = "log" /\ k \in KeysOf[cur[c]] \ todo[c]
  \/ pc[c] = "apply" /\ k \in todo[c]

\* No two files have the same stamp.
StampInv == \A f, g \in disk : f.ts = g.ts => f = g

\* Reads and recovery differ only on a key whose write is logged and not
\* applied; there recovery returns that write.
AgreeOn(k) ==
  /\ \A c \in Clients : Pending(c, k) => Recovered(k) = {cur[c]}
  /\ (\A c \in Clients : ~Pending(c, k)) => Recovered(k) = View(k)
AgreeInv == \A k \in Keys : AgreeOn(k)

\* The strengthening under which every step is a step of KVStore, or none.
RefineIInv == WritePathIInv /\ StampInv /\ AgreeInv

-----------------------------------------------------------------------------
(* Failing writes, put_with_ttl and shutdown(), while the process lives.   *)

\* Besides flush() and compact(), one task flushes; the process does not
\* crash.  Writes may fail, TTL writes take no guard, shutdown() may run.
NoCrashUse ==
  /\ \A t, u \in Flushers \cup Closers : t = u
  /\ MaxCrashes = 0

\* Who is inside a flush holds operation_guard.
FlushGuardInv ==
  /\ guardW = Admin <=> InFlush(Admin) \/ pc[Admin] \in {"flush", "truncate"}
  /\ guardW # None => guardR = {}
  /\ \A t \in Tasks \ {Admin} : InFlush(t) => t \in guardR
  /\ \A c \in Clients : pc[c] \notin {"queued", "truncate"}
  /\ \A t \in Tasks \ Clients : pc[t] \notin {"log", "apply", "check", "return"}
  /\ \A t \in Closers : pc[t] # "queued"

\* One flush at a time: its index is that of the last memtable in the list,
\* behind those that failed flushes have left there, and its SSTable holds
\* that memtable.
SlotInv ==
  /\ \A t, u \in Tasks : InFlush(t) /\ InFlush(u) => t = u
  /\ \A t \in Tasks : InFlush(t) => slot[t] = Len(imm) /\ Len(imm) > 0
  /\ \A t \in Tasks : pc[t] \in {"write", "publish", "remove"} =>
       sst[t].data = imm[slot[t]]
  /\ \A t \in Tasks : pc[t] = "remove" => sst[t] \in l0

\* A memtable or a file of level 0 has an entry for k.
Present(k) ==
  \/ active[k] # None
  \/ \E i \in 1..Len(imm) : imm[i][k] # None
  \/ \E f \in l0 : f.data[k] # None

\* What has been applied is still somewhere.
PresentInv ==
  \A k \in Keys : \A w \in AppliedOps(k) : k \in KeysOf[w] => Present(k)

\* The strengthening of AckedKeysStayReadable.
ReadableIInv == TypeOK /\ OpInv /\ FlushGuardInv /\ SlotInv /\ PresentInv
=============================================================================
