----------------------------- MODULE SstableRead -----------------------------
(***************************************************************************)
(* Reading SSTables (storage/sstable.rs, file_reader.rs): what one call    *)
(* does with one file, beside other calls, the index warm-up after open,   *)
(* the eviction of file handles and a compaction that takes files out of   *)
(* the live map and unlinks them.                                          *)
(*                                                                         *)
(* A get clones the handle of a file under the read lock of the live map,  *)
(* pins it and works on the clone.  The clone shares the file descriptor,  *)
(* the mark and the count of readers with the handle in the map, and has   *)
(* an index and a last decompressed block of its own.  The synchronous get *)
(* and the scans work on the handle in the map and keep the lock.  A       *)
(* compaction reads all entries of a clone that it did not pin.            *)
(*                                                                         *)
(* Read mode PositionedRead with resilient handling, the defaults.  Every  *)
(* file is of level 0; how the hits of several files are merged is in      *)
(* Compaction.  last_access is left out: any unpinned file may be closed.  *)
(***************************************************************************)
EXTENDS SstableFormat, BlockCache

CONSTANTS
  Target,       \* SST_BLOCK_TARGET
  Keys,         \* the keys: numbers
  Lookups,      \* the keys that are looked up
  Table,        \* file -> its keys, with the sizes of their entries
  Written,      \* files that this session wrote; the others were opened
  Legacy,       \* opened files of the older, uncompressed format
  Files,        \* the files
  Procs,        \* tasks that read
  None,         \* no process, no file
  Kinds,        \* what they do: "get", "sync", "warm", "scan", "all"
  MaxOpen,      \* max_open_files
  Attempts,     \* file_retry_attempts
  MaxCalls,     \* bound on calls
  MaxErrors     \* bound on I/O errors

ASSUME ReadAssumption ==
  /\ Keys \subseteq Nat \ {0} /\ Lookups \subseteq Keys
  /\ None \notin Procs \cup Files /\ IsFiniteSet(Procs)
  /\ Kinds \subseteq {"get", "sync", "warm", "scan", "all"}
  /\ MaxOpen \in Nat \ {0} /\ Attempts \in Nat \ {0}
  /\ \A f \in Files :
       /\ DOMAIN Table[f] \subseteq Keys /\ DOMAIN Table[f] # {}
       /\ IsFiniteSet(DOMAIN Table[f]) /\ Table[f] \in [DOMAIN Table[f] -> Nat \ {0}]
  /\ Written \subseteq Files /\ Legacy \subseteq Files \ Written
  /\ Target \in Nat \ {0}
  /\ MaxCalls \in Nat /\ MaxErrors \in Nat

VARIABLES
  disk,       \* files in data_dir
  live,       \* files in the live map
  marked,     \* files marked for deletion
  readers,    \* file -> reader_count
  fd,         \* files whose shared reader holds a descriptor
  index,      \* files whose handle in the map holds the index
  loaded,     \* ... and has index_loaded set
  loading,    \* file -> who holds the index_load_lock of that handle
  block,      \* file -> decompressed_block of that handle, 0 for none
  cache,      \* the block cache
  rd,         \* process -> the call it makes
  job,        \* the reclaim of compacted inputs
  mixed,      \* a clone took the index before and the flag after a load
  calls, errors

handleVars == <<index, loaded, loading, block>>
vars == <<disk, live, marked, readers, fd, handleVars, cache, rd,
          job, mixed, calls, errors>>

NoCall == [pc |-> "idle", kind |-> "get", file |-> None, asked |-> {},
           todo |-> {}, index |-> FALSE, loaded |-> FALSE, block |-> 0,
           pinned |-> FALSE, tries |-> 0, victims |-> {}, found |-> {},
           err |-> FALSE]
NoJob == [pc |-> "idle", file |-> None]

Clones == {"get", "all"}
Pins == {"get", "sync"}
CacheUsers == {"get", "sync"}

Init ==
  /\ disk = Files /\ live = Files /\ marked = {}
  /\ readers = [f \in Files |-> 0]
  /\ fd = {} /\ index = Written /\ loaded = Written
  /\ loading = [f \in Files |-> None]
  /\ block = [f \in Files |-> 0]
  /\ cache = EmptyCache
  /\ rd = [p \in Procs |-> NoCall]
  /\ job = NoJob /\ mixed = FALSE
  /\ calls = 0 /\ errors = 0

\* What is in the files.
TargetOf(f) == IF f \in Legacy THEN 0 ELSE Target
Index == [f \in Files |-> FlatIndex(Table[f], TargetOf(f))]
Blocks == UNION {{f} \X {r.at.block : r \in Range(Index[f])} : f \in Files}
Within(b) == BlockKeys(Table[b[1]], TargetOf(b[1]), b[2])
SizeOf == [b \in Blocks |-> Total(Within(b), Table[b[1]])]
Hits == [f \in Files |-> [k \in Keys |-> IndexGet(Index[f], k)]]
EntryOf == [f \in Files |-> [at \in {r.at : r \in Range(Index[f])} |->
              EntryAt(Table[f], TargetOf(f), at.block, at.off)]]
MayExist == [f \in Files |->
               {k \in Keys : KeyMayExist(Table[f], k, f \in Written)}]

\* The search finds the place of every key that was written and of no other,
\* and at that place the entry of the key.
RoundTrips ==
  \A f \in Files, k \in Keys :
    IF k \in DOMAIN Table[f]
    THEN Hits[f][k] # {} /\ \A r \in Hits[f][k] : EntryOf[f][r.at] = k
    ELSE Hits[f][k] = {}

\* Nor is a key that was written turned away before the search.
FilterLetsThrough == \A f \in Files : DOMAIN Table[f] \subseteq MayExist[f]

-----------------------------------------------------------------------------
(* Locks and handles.                                                      *)

\* Who holds the read lock of the live map.
MapReader(p) ==
  \/ rd[p].pc = "clone"
  \/ rd[p].kind \notin Clones /\ rd[p].pc # "idle"

\* The index of the handle that p works on.
Cloned(p) == rd[p].kind \in Clones
HasIndex(p) == IF Cloned(p) THEN rd[p].index ELSE rd[p].file \in index
Loaded(p) == IF Cloned(p) THEN rd[p].loaded ELSE rd[p].file \in loaded
LastBlock(p) == IF Cloned(p) THEN rd[p].block ELSE block[rd[p].file]

Hit(p) == IF HasIndex(p) THEN Hits[rd[p].file][Min(rd[p].todo)] ELSE {}

\* The file can be read: its descriptor is open, or it can be opened.
CanRead(f) == f \in fd \cup disk

-----------------------------------------------------------------------------
(* How calls begin.                                                        *)

Call(kind, f, keys) ==
  [NoCall EXCEPT !.kind = kind, !.file = f, !.asked = keys,
                 !.todo = keys]

Begin(p, r) ==
  /\ rd[p].pc = "idle" /\ r.kind \in Kinds /\ r.file \in live
  /\ calls < MaxCalls /\ calls' = calls + 1
  /\ rd' = [rd EXCEPT ![p] = r]
  /\ UNCHANGED <<disk, live, marked, fd, handleVars, cache, job,
                 mixed, errors>>

\* pin_sstable_clone: the index is copied ...
BeginGet(p, f, k) ==
  /\ k \in MayExist[f]
  /\ Begin(p, [Call("get", f, {k}) EXCEPT !.pc = "clone",
                                          !.index = f \in index])
  /\ UNCHANGED readers

\* ... then the flag, and the pin is taken before the lock is released.
CloneFlag(p) ==
  /\ rd[p].pc = "clone"
  /\ LET f == rd[p].file
     IN  /\ rd' = [rd EXCEPT ![p].loaded = f \in loaded, ![p].pinned = TRUE,
                             ![p].pc = IF f \in fd THEN "index" ELSE "count"]
         /\ readers' = [readers EXCEPT ![f] = @ + 1]
         /\ mixed' = (mixed \/ (f \in loaded /\ ~rd[p].index))
  /\ UNCHANGED <<disk, live, marked, fd, handleVars, cache, job,
                 calls, errors>>

\* A compaction clones its inputs under the write lock, or after it has loaded
\* their indexes, and pins nothing.
BeginAll(p, f) ==
  /\ f \in loaded \/ \A q \in Procs : ~MapReader(q)
  /\ Begin(p, [Call("all", f, DOMAIN Table[f]) EXCEPT
                  !.pc = IF f \in fd THEN "index" ELSE "open",
                  !.index = f \in index, !.loaded = f \in loaded])
  /\ UNCHANGED readers

\* try_get_sync, the warm-up and the layer scans use the handle in the map.
BeginLive(p, kind, f, keys) ==
  /\ Begin(p, [Call(kind, f, keys) EXCEPT
                  !.pc = IF kind = "scan" THEN "open" ELSE "index",
                  !.pinned = kind \in Pins])
  /\ readers' = IF kind \in Pins THEN [readers EXCEPT ![f] = @ + 1]
                ELSE readers
BeginSync(p, f, k) == k \in MayExist[f] /\ BeginLive(p, "sync", f, {k})
BeginWarm(p, f) == BeginLive(p, "warm", f, {})
BeginScan(p, f) == BeginLive(p, "scan", f, DOMAIN Table[f])

-----------------------------------------------------------------------------
(* File handles: ensure_file_handle_capacity and ensure_file_open.         *)

\* What remains to be done decides where the call is.
Proceed(r) == [r EXCEPT !.pc = IF r.todo = {} THEN "done" ELSE "next"]

Goto(p, step) == rd' = [rd EXCEPT ![p].pc = step]

\* Under the read lock: open files are counted and victims chosen, by their
\* place in the level, among those that nobody has pinned.
LiveAt == SetToSortSeq(live, <)
Closable(f) == f \in fd /\ readers[f] = 0
Count(p) ==
  /\ rd[p].pc = "count"
  /\ LET open == live \cap fd
         idle == {n \in DOMAIN LiveAt : Closable(LiveAt[n])}
         many == IF Cardinality(open) < MaxOpen THEN 0
                 ELSE Cardinality(open) - MaxOpen + 1
     IN  \E V \in SUBSET idle :
           /\ Cardinality(V) = Min({many, Cardinality(idle)})
           /\ rd' = [rd EXCEPT ![p].victims = V,
                        ![p].pc = IF many = 0 THEN "open" ELSE "evict"]
  /\ UNCHANGED <<disk, live, marked, readers, fd, handleVars, cache,
                 job, mixed, calls, errors>>

\* Under the write lock the files that are now at those places are closed, if
\* that is allowed.
Evict(p) ==
  /\ rd[p].pc = "evict"
  /\ \A q \in Procs : ~MapReader(q)
  /\ fd' = fd \ {f \in {LiveAt[n] : n \in rd[p].victims \cap DOMAIN LiveAt} :
                    Closable(f)}
  /\ rd' = [rd EXCEPT ![p].victims = {}, ![p].pc = "open"]
  /\ UNCHANGED <<disk, live, marked, readers, handleVars, cache,
                 job, mixed, calls, errors>>

\* The reader opens the path if it has no descriptor.  A failure is logged.
Open(p) ==
  /\ rd[p].pc = "open"
  /\ fd' = IF CanRead(rd[p].file) THEN fd \cup {rd[p].file} ELSE fd
  /\ Goto(p, "index")
  /\ UNCHANGED <<disk, live, marked, readers, handleVars, cache,
                 job, mixed, calls, errors>>

-----------------------------------------------------------------------------
(* ensure_index_loaded                                                     *)

\* The flag is looked at, and again under the index_load_lock.
UseIndex(p) ==
  /\ rd[p].pc = "index" /\ Loaded(p)
  /\ rd' = [rd EXCEPT ![p] = Proceed(@)]
  /\ UNCHANGED <<disk, live, marked, readers, fd, handleVars, cache,
                 job, mixed, calls, errors>>

LockIndex(p) ==
  /\ rd[p].pc = "index" /\ ~Loaded(p)
  /\ IF Cloned(p) THEN UNCHANGED loading
     ELSE /\ loading[rd[p].file] = None
          /\ loading' = [loading EXCEPT ![rd[p].file] = p]
  /\ Goto(p, "load")
  /\ UNCHANGED <<disk, live, marked, readers, fd, index, loaded,
                 block, cache, job, mixed, calls, errors>>

\* Read, check and decode; the decoded index is stored ...
Load(p) ==
  /\ rd[p].pc = "load" /\ CanRead(rd[p].file)
  /\ fd' = fd \cup {rd[p].file}
  /\ IF Cloned(p)
     THEN rd' = [rd EXCEPT ![p].index = TRUE, ![p].pc = "stored"]
          /\ UNCHANGED <<index, loaded>>
     ELSE index' = index \cup {rd[p].file} /\ Goto(p, "stored")
          /\ UNCHANGED loaded
  /\ UNCHANGED <<disk, live, marked, readers, loading, block,
                 cache, job, mixed, calls, errors>>

Release(p) ==
  loading' = [f \in Files |-> IF loading[f] = p THEN None ELSE loading[f]]

\* ... and then the flag is set and the lock released.
SetLoaded(p) ==
  /\ rd[p].pc = "stored"
  /\ Release(p)
  /\ IF Cloned(p)
     THEN rd' = [rd EXCEPT ![p] = Proceed([@ EXCEPT !.loaded = TRUE])]
          /\ UNCHANGED loaded
     ELSE loaded' = loaded \cup {rd[p].file}
          /\ rd' = [rd EXCEPT ![p] = Proceed(@)]
  /\ UNCHANGED <<disk, live, marked, readers, fd, index, block,
                 cache, job, mixed, calls, errors>>

\* The call ends with an error; a pinned lookup leaves the count to the pin.
Err(p) == [rd[p] EXCEPT !.pc = "done", !.err = TRUE, !.todo = {}]

LoadFails(p) ==
  /\ rd[p].pc = "load"
  /\ IF CanRead(rd[p].file) THEN errors < MaxErrors /\ errors' = errors + 1
     ELSE UNCHANGED errors
  /\ Release(p)
  /\ rd' = [rd EXCEPT ![p] = Err(p)]
  /\ UNCHANGED <<disk, live, marked, readers, fd, index, loaded,
                 block, cache, job, mixed, calls>>

-----------------------------------------------------------------------------
(* The entries, one after the other.                                       *)

\* A key that is not in the index is skipped; a compaction stops at a file
\* that was marked.
Stops(p) == rd[p].kind = "all" /\ rd[p].file \in marked
InIndex(p) == Hit(p) # {}
Skip(p) ==
  /\ rd[p].pc = "next" /\ (Stops(p) \/ ~InIndex(p))
  /\ rd' = [rd EXCEPT ![p] = IF Stops(p) THEN Err(p)
                             ELSE Proceed([rd[p] EXCEPT !.todo = @ \ {Min(@)}])]
  /\ UNCHANGED <<disk, live, marked, readers, fd, handleVars, cache,
                 job, mixed, calls, errors>>

\* The place of the next key, and what is found there in its block.
Place(p) == (CHOOSE r \in Hit(p) : TRUE).at
BlockKey(p) == <<rd[p].file, Place(p).block>>

\* parse_framed_entry: the entry is added to the result, and the block is
\* remembered by the handle; the older format has none.
Deliver(p) ==
  LET f == rd[p].file
      b == Place(p).block
      e == EntryOf[f][Place(p)]
      last == IF f \in Legacy THEN 0 ELSE b
      r == IF e = 0 THEN Err(p)
           ELSE Proceed([rd[p] EXCEPT !.todo = @ \ {Min(@)}, !.tries = 0,
                           !.found = @ \cup {<<Min(rd[p].todo), e>>}])
  IN  IF Cloned(p)
      THEN rd' = [rd EXCEPT ![p] = [r EXCEPT !.block = last]]
           /\ UNCHANGED block
      ELSE rd' = [rd EXCEPT ![p] = r] /\ block' = [block EXCEPT ![f] = last]

\* try_read_entry_sync opens the file in any case.
Opened(p) == IF rd[p].kind = "sync" THEN fd \cup {rd[p].file} ELSE fd

\* The last block, the cache, or the file.
Looking(p) == rd[p].pc = "next" /\ ~Stops(p) /\ InIndex(p)
FromLastBlock(p) ==
  /\ Looking(p) /\ LastBlock(p) = Place(p).block
  /\ Deliver(p)
  /\ fd' = Opened(p)
  /\ UNCHANGED <<disk, live, marked, readers, index, loaded,
                 loading, cache, job, mixed, calls, errors>>

UsesCache(p) ==
  rd[p].kind \in IF rd[p].file \in Legacy THEN {"get"} ELSE CacheUsers
Cached(p) == UsesCache(p) /\ BlockKey(p) \in cache.blocks
FromCache(p) ==
  /\ Looking(p) /\ LastBlock(p) # Place(p).block
  /\ IF Cached(p) THEN cache' = Touch(cache, BlockKey(p)) /\ Deliver(p)
     ELSE Goto(p, "read") /\ UNCHANGED <<cache, block>>
  /\ fd' = Opened(p)
  /\ UNCHANGED <<disk, live, marked, readers, index, loaded,
                 loading, job, mixed, calls, errors>>

\* try_read_entry refuses a file of the older format that was marked.
CanReadEntry(f) == CanRead(f) /\ f \notin Legacy \cap marked
FromFile(p) ==
  /\ rd[p].pc = "read" /\ CanReadEntry(rd[p].file)
  /\ fd' = fd \cup {rd[p].file}
  /\ cache' = IF UsesCache(p)
              THEN Put(cache, BlockKey(p), SizeOf) ELSE cache
  /\ Deliver(p)
  /\ UNCHANGED <<disk, live, marked, readers, index, loaded,
                 loading, job, mixed, calls, errors>>

\* The read fails.  A get tries again, as often as configured; a scan goes on
\* with the next key.
Retry(p) ==
  CASE rd[p].kind = "get" /\ rd[p].tries + 1 < Attempts ->
         [rd[p] EXCEPT !.tries = @ + 1, !.pc = "next"]
    [] rd[p].kind = "scan" ->
         Proceed([rd[p] EXCEPT !.todo = @ \ {Min(@)}])
    [] OTHER -> Err(p)

ReadFails(p) ==
  /\ rd[p].pc = "read"
  /\ IF CanReadEntry(rd[p].file)
     THEN errors < MaxErrors /\ errors' = errors + 1
     ELSE UNCHANGED errors
  /\ rd' = [rd EXCEPT ![p] = Retry(p)]
  /\ UNCHANGED <<disk, live, marked, readers, fd, handleVars, cache,
                 job, mixed, calls>>

\* The call returns and the pin is dropped.
\* Mutant: an early return on an error leaves the pin.
UnpinNotOnError(p) ==
  IF rd[p].pinned /\ ~rd[p].err
  THEN [readers EXCEPT ![rd[p].file] = @ - 1] ELSE readers
Unpin(p) ==
  IF rd[p].pinned THEN [readers EXCEPT ![rd[p].file] = @ - 1] ELSE readers
Return(p) ==
  /\ rd[p].pc = "done"
  /\ readers' = Unpin(p)
  /\ rd' = [rd EXCEPT ![p] = NoCall]
  /\ UNCHANGED <<disk, live, marked, fd, handleVars, cache, job,
                 mixed, calls, errors>>

-----------------------------------------------------------------------------
(* A compaction installs its outputs, and reclaim_compacted_inputs.        *)

JobStep(step, f) == job' = [pc |-> step, file |-> f]

Install(f) ==
  /\ job.pc = "idle" /\ f \in live /\ \A p \in Procs : ~MapReader(p)
  /\ live' = live \ {f}
  /\ JobStep("mark", f)
  /\ UNCHANGED <<disk, marked, readers, fd, handleVars, cache, rd,
                 mixed, calls, errors>>

Mark ==
  /\ job.pc = "mark"
  /\ marked' = marked \cup {job.file}
  /\ JobStep("wait", job.file)
  /\ UNCHANGED <<disk, live, readers, fd, handleVars, cache, rd,
                 mixed, calls, errors>>

\* wait_for_readers, or its time is over; unlink_from_disk looks again.
\* Mutant: the file is unlinked whoever reads it.
AlwaysIdle(f) == TRUE
CanDelete(f) == readers[f] = 0
Wait ==
  /\ job.pc = "wait"
  /\ JobStep(IF CanDelete(job.file) THEN "close" ELSE "idle", job.file)
  /\ UNCHANGED <<disk, live, marked, readers, fd, handleVars, cache,
                 rd, mixed, calls, errors>>

Close ==
  /\ job.pc = "close"
  /\ IF CanDelete(job.file)
     THEN fd' = fd \ {job.file} /\ JobStep("remove", job.file)
     ELSE UNCHANGED fd /\ JobStep("idle", job.file)
  /\ UNCHANGED <<disk, live, marked, readers, handleVars, cache, rd,
                 mixed, calls, errors>>

RemoveFile ==
  /\ job.pc = "remove"
  /\ disk' = disk \ {job.file}
  /\ JobStep("idle", job.file)
  /\ UNCHANGED <<live, marked, readers, fd, handleVars, cache, rd,
                 mixed, calls, errors>>

Reclaim == Mark \/ Wait \/ Close \/ RemoveFile

-----------------------------------------------------------------------------
ReadStep(p) ==
  \/ CloneFlag(p) \/ Count(p) \/ Evict(p) \/ Open(p)
  \/ UseIndex(p) \/ LockIndex(p) \/ Load(p) \/ SetLoaded(p) \/ LoadFails(p)
  \/ Skip(p) \/ FromLastBlock(p) \/ FromCache(p) \/ FromFile(p) \/ ReadFails(p)
  \/ Return(p)

BeginCall(p) ==
  \E f \in Files :
    \/ \E k \in Lookups : BeginGet(p, f, k) \/ BeginSync(p, f, k)
    \/ BeginWarm(p, f) \/ BeginScan(p, f) \/ BeginAll(p, f)

Next ==
  \/ \E p \in Procs : BeginCall(p) \/ ReadStep(p)
  \/ (\E f \in Files : Install(f)) \/ Reclaim

Spec == Init /\ [][Next]_vars

-----------------------------------------------------------------------------
(* Properties                                                              *)

Done(p) == rd[p].pc = "done"

\* Whatever is evicted, cached, loaded, replaced or unlinked beside it, a call
\* that succeeds returns exactly what write_entries put into the file: for
\* every key that was asked for and is there its own entry, and nothing else.
\* A get fails only after an I/O error, never because the file that it pinned
\* was closed, replaced or unlinked; of a file of the older format, also when
\* it was marked meanwhile.
Faithful(p) ==
  LET there == rd[p].asked \cap DOMAIN Table[rd[p].file]
  IN  /\ rd[p].found \subseteq {<<k, k>> : k \in there}
      /\ IF rd[p].err
         THEN errors > 0 \/ rd[p].kind = "all"
                \/ rd[p].file \in Legacy \cap marked
         ELSE {e[1] : e \in rd[p].found} = there
                \/ (rd[p].kind = "scan" /\ errors > 0)
LookupIsFaithful ==
  ~mixed => \A p \in Procs : Done(p) => Faithful(p)

\* A handle whose index_loaded is set holds the index, clones included.
LoadedMeansIndexed ==
  /\ loaded \subseteq index
  /\ \A p \in Procs : rd[p].loaded => rd[p].index

\* A get that has pinned its file does not fail because a compaction reclaims
\* that file.
PinnedGetSucceeds ==
  \A p \in Procs : Done(p) /\ rd[p].kind = "get" /\ rd[p].err => errors > 0

\* reader_count is the number of pins that are held, on error paths too: it
\* neither leaks, which would keep a file for ever, nor wraps.
PinsBalance ==
  \A f \in Files :
    readers[f] = Cardinality({p \in Procs : rd[p].file = f /\ rd[p].pinned})

\* The block cache can always evict, and never subtracts what it did not add,
\* although two calls that miss the same block both put it.
CacheStaysConsistent == CacheConsistent(cache, SizeOf)

\* current_size is what the cached blocks take.
UsageIsExact == cache.size = Total(cache.blocks, SizeOf)
=============================================================================
