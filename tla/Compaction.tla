----------------------------- MODULE Compaction ------------------------------
(***************************************************************************)
(* The SSTable levels of LsmTreeEngine and the CompactionManager           *)
(* (compaction/manager.rs).  Flushes push files to level 0.  The           *)
(* background task and the post-flush call run compact_if_needed, which    *)
(* rewrites one level in place; compact() runs compact_all, which merges   *)
(* L0 and L1 into L1.  Both read a snapshot of the live map, write their   *)
(* outputs with no lock held, install them under the map's write lock and  *)
(* then unlink the inputs that no reader has pinned.  get_from_sstables    *)
(* collects indices into a level, and looks at the files one by one.       *)
(*                                                                         *)
(* A file is its level and, for each key, an entry: a timestamp (0 when    *)
(* the key is not in the file) and whether it is a tombstone.  The         *)
(* timestamp stands for the value.  Keys are numbers: only their order     *)
(* matters.  One flush stamps all its entries alike: Sequencer and         *)
(* WritePath show how stamps and memtables get there.                      *)
(***************************************************************************)
EXTENDS Naturals, Sequences, SequencesExt, FiniteSetsExt

CONSTANTS
  NumKeys,       \* number of keys
  Deletes,       \* whether flushed memtables hold tombstones
  Autos,         \* tasks that call compact_if_needed
  Manuals,       \* tasks that call compact_all
  Readers,       \* tasks that call get
  MaxL0,         \* max_sstables_per_level
  LeveledOnly,   \* strategy Leveled; otherwise a group of files is selected
  MinGroup,      \* smallest group that size-tiered selection takes
  Workloads,     \* the mixes of tasks to look at
  MaxFiles,      \* bound on the files ever created
  MaxCrashes,    \* bound on crashes
  MaxErrors      \* bound on failed merges and install-lock timeouts

ASSUME CompactionAssumption ==
  /\ NumKeys \in Nat \ {0} /\ MaxL0 \in Nat /\ MinGroup \in Nat \ {0}
  /\ MaxFiles \in Nat /\ MaxCrashes \in Nat /\ MaxErrors \in Nat
  /\ Deletes \in BOOLEAN /\ LeveledOnly \in BOOLEAN
  /\ Autos \cap Manuals = {}

Keys == 1..NumKeys
Tasks == Autos \cup Manuals

\* Workloads: everything at once; or each kind of compaction by itself and,
\* with one file and one key less, all tasks together with one fault.
\* compact_all alone has one file, or one key, less than compact_if_needed.
Everything == {[tasks |-> Tasks, readers |-> Readers, keys |-> Keys,
                files |-> MaxFiles, deletes |-> Deletes,
                faults |-> MaxCrashes + MaxErrors]}
AloneWith(T, K, n) == [tasks |-> T, readers |-> {}, keys |-> K, files |-> n,
                       deletes |-> TRUE, faults |-> 0]
Alone(T) == AloneWith(T, Keys, MaxFiles)
Together == [tasks |-> Tasks, readers |-> Readers, keys |-> {1},
             files |-> MaxFiles - 1, deletes |-> FALSE, faults |-> 1]
AloneOrTogether ==
  {Alone(Autos), AloneWith(Manuals, Keys, MaxFiles - 1),
   AloneWith(Manuals, {1}, MaxFiles), Together}

ASSUME WorkloadAssumption ==
  \A w \in Workloads :
    /\ w.tasks \subseteq Tasks /\ w.readers \subseteq Readers
    /\ w.keys \subseteq Keys /\ w.files \in 0..MaxFiles
    /\ w.deletes \in BOOLEAN /\ w.faults \in Nat

VARIABLES
  work,        \* the workload
  file,        \* the files ever created; a file's id is its place here
  disk,        \* ids of the files in data_dir
  marked,      \* ids marked for deletion
  l0, l1,      \* the live map: the lists of level 0 and level 1
  compacting,  \* the flag that admits one compact_if_needed
  job,         \* the compaction each task runs
  rd,          \* the get each reader runs
  truth,       \* key -> the entry flushed last
  crashes, errors

vars == <<work, file, disk, marked, l0, l1, compacting, job, rd, truth,
          crashes, errors>>
bounds == <<work, crashes, errors>>

Entry == [ts : 0..MaxFiles, del : BOOLEAN]
NoEntry == [ts |-> 0, del |-> FALSE]
Data == [Keys -> Entry]
Ids == 1..Len(file)

NoJob == [pc |-> "idle", level |-> 0, inputs |-> <<>>, rest |-> <<>>,
          outs |-> <<>>]
NoGet == [pc |-> "idle", key |-> 1, level |-> 0, cands |-> <<>>,
          pin |-> 0, best |-> NoEntry, floor |-> NoEntry]

-----------------------------------------------------------------------------
(* Lists.                                                                  *)

\* The members of a set of numbers in ascending order.
Ascending(S) ==
  [n \in 1..Cardinality(S) |->
     CHOOSE x \in S : Cardinality({y \in S : y < x}) = n - 1]

\* The members of a list at the places in P, in their order.
Pick(s, P) == [n \in 1..Cardinality(P) |-> s[Ascending(P)[n]]]

-----------------------------------------------------------------------------
(* Files and lookups.                                                      *)

Level(n) == IF n = 0 THEN l0 ELSE l1
At(i, k) == file[i].data[k]
Held(i) == {k \in Keys : At(i, k).ts # 0}
Smallest(i) == Min(Held(i))
Largest(i) == Max(Held(i))

\* key_may_exist: range and bloom filter, which are taken to be exact.
KeyMayExist(i, k) == k \in Held(i)

\* Of the entries for k in a set of files, the one with the highest timestamp.
Newest(S, k) ==
  LET hits == {At(i, k) : i \in {j \in S : k \in Held(j)}}
  IN  IF hits = {} THEN NoEntry
      ELSE CHOOSE e \in hits : \A f \in hits : f.ts <= e.ts

\* find_sstable_for_key: the first file whose largest key is not below k, if
\* k is in its range.
FindSstable(s, k) ==
  LET idx == {n \in DOMAIN s : Largest(s[n]) >= k}
  IN  IF idx = {} THEN {}
      ELSE {n \in {Min(idx)} : Smallest(s[n]) <= k}

\* What a get that nothing interrupts finds: level 0 by timestamp, then the
\* one candidate of level 1.
View(k) ==
  LET top == Newest(Range(l0), k)
  IN  IF top.ts # 0 THEN top
      ELSE Newest({l1[n] : n \in FindSstable(l1, k)}, k)

\* A tombstone and a missing key are the same to the caller of get.
Visible(e) == IF e.del THEN 0 ELSE e.ts

\* sort_leveled_sstables: by largest key, then smallest; the sort is stable.
Rank(i) == Largest(i) * (NumKeys + 1) + Smallest(i)
Sooner(s, m, n) == \/ Rank(s[m]) < Rank(s[n])
                   \/ Rank(s[m]) = Rank(s[n]) /\ m < n
Place(s, m) == 1 + Cardinality({j \in DOMAIN s : Sooner(s, j, m)})
SortLeveled(s) ==
  [n \in DOMAIN s |-> s[CHOOSE m \in DOMAIN s : Place(s, m) = n]]

-----------------------------------------------------------------------------
(* What a merge writes.                                                    *)

\* merge_sstables_safe and deduplicate_entries: the newest entry of each key,
\* without tombstones.
\* Mutant: the oldest entry of each key survives.
OldestEntry(S, k) ==
  LET hits == {At(i, k) : i \in {j \in S : k \in Held(j)}}
      old == CHOOSE e \in hits : \A f \in hits : e.ts <= f.ts
  IN  IF hits = {} \/ old.del THEN NoEntry ELSE old
Deduplicate(S, k) ==
  LET e == Newest(S, k) IN IF e.del THEN NoEntry ELSE e

\* create_new_sstables: the entries in key order, cut into files at the keys
\* where target_size is reached; sizes are abstract, so at any keys.
Outputs(level, S, cuts) ==
  LET kept   == {k \in Keys : Deduplicate(S, k).ts # 0}
      starts == Ascending({k \in kept : k = Min(kept) \/ k \in cuts})
      Chunk(n) == {k \in kept : /\ starts[n] <= k
                                /\ n < Len(starts) => k < starts[n + 1]}
  IN  IF kept = {} THEN <<>>
      ELSE [n \in 1..Len(starts) |->
              [level |-> level,
               data  |-> [k \in Keys |-> IF k \in Chunk(n)
                                         THEN Deduplicate(S, k)
                                         ELSE NoEntry]]]

\* The ids of files appended to `file`.
\* Mutant: a name that no file was written under.
NewIdsShifted(fs) == [n \in 1..Len(fs) |-> Len(file) + n + 1]
NewIds(fs) == [n \in 1..Len(fs) |-> Len(file) + n]

\* Whether there may be another crash or error.
MayFail == crashes + errors < work.faults

Init ==
  /\ work \in Workloads
  /\ file = <<>> /\ disk = {} /\ marked = {}
  /\ l0 = <<>> /\ l1 = <<>> /\ compacting = FALSE
  /\ job = [t \in Tasks |-> NoJob]
  /\ rd = [r \in Readers |-> NoGet]
  /\ truth = [k \in Keys |-> NoEntry]
  /\ crashes = 0 /\ errors = 0

-----------------------------------------------------------------------------
\* A flush publishes an L0 file with new entries for the keys in puts and
\* tombstones for the keys in dels.
Flush(puts, dels) ==
  /\ Len(file) < work.files
  /\ puts \cap dels = {} /\ puts \cup dels # {}
  /\ puts \cup dels \subseteq work.keys
  /\ dels # {} => work.deletes
  /\ LET ts == 1 + Max({0} \cup {truth[k].ts : k \in Keys})
         new == [k \in Keys |-> IF k \in puts \cup dels
                                THEN [ts |-> ts, del |-> k \in dels]
                                ELSE NoEntry]
     IN  /\ file' = Append(file, [level |-> 0, data |-> new])
         /\ truth' = [k \in Keys |->
                        IF new[k].ts # 0 THEN new[k] ELSE truth[k]]
  /\ disk' = disk \cup {Len(file) + 1}
  /\ l0' = Append(l0, Len(file) + 1)
  /\ UNCHANGED <<marked, l1, compacting, job, rd, bounds>>

-----------------------------------------------------------------------------
(* compact_if_needed and compact_all.                                      *)

\* should_compact_level: for Leveled, level 0 by count and level 1 by its
\* size, which is abstract; otherwise a group must be there.
ShouldCompact(level) ==
  LET s == Level(level)
  IN  IF ~LeveledOnly THEN Len(s) >= MinGroup
      ELSE IF level = 0 THEN Len(s) > MaxL0 ELSE s # <<>>

\* select_sstables_for_compaction: the whole level, or a group of its files.
Selected(s) ==
  IF LeveledOnly THEN {s}
  ELSE {Pick(s, P) : P \in {Q \in SUBSET DOMAIN s : Cardinality(Q) >= MinGroup}}

Without(s, S) == Pick(s, {n \in DOMAIN s : s[n] \notin S})

\* Win the flag, re-check the level under the write lock and clone the map.
AutoSnapshot(t, level) ==
  /\ t \in Autos /\ job[t].pc = "idle" /\ ~compacting
  /\ ShouldCompact(level)
  /\ LET s == Level(level)
     IN  \E g \in Selected(s) :
           job' = [job EXCEPT ![t] = [pc |-> "merge", level |-> level,
                                      inputs |-> g, outs |-> <<>>,
                                      rest |-> Without(s, Range(g))]]
  /\ compacting' = TRUE
  /\ UNCHANGED <<file, disk, marked, l0, l1, rd, truth, bounds>>

\* compact_all takes the unmarked files of both levels, whatever compacting
\* says: two files of level 0, or any that is not compressed yet.
ManualSnapshot(t) ==
  /\ t \in Manuals /\ job[t].pc = "idle"
  /\ LET inputs == Without(l0 \o l1, marked)
     IN  /\ inputs # <<>>
         /\ job' = [job EXCEPT ![t] = [pc |-> "merge", level |-> 1,
                                       inputs |-> inputs, outs |-> <<>>,
                                       rest |-> <<>>]]
  /\ UNCHANGED <<file, disk, marked, l0, l1, compacting, rd, truth, bounds>>

\* The task returns; compact_if_needed gives the flag back.
Abandon(t) ==
  /\ job' = [job EXCEPT ![t] = NoJob]
  /\ compacting' = (compacting /\ t \notin Autos)

\* Read the inputs and write the outputs.  An input that is marked or gone
\* ends the compaction with an error.
Readable(t) == Range(job[t].inputs) \subseteq disk \ marked
Merge(t, cuts) ==
  /\ job[t].pc = "merge" /\ Readable(t)
  /\ LET outs == Outputs(job[t].level, Range(job[t].inputs), cuts)
     IN  /\ Len(file) + Len(outs) <= work.files
         /\ file' = file \o outs
         /\ disk' = disk \cup Range(NewIds(outs))
         /\ job' = [job EXCEPT ![t].pc = "install", ![t].outs = NewIds(outs)]
  /\ UNCHANGED <<marked, l0, l1, compacting, rd, truth, bounds>>

MergeAborts(t) ==
  /\ job[t].pc = "merge" /\ ~Readable(t)
  /\ Abandon(t)
  /\ UNCHANGED <<file, disk, marked, l0, l1, rd, truth, bounds>>

\* Writing an output fails: the outputs before it stay in data_dir.
MergeFails(t, cuts) ==
  /\ job[t].pc = "merge" /\ Readable(t) /\ MayFail /\ errors < MaxErrors
  /\ errors' = errors + 1
  /\ LET outs == Outputs(job[t].level, Range(job[t].inputs), cuts)
     IN  \E n \in 0..Len(outs) :
           /\ Len(file) + n <= work.files
           /\ file' = file \o SubSeq(outs, 1, n)
           /\ disk' = disk \cup Range(NewIds(SubSeq(outs, 1, n)))
  /\ Abandon(t)
  /\ UNCHANGED <<marked, l0, l1, rd, truth, work, crashes>>

\* Files that were published while the merge ran.
\* Mutants: they are dropped from the level; the inputs stay in the level.
NoConcurrent(t, s) == <<>>
ConcurrentKeepsInputs(t, s) == Without(s, marked)
Concurrent(t, s) ==
  Without(s, Range(job[t].inputs) \cup Range(job[t].rest) \cup marked)

\* Install under the write lock: compact_if_needed replaces its level,
\* compact_all both.  compacting is dropped before the inputs are reclaimed.
Install(t) ==
  /\ job[t].pc = "install"
  /\ LET j == job[t] IN
     IF t \in Autos
     THEN /\ IF j.level = 0
             THEN l0' = j.rest \o j.outs \o Concurrent(t, l0) /\ UNCHANGED l1
             ELSE l1' = j.rest \o j.outs \o Concurrent(t, l1) /\ UNCHANGED l0
          /\ compacting' = FALSE
     ELSE /\ l0' = Concurrent(t, l0)
          /\ l1' = SortLeveled(j.outs \o Concurrent(t, l1))
          /\ UNCHANGED compacting
  /\ job' = [job EXCEPT ![t].pc = "mark"]
  /\ UNCHANGED <<file, disk, marked, rd, truth, bounds>>

\* The install lock times out: inputs stay live, outputs stay in data_dir.
InstallTimesOut(t) ==
  /\ job[t].pc = "install" /\ MayFail /\ errors < MaxErrors
  /\ errors' = errors + 1
  /\ Abandon(t)
  /\ UNCHANGED <<file, disk, marked, l0, l1, rd, truth, work, crashes>>

\* reclaim_compacted_inputs: mark every input ...
Mark(t) ==
  /\ job[t].pc = "mark"
  /\ marked' = marked \cup Range(job[t].inputs)
  /\ job' = [job EXCEPT ![t].pc = "unlink"]
  /\ UNCHANGED <<file, disk, l0, l1, compacting, rd, truth, bounds>>

\* ... and one after the other unlink it, unless a reader holds it longer
\* than the wait.
\* Mutant of Pinned: pins are not looked at.
PinnedByNone == {}
Pinned == {rd[r].pin : r \in Readers} \ {0}
Unlink(t) ==
  /\ job[t].pc = "unlink" /\ job[t].inputs # <<>>
  /\ disk' = IF Head(job[t].inputs) \in Pinned THEN disk
             ELSE disk \ {Head(job[t].inputs)}
  /\ job' = [job EXCEPT ![t].inputs = Tail(@)]
  /\ UNCHANGED <<file, marked, l0, l1, compacting, rd, truth, bounds>>

Reclaimed(t) ==
  /\ job[t].pc = "unlink" /\ job[t].inputs = <<>>
  /\ job' = [job EXCEPT ![t] = NoJob]
  /\ UNCHANGED <<file, disk, marked, l0, l1, compacting, rd, truth, bounds>>

-----------------------------------------------------------------------------
(* get_from_sstables.                                                      *)

\* candidate_indices of a level.
Candidates(level, k) ==
  LET s == Level(level)
      idx == IF level = 0 THEN DOMAIN s ELSE FindSstable(s, k)
  IN  Ascending({n \in idx : KeyMayExist(s[n], k)})

GetStart(r, k) ==
  /\ rd[r].pc \in {"idle", "done"}
  /\ rd' = [rd EXCEPT ![r] = [NoGet EXCEPT !.pc = "probe", !.key = k,
                                !.cands = Candidates(0, k),
                                !.floor = truth[k]]]
  /\ UNCHANGED <<file, disk, marked, l0, l1, compacting, job, truth, bounds>>

\* pin_sstable_clone at the next index, if the level is still that long.
GetPin(r) ==
  /\ rd[r].pc = "probe" /\ rd[r].cands # <<>>
  /\ LET n == Head(rd[r].cands)
         s == Level(rd[r].level)
     IN  rd' = [rd EXCEPT ![r].cands = Tail(@),
                          ![r].pin = IF n <= Len(s) THEN s[n] ELSE 0,
                          ![r].pc = IF n <= Len(s) THEN "read" ELSE "probe"]
  /\ UNCHANGED <<file, disk, marked, l0, l1, compacting, job, truth, bounds>>

\* lookup_pinned, and the pin is dropped.  Level 0 keeps the highest timestamp;
\* in level 1 the first hit is the answer.
GetRead(r) ==
  /\ rd[r].pc = "read"
  /\ LET hit == At(rd[r].pin, rd[r].key)
     IN  rd' = [rd EXCEPT ![r].pin = 0,
                          ![r].best = IF hit.ts >= @.ts THEN hit ELSE @,
                          ![r].pc = IF rd[r].level = 1 /\ hit.ts # 0
                                    THEN "done" ELSE "probe"]
  /\ UNCHANGED <<file, disk, marked, l0, l1, compacting, job, truth, bounds>>

\* The level is exhausted: answer, or go on with level 1.
GetNextLevel(r) ==
  /\ rd[r].pc = "probe" /\ rd[r].cands = <<>>
  /\ rd' = IF rd[r].best.ts # 0 \/ rd[r].level = 1
           THEN [rd EXCEPT ![r].pc = "done"]
           ELSE [rd EXCEPT ![r].level = 1,
                           ![r].cands = Candidates(1, rd[r].key)]
  /\ UNCHANGED <<file, disk, marked, l0, l1, compacting, job, truth, bounds>>

-----------------------------------------------------------------------------
\* A crash, and load_existing_sstables: every file in data_dir joins the level
\* in its name, level 0 in directory order, level 1 sorted.
OnDisk(level) == {i \in disk : file[i].level = level}
CrashRestart ==
  /\ MayFail /\ crashes < MaxCrashes
  /\ crashes' = crashes + 1
  /\ l0' \in SetToSeqs(OnDisk(0))
  /\ \E s \in SetToSeqs(OnDisk(1)) : l1' = SortLeveled(s)
  /\ marked' = {} /\ compacting' = FALSE
  /\ job' = [t \in Tasks |-> NoJob]
  /\ rd' = [r \in Readers |-> NoGet]
  /\ UNCHANGED <<file, disk, truth, work, errors>>

TaskStep(t) ==
  \/ (\E level \in {0, 1} : AutoSnapshot(t, level)) \/ ManualSnapshot(t)
  \/ (\E cuts \in SUBSET Keys : Merge(t, cuts) \/ MergeFails(t, cuts))
  \/ MergeAborts(t) \/ Install(t) \/ InstallTimesOut(t)
  \/ Mark(t) \/ Unlink(t) \/ Reclaimed(t)

Next ==
  \/ \E puts, dels \in SUBSET Keys : Flush(puts, dels)
  \/ \E t \in work.tasks : TaskStep(t)
  \/ \E r \in work.readers :
       \/ \E k \in work.keys : GetStart(r, k)
       \/ GetPin(r) \/ GetRead(r) \/ GetNextLevel(r)
  \/ CrashRestart

Spec == Init /\ [][Next]_vars

-----------------------------------------------------------------------------
(* Properties                                                              *)

\* Type correctness of the live map, the files and the tasks.
TypeOK ==
  /\ work \in Workloads
  /\ \A i \in Ids : file[i].level \in {0, 1} /\ file[i].data \in Data
  /\ disk \subseteq Ids /\ marked \subseteq Ids
  /\ Range(l0) \subseteq Ids /\ Range(l1) \subseteq Ids
  /\ compacting \in BOOLEAN
  /\ \A t \in Tasks :
       /\ job[t].pc \in {"idle", "merge", "install", "mark", "unlink"}
       /\ Range(job[t].inputs) \cup Range(job[t].rest) \cup Range(job[t].outs)
            \subseteq Ids
  /\ \A r \in Readers :
       /\ rd[r].pc \in {"idle", "probe", "read", "done"}
       /\ rd[r].key \in Keys /\ rd[r].pin \in Ids \cup {0}
       /\ rd[r].pc = "read" <=> rd[r].pin # 0
  /\ truth \in Data
  /\ crashes \in 0..MaxCrashes /\ errors \in 0..MaxErrors

\* Reclaim never unlinks a file that the live map still lists, although
\* several compactions snapshot, install and reclaim concurrently: no get can
\* be sent to a deleted file.
LiveFilesOnDisk == Range(l0) \cup Range(l1) \subseteq disk

\* Reclaim never unlinks a file under a reader that pinned it before it was
\* replaced.
PinnedFilesOnDisk == \A r \in Readers : rd[r].pin # 0 => rd[r].pin \in disk

\* In every state the lookup order of get_from_sstables gives each key the
\* value flushed last.
ViewIsTruth == \A k \in Keys : Visible(View(k)) = Visible(truth[k])

\* The files a restart's lookup may go to in level 1.
RestartPicks(k) ==
  LET C == {i \in OnDisk(1) : Largest(i) >= k}
  IN  {i \in C : Smallest(i) <= k /\ \A j \in C : Rank(i) <= Rank(j)}

\* What a get finds for k when the engine restarts now.
RestartView(k) ==
  LET top == Newest(OnDisk(0), k)
  IN  IF top.ts # 0 THEN {top}
      ELSE IF RestartPicks(k) = {} THEN {NoEntry}
      ELSE {At(i, k) : i \in RestartPicks(k)}

\* A restart now would change no value.
RestartIsTruth ==
  \A k \in Keys : \A e \in RestartView(k) : Visible(e) = Visible(truth[k])

\* Compaction is invisible: while compact_if_needed, or compact_all, has the
\* levels to itself, its merges, the drop of tombstones, the install beside
\* files flushed meanwhile and the reclaim change what no get returns.
CompactionIsInvisible == work.faults = 0 => ViewIsTruth

\* A crash at any point of a background compaction, reclaim included, changes
\* no value: inputs and outputs may both be in data_dir and are all loaded.
RestartIsInvisible == work = Alone(Autos) => RestartIsTruth

\* A get that runs beside compactions answers with nothing older than what had
\* been flushed when it started.
GetIsFresh ==
  \A r \in Readers : rd[r].pc = "done" =>
    \/ rd[r].best.ts >= rd[r].floor.ts
    \/ rd[r].best.ts = 0 /\ (rd[r].floor.del \/ truth[rd[r].key].del)
=============================================================================
