------------------------------ MODULE Sequencer ------------------------------
(***************************************************************************)
(* sequence_number of LsmTreeEngine: the counter that names L0 files and   *)
(* stamps their entries, and the three things it is rebuilt from after a   *)
(* crash (load_existing_sstables): the names of the L0 files, their entry  *)
(* counts, and the SEQUENCE file.  Lookups and compaction order entries by *)
(* these stamps, so a counter that restarts too low makes an old value win *)
(* over a new one.                                                         *)
(*                                                                         *)
(* A file is its name, its entry count and the highest stamp in it;        *)
(* compaction outputs have names that do not carry a sequence, and of them *)
(* only the highest stamp matters.                                         *)
(***************************************************************************)
EXTENDS Naturals, FiniteSetsExt

CONSTANTS
  Flushers,          \* tasks that flush a memtable
  MaxEntries,        \* most entries of one memtable
  MaxSeq,            \* bound on sequence_number
  MaxCrashes,        \* bound on crashes
  MaxIoErrors,       \* bound on failing SSTable writes and opens
  MaxPersistErrors   \* bound on failing writes of SEQUENCE

ASSUME SequencerAssumption ==
  /\ MaxEntries \in Nat \ {0} /\ MaxSeq \in Nat \ {0}
  /\ MaxCrashes \in Nat /\ MaxIoErrors \in Nat /\ MaxPersistErrors \in Nat

VARIABLES
  seq,      \* sequence_number: the next id to hand out
  seqFile,  \* the SEQUENCE file, 0 when it does not exist
  files,    \* flush-named files in data_dir
  live,     \* those of them in the live map
  merged,   \* highest stamp in a compaction output, 0 if there is none
  pc,       \* where each flush is
  cur,      \* the file each flush builds
  left,     \* entries it has still to stamp
  hw,       \* the counter value it read for SEQUENCE
  crashes, ioErrors, persistErrors

vars == <<seq, seqFile, files, live, merged, pc, cur, left, hw, crashes,
          ioErrors, persistErrors>>
bounds == <<crashes, ioErrors, persistErrors>>

SstFile == [name : 0..MaxSeq, count : 0..MaxEntries, top : 0..MaxSeq,
            ok : BOOLEAN]
NoFile == [name |-> 0, count |-> 0, top |-> 0, ok |-> FALSE]

\* File names in data_dir.
\* Mutant: a file that does not open is not looked at.
NamesOfReadable == {f.name : f \in {g \in files : g.ok}}
Names == {f.name : f \in files}

FetchAdd == seq' = seq + 1

Goto(t, l) == pc' = [pc EXCEPT ![t] = l]

\* The flush returns.
Done(t) ==
  /\ Goto(t, "idle")
  /\ cur' = [cur EXCEPT ![t] = NoFile]
  /\ hw' = [hw EXCEPT ![t] = 0]

\* The sequence that load_existing_sstables resumes at: past every flush name,
\* past name + entry_count of every file that opens, and not below SEQUENCE.
\* Mutant of ScanNext: only the names are looked at.
ScanNamesOnly == Max({0} \cup Names) + 1
ScanNext ==
  Max({0} \cup Names \cup {f.name + f.count : f \in {g \in files : g.ok}}) + 1
\* Mutant of RestartSeq: SEQUENCE is not read.
RestartFromScan == ScanNext
RestartSeq == Max({ScanNext, seqFile})

Init ==
  /\ seq = 1 /\ seqFile = 1  \* what the load of an empty data_dir leaves
  /\ files = {} /\ live = {} /\ merged = 0
  /\ pc = [t \in Flushers |-> "idle"]
  /\ cur = [t \in Flushers |-> NoFile]
  /\ left = [t \in Flushers |-> 0]
  /\ hw = [t \in Flushers |-> 0]
  /\ crashes = 0 /\ ioErrors = 0 /\ persistErrors = 0

-----------------------------------------------------------------------------
(* flush_memtable_entries_to_sstable                                       *)

\* Name the file of a memtable of n entries; a name that exists is skipped.
TakeName(t, n) ==
  /\ pc[t] = "idle" /\ seq + n < MaxSeq
  /\ FetchAdd
  /\ IF seq \in Names
     THEN UNCHANGED <<pc, cur, left>>
     ELSE /\ cur' = [cur EXCEPT ![t] = [name |-> seq, count |-> n, top |-> 0,
                                        ok |-> TRUE]]
          /\ left' = [left EXCEPT ![t] = n]
          /\ Goto(t, "stamp")
  /\ UNCHANGED <<seqFile, files, live, merged, hw, bounds>>

\* Stamp one entry.
Stamp(t) ==
  /\ pc[t] = "stamp" /\ seq < MaxSeq
  /\ FetchAdd
  /\ cur' = [cur EXCEPT ![t].top = seq]
  /\ left' = [left EXCEPT ![t] = @ - 1]
  /\ IF left[t] = 1 THEN Goto(t, "write") ELSE UNCHANGED pc
  /\ UNCHANGED <<seqFile, files, live, merged, hw, bounds>>

\* write_entries creates the file, writes it and syncs it.
WriteFile(t) ==
  /\ pc[t] = "write"
  /\ files' = files \cup {cur[t]}
  /\ Goto(t, "load")
  /\ UNCHANGED <<seq, seqFile, live, merged, cur, left, hw, bounds>>

\* write_entries fails after it created the file, which does not open.
Torn(t) == [cur[t] EXCEPT !.ok = FALSE]
WriteFails(t) ==
  /\ pc[t] = "write" /\ ioErrors < MaxIoErrors
  /\ ioErrors' = ioErrors + 1
  /\ files' = files \cup {Torn(t)}
  /\ Done(t)
  /\ UNCHANGED <<seq, seqFile, live, merged, left, crashes, persistErrors>>

\* persist_sequence_high_water: read the counter ...
LoadHighWater(t) ==
  /\ pc[t] = "load"
  /\ hw' = [hw EXCEPT ![t] = seq]
  /\ Goto(t, "persist")
  /\ UNCHANGED <<seq, seqFile, files, live, merged, cur, left, bounds>>

\* ... and rename a file with that value over SEQUENCE.
Persist(t) ==
  /\ pc[t] = "persist"
  /\ seqFile' = hw[t]
  /\ Goto(t, "open")
  /\ UNCHANGED <<seq, files, live, merged, cur, left, hw, bounds>>

\* A failing persist is logged and the flush goes on.
PersistFails(t) ==
  /\ pc[t] = "persist" /\ persistErrors < MaxPersistErrors
  /\ persistErrors' = persistErrors + 1
  /\ Goto(t, "open")
  /\ UNCHANGED <<seq, seqFile, files, live, merged, cur, left, hw, crashes,
                 ioErrors>>

\* Open the file and publish it to level 0.
Publish(t) ==
  /\ pc[t] = "open"
  /\ live' = live \cup {cur[t]}
  /\ Done(t)
  /\ UNCHANGED <<seq, seqFile, files, merged, left, bounds>>

\* The open or a check after it fails: the file stays in data_dir.
OpenFails(t) ==
  /\ pc[t] = "open" /\ ioErrors < MaxIoErrors
  /\ ioErrors' = ioErrors + 1
  /\ Done(t)
  /\ UNCHANGED <<seq, seqFile, files, live, merged, left, crashes,
                 persistErrors>>

-----------------------------------------------------------------------------
\* A compaction replaces live files by outputs that keep their stamps and
\* have names without a sequence, and unlinks the inputs.
\* Mutant: the unlinked inputs stay in the live map.
CompactKeepsLive(S) ==
  /\ S # {} /\ S \subseteq live
  /\ merged' = Max({merged} \cup {f.top : f \in S})
  /\ files' = files \ S
  /\ UNCHANGED <<seq, seqFile, live, pc, cur, left, hw, bounds>>
Compact(S) ==
  /\ S # {} /\ S \subseteq live
  /\ merged' = Max({merged} \cup {f.top : f \in S})
  /\ files' = files \ S
  /\ live' = live \ S
  /\ UNCHANGED <<seq, seqFile, pc, cur, left, hw, bounds>>

\* A crash, which may leave the files under way torn, and the load after it,
\* which persists the counter it resumes at unless that write fails.
CrashRestart(T) ==
  /\ crashes < MaxCrashes
  /\ crashes' = crashes + 1
  /\ T \subseteq {t \in Flushers : pc[t] = "write"}
  /\ files' = files \cup {Torn(t) : t \in T}
  /\ live' = {f \in files : f.ok}
  /\ seq' = Max({RestartSeq} \cup {cur[t].name + 1 : t \in T})
  /\ \/ seqFile' = seq' /\ UNCHANGED persistErrors
     \/ /\ persistErrors < MaxPersistErrors
        /\ persistErrors' = persistErrors + 1
        /\ UNCHANGED seqFile
  /\ pc' = [t \in Flushers |-> "idle"]
  /\ cur' = [t \in Flushers |-> NoFile]
  /\ left' = [t \in Flushers |-> 0]
  /\ hw' = [t \in Flushers |-> 0]
  /\ UNCHANGED <<merged, ioErrors>>

FlushStep(t) ==
  \/ \E n \in 1..MaxEntries : TakeName(t, n)
  \/ Stamp(t) \/ WriteFile(t) \/ WriteFails(t) \/ LoadHighWater(t)
  \/ Persist(t) \/ PersistFails(t) \/ Publish(t) \/ OpenFails(t)

Next ==
  \/ \E t \in Flushers : FlushStep(t)
  \/ \E S \in SUBSET live : Compact(S)
  \/ \E T \in SUBSET Flushers : CrashRestart(T)

Spec == Init /\ [][Next]_vars

-----------------------------------------------------------------------------
(* Properties                                                              *)

\* Type correctness of the counter, SEQUENCE and the file sets.
TypeOK ==
  /\ seq \in 0..MaxSeq /\ seqFile \in 0..MaxSeq /\ merged \in 0..MaxSeq
  /\ files \subseteq SstFile /\ live \subseteq files
  /\ pc \in [Flushers -> {"idle", "stamp", "write", "load", "persist", "open"}]
  /\ cur \in [Flushers -> SstFile]
  /\ left \in [Flushers -> 0..MaxEntries]
  /\ hw \in [Flushers -> 0..MaxSeq]
  /\ crashes \in 0..MaxCrashes /\ ioErrors \in 0..MaxIoErrors
  /\ persistErrors \in 0..MaxPersistErrors

\* The stamps that a restart makes visible.
DiskStamps == {merged} \cup {f.top : f \in {g \in files : g.ok}}

\* A crash never sets the counter back: at every instant the sequence that
\* load_existing_sstables would resume at is above every stamp on disk, also
\* when compaction has removed the files whose names carried the sequence, as
\* long as no write of SEQUENCE has failed.
RestartStaysAhead ==
  persistErrors = 0 => \A s \in DiskStamps : s < RestartSeq

\* A flush that is published is the newest: all its stamps are above those of
\* every other SSTable, across crashes, so timestamp order is flush order.
\* (For the stamps in compaction outputs, as long as no write of SEQUENCE has
\* failed; those of flushed files are carried by their names.)
FlushIsNewest ==
  [][\A t \in Flushers : Publish(t) =>
       /\ merged # 0 /\ persistErrors = 0 => merged < cur[t].name
       /\ \A f \in live : f.top < cur[t].name]_vars

\* A flush never writes over a file that exists, readable or torn, although
\* names come from a counter that crashes reset and several flushes advance.
FlushNeverOverwrites ==
  [][\A t \in Flushers : WriteFile(t) \/ WriteFails(t) =>
       \A f \in files : f.name # cur[t].name]_vars

-----------------------------------------------------------------------------
(* Inductive invariants                                                    *)

\* Names and stamps come from below the counter, and each name once.
NamesInv ==
  /\ seqFile <= seq
  /\ \A f \in files : f.name < seq /\ (f.ok => f.name + f.count < seq)
  /\ \A t \in Flushers :
       /\ hw[t] <= seq
       /\ IF pc[t] = "stamp" THEN left[t] > 0 /\ left[t] <= cur[t].count
          ELSE left[t] = 0
       /\ pc[t] # "idle" => cur[t].name + cur[t].count < seq + left[t]
                            /\ cur[t].name < seq /\ cur[t] \notin live
       /\ pc[t] \in {"stamp", "write"} => cur[t].name \notin Names
       /\ pc[t] \in {"load", "persist", "open"} => cur[t] \in files
  /\ \A t, u \in Flushers :
       pc[t] # "idle" /\ pc[u] # "idle" /\ t # u => cur[t].name # cur[u].name

\* With one flush at a time stamps are contiguous, and unless a write of
\* SEQUENCE failed every stamp that no name covers is below SEQUENCE.
StampsInv ==
  /\ \A f \in files : f.ok => f.top = f.name + f.count /\ f.count > 0
  /\ \A f \in live : f.ok
  /\ persistErrors = 0 => /\ \A f \in live : f.top < seqFile
                          /\ merged # 0 => merged < seqFile
  /\ \A t \in Flushers : pc[t] # "idle" =>
       /\ cur[t].ok /\ cur[t].count > 0 /\ left[t] <= cur[t].count
       /\ seq = cur[t].name + cur[t].count - left[t] + 1
       /\ left[t] # cur[t].count => cur[t].top = seq - 1
       /\ merged # 0 /\ persistErrors = 0 => merged < cur[t].name
       /\ \A f \in files : f = cur[t] \/ (f.name < cur[t].name /\
                                          (f.ok => f.top < cur[t].name))
       /\ pc[t] = "persist" => hw[t] = seq
       /\ pc[t] = "open" /\ persistErrors = 0 => seqFile = seq
=============================================================================
