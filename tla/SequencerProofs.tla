--------------------------- MODULE SequencerProofs ---------------------------
(***************************************************************************)
(* Proofs about Sequencer, for any number of flushers, entries, crashes    *)
(* and errors.                                                             *)
(***************************************************************************)
EXTENDS Sequencer, WellFoundedInduction, TLAPS

\* A non-empty set of naturals has a least element.
LEMMA LeastNat ==
  ASSUME NEW S \in SUBSET Nat, S # {}
  PROVE  \E m \in S : \A j \in S : m <= j
<1>1. PICK m \in S : \A j \in S : ~(<<j, m>> \in OpToRel(<, Nat))
  BY NatLessThanWellFounded, WFMin
<1>2. \A j \in S : ~(j < m)
  BY <1>1 DEF OpToRel
<1>3. QED
  BY <1>2

\* A bounded non-empty set of naturals has a greatest element, which is what
\* Max returns.
LEMMA MaxNat ==
  ASSUME NEW S \in SUBSET Nat, S # {}, NEW n \in Nat, \A x \in S : x <= n
  PROVE  Max(S) \in S /\ \A x \in S : x <= Max(S)
<1> DEFINE D == {d \in Nat : n - d \in S}
<1>1. D \in SUBSET Nat /\ D # {}
  <2>1. PICK x \in S : TRUE
    OBVIOUS
  <2>2. n - x \in Nat /\ n - (n - x) = x
    BY <2>1
  <2>3. QED
    BY <2>1, <2>2
<1>2. PICK m \in D : \A d \in D : m <= d
  <2> HIDE DEF D
  <2>1. QED
    BY <1>1, LeastNat
<1>3. n - m \in S
  BY <1>2
<1>4. ASSUME NEW x \in S PROVE n - m >= x
  <2>1. n - x \in Nat /\ n - (n - x) = x
    BY <1>4
  <2>2. m <= n - x
    BY <1>2, <1>4, <2>1
  <2>3. QED
    BY <1>1, <1>2, <1>4, <2>1, <2>2
<1>5. \E x \in S : \A y \in S : x >= y
  BY <1>3, <1>4
<1>6. Max(S) \in S /\ \A y \in S : Max(S) >= y
  BY <1>5 DEF Max
<1>7. QED
  BY <1>6

USE DEF bounds, Goto, FetchAdd

\* What load_existing_sstables resumes at is above every name and every
\* name + entry_count, not below SEQUENCE, and not above the counter.
LEMMA RestartBounds ==
  ASSUME TypeOK, NamesInv
  PROVE  /\ ScanNext \in Nat /\ ScanNext > 0
         /\ RestartSeq \in Nat /\ RestartSeq > 0 /\ RestartSeq >= seqFile
         /\ \A f \in files : f.name < RestartSeq
         /\ \A f \in files : f.ok => f.name + f.count < RestartSeq
         /\ RestartSeq <= seq \/ (seq = 0 /\ RestartSeq = 1)
<1> DEFINE S == {0} \cup Names \cup {f.name + f.count : f \in {g \in files : g.ok}}
<1>0. /\ seq \in Nat /\ seqFile \in Nat /\ seqFile <= seq
      /\ \A f \in files : f.name \in Nat /\ f.count \in Nat
  BY SequencerAssumption DEF TypeOK, SstFile, NamesInv
<1>1. S \in SUBSET Nat /\ S # {} /\ (\A x \in S : x <= seq)
  BY <1>0 DEF NamesInv, Names
<1>2. \A x \in S : x < seq \/ x = 0
  BY <1>0 DEF NamesInv, Names
<1>3. Max(S) \in S /\ \A x \in S : x <= Max(S)
  <2> HIDE DEF S
  <2>1. QED
    BY <1>0, <1>1, MaxNat
<1>4. ScanNext = Max(S) + 1
  BY DEF ScanNext
<1>5. ScanNext \in Nat /\ ScanNext > 0 /\ (ScanNext <= seq \/ ScanNext = 1)
  <2>1. PICK m \in Nat : m = Max(S) /\ (m < seq \/ m = 0)
    BY <1>1, <1>2, <1>3
  <2>2. ScanNext = m + 1
    BY <1>4, <2>1
  <2>3. QED
    BY <1>0, <2>1, <2>2
<1>6. /\ \A f \in files : f.name < ScanNext
      /\ \A f \in files : f.ok => f.name + f.count < ScanNext
  <2>1. \A x \in S : x < ScanNext
    <3>1. PICK m \in Nat : m = Max(S)
      BY <1>1, <1>3
    <3>2. ScanNext = m + 1 /\ \A x \in S : x <= m
      BY <1>3, <1>4, <3>1
    <3>3. QED
      BY <1>1, <3>1, <3>2
  <2>2. QED
    BY <2>1 DEF Names
<1>7. RestartSeq \in {ScanNext, seqFile} /\ RestartSeq >= ScanNext /\ RestartSeq >= seqFile
  <2>1. {ScanNext, seqFile} \in SUBSET Nat /\ {ScanNext, seqFile} # {}
        /\ \A x \in {ScanNext, seqFile} : x <= ScanNext + seqFile
    BY <1>0, <1>5
  <2>2. ScanNext + seqFile \in Nat
    BY <1>0, <1>5
  <2>3. QED
    BY <2>1, <2>2, MaxNat DEF RestartSeq
<1>8. QED
  BY <1>0, <1>5, <1>6, <1>7

\* The values that files and flushes start from are well typed.
LEMMA NoFileType == NoFile \in SstFile
  BY SequencerAssumption DEF NoFile, SstFile

\* A torn file is the file under way, except that it does not open.
LEMMA TornFile ==
  ASSUME NEW t, cur[t] \in SstFile
  PROVE  /\ Torn(t) \in SstFile /\ ~Torn(t).ok
         /\ Torn(t).name = cur[t].name /\ Torn(t).count = cur[t].count
  BY DEF Torn, SstFile

\* Stamping changes the highest stamp of the file under way only.
LEMMA StampFile ==
  ASSUME TypeOK, NEW t \in Flushers, Stamp(t)
  PROVE  /\ cur' \in [Flushers -> SstFile]
         /\ \A u \in Flushers : u # t => cur'[u] = cur[u]
         /\ cur'[t].name = cur[t].name /\ cur'[t].count = cur[t].count
         /\ cur'[t].ok = cur[t].ok /\ cur'[t].top = seq
<1>1. cur \in [Flushers -> SstFile] /\ seq \in 0..MaxSeq
  BY DEF TypeOK
<1>2. cur' = [cur EXCEPT ![t] = [cur[t] EXCEPT !.top = seq]]
  BY <1>1 DEF Stamp
<1>3. [cur[t] EXCEPT !.top = seq] \in SstFile
  BY <1>1 DEF SstFile
<1>4. QED
  BY <1>1, <1>2, <1>3 DEF SstFile

\* What a restart leaves: the counter is above every name on disk.
LEMMA RestartSeqs ==
  ASSUME TypeOK, NamesInv, NEW T \in SUBSET Flushers, CrashRestart(T)
  PROVE  /\ seq' \in Nat /\ seq' >= RestartSeq /\ (seq' <= seq \/ seq' = 1)
         /\ \A t \in T : cur[t].name < seq'
         /\ seqFile' \in {seqFile, seq'} /\ seqFile' <= seq'
         /\ persistErrors \in Nat
         /\ persistErrors' = 0 => persistErrors = 0 /\ seqFile' = seq'
<1> DEFINE S == {RestartSeq} \cup {cur[t].name + 1 : t \in T}
<1>0. /\ seq \in Nat /\ \A t \in T : cur[t].name \in Nat /\ pc[t] = "write"
  BY SequencerAssumption DEF TypeOK, SstFile, CrashRestart
<1>1. \A t \in T : cur[t].name + 1 <= seq
  BY <1>0 DEF NamesInv
<1>2. RestartSeq \in Nat /\ (RestartSeq <= seq \/ RestartSeq = 1)
  BY RestartBounds
<1>3. S \in SUBSET Nat /\ S # {} /\ (\A x \in S : x <= seq + 1)
      /\ (\A x \in S : x <= seq \/ x = 1)
  BY <1>0, <1>1, <1>2
<1>4. Max(S) \in S /\ \A x \in S : x <= Max(S)
  <2>1. seq + 1 \in Nat
    BY <1>0
  <2> HIDE DEF S
  <2>2. QED
    BY <1>3, <2>1, MaxNat
<1>5. seq' = Max(S) /\ seqFile' \in {seqFile, seq'}
      /\ persistErrors \in Nat
      /\ (persistErrors' = 0 => persistErrors = 0 /\ seqFile' = seq')
  BY SequencerAssumption DEF CrashRestart, TypeOK
<1>6. PICK m \in Nat : m = Max(S)
  BY <1>3, <1>4
<1>7. seq' = m /\ m \in S /\ \A x \in S : x <= m
  BY <1>4, <1>5, <1>6
<1>8. RestartSeq \in S /\ \A t \in T : cur[t].name + 1 \in S
  OBVIOUS
<1>9. seq' \in Nat /\ (seq' <= seq \/ seq' = 1) /\ seq' >= RestartSeq
  BY <1>0, <1>2, <1>3, <1>7, <1>8
<1>10. \A t \in T : cur[t].name + 1 <= seq'
  BY <1>7, <1>8
<1>11. ASSUME NEW t \in T PROVE cur[t].name < seq'
  BY <1>0, <1>9, <1>10
<1>12. seqFile' <= seq'
  BY <1>0, <1>2, <1>5, <1>9, RestartBounds DEF TypeOK
<1>13. QED
  BY <1>5, <1>9, <1>11, <1>12

\* Compaction keeps the highest of the stamps that it merges.
LEMMA MergedStamp ==
  ASSUME TypeOK, NEW S \in SUBSET live, Compact(S)
  PROVE  /\ merged' \in {merged} \cup {f.top : f \in S}
         /\ merged' \in 0..MaxSeq
<1> DEFINE M == {merged} \cup {f.top : f \in S}
<1>1. M \in SUBSET Nat /\ M # {} /\ (\A x \in M : x <= MaxSeq) /\ MaxSeq \in Nat
  BY SequencerAssumption DEF TypeOK, SstFile
<1>2. Max(M) \in M
  <2> HIDE DEF M
  <2>1. QED
    BY <1>1, MaxNat
<1>3. merged' = Max(M)
  BY DEF Compact
<1>4. QED
  BY <1>1, <1>2, <1>3

\* Every step keeps the state well typed and each name in one use.
LEMMA NamesStep == TypeOK /\ NamesInv /\ [Next]_vars => TypeOK' /\ NamesInv'
<1> SUFFICES ASSUME TypeOK, NamesInv, [Next]_vars PROVE TypeOK' /\ NamesInv'
  OBVIOUS
<1> USE SequencerAssumption, NoFileType
<1>0. /\ \A f \in files : f \in SstFile
      /\ \A t \in Flushers : cur[t] \in SstFile
      /\ \A f \in SstFile : f.name \in Nat /\ f.count \in Nat /\ f.top \in Nat
      /\ seq \in Nat /\ seqFile \in Nat /\ merged \in Nat
      /\ left \in [Flushers -> Nat] /\ hw \in [Flushers -> Nat]
      /\ seq <= MaxSeq
  BY DEF TypeOK, SstFile
<1>1. ASSUME NEW t \in Flushers, NEW n \in 1..MaxEntries, TakeName(t, n)
      PROVE  TypeOK' /\ NamesInv'
  <2>1. seq \notin Names
    BY <1>0 DEF NamesInv, Names
  <2> DEFINE new == [name |-> seq, count |-> n, top |-> 0, ok |-> TRUE]
  <2>2. /\ pc[t] = "idle" /\ seq + n < MaxSeq /\ seq' = seq + 1
        /\ cur' = [cur EXCEPT ![t] = new] /\ left' = [left EXCEPT ![t] = n]
        /\ pc' = [pc EXCEPT ![t] = "stamp"]
        /\ UNCHANGED <<seqFile, files, live, merged, hw, bounds>>
    BY <1>1, <2>1 DEF TakeName
  <2>3. new \in SstFile /\ new.name = seq /\ new.count = n
    BY <1>0, <2>2 DEF SstFile
  <2> HIDE DEF new
  <2>4. TypeOK'
    BY <1>0, <2>2, <2>3 DEF TypeOK
  <2>5. NamesInv'
    BY <1>0, <2>1, <2>2, <2>3 DEF NamesInv, Names, TypeOK
  <2>6. QED
    BY <2>4, <2>5
<1>2. ASSUME NEW t \in Flushers, Stamp(t)
      PROVE  TypeOK' /\ NamesInv'
  <2>1. /\ pc[t] = "stamp" /\ seq < MaxSeq /\ seq' = seq + 1
        /\ left' = [left EXCEPT ![t] = @ - 1]
        /\ pc' = IF left[t] = 1 THEN [pc EXCEPT ![t] = "write"] ELSE pc
        /\ UNCHANGED <<seqFile, files, live, merged, hw, bounds>>
    BY <1>2 DEF Stamp
  <2>2. /\ cur' \in [Flushers -> SstFile]
        /\ \A u \in Flushers : u # t => cur'[u] = cur[u]
        /\ cur'[t].name = cur[t].name /\ cur'[t].count = cur[t].count
    BY <1>2, StampFile
  <2>3. left[t] > 0 /\ left[t] \in 0..MaxEntries
    BY <2>1 DEF NamesInv, TypeOK
  <2>4. TypeOK'
    <3>1. left' \in [Flushers -> 0..MaxEntries]
      BY <2>1, <2>3 DEF TypeOK
    <3>2. pc' \in [Flushers -> {"idle", "stamp", "write", "load", "persist", "open"}]
      BY <2>1 DEF TypeOK
    <3>3. seq' \in 0..MaxSeq
      BY <1>0, <2>1
    <3>4. QED
      BY <2>1, <2>2, <3>1, <3>2, <3>3 DEF TypeOK
  <2>5. NamesInv'
    BY <1>0, <2>1, <2>2, <2>3 DEF NamesInv, Names, TypeOK
  <2>6. QED
    BY <2>4, <2>5
<1>3. ASSUME NEW t \in Flushers, WriteFile(t)
      PROVE  TypeOK' /\ NamesInv'
  BY <1>0, <1>3 DEF WriteFile, TypeOK, NamesInv, Names, SstFile
<1>4. ASSUME NEW t \in Flushers, WriteFails(t)
      PROVE  TypeOK' /\ NamesInv'
  <2>1. /\ pc[t] = "write" /\ files' = files \cup {Torn(t)} /\ ioErrors < MaxIoErrors
        /\ ioErrors' = ioErrors + 1 /\ pc' = [pc EXCEPT ![t] = "idle"]
        /\ cur' = [cur EXCEPT ![t] = NoFile] /\ hw' = [hw EXCEPT ![t] = 0]
        /\ UNCHANGED <<seq, seqFile, live, merged, left, crashes, persistErrors>>
    BY <1>4 DEF WriteFails, Done
  <2>2. /\ Torn(t) \in SstFile /\ ~Torn(t).ok
        /\ Torn(t).name = cur[t].name /\ Torn(t).count = cur[t].count
    BY <1>0, TornFile
  <2>3. TypeOK'
    BY <1>0, <2>1, <2>2 DEF TypeOK
  <2>4. NamesInv'
    BY <1>0, <2>1, <2>2 DEF NamesInv, Names, TypeOK
  <2>5. QED
    BY <2>3, <2>4
<1>5. ASSUME NEW t \in Flushers, LoadHighWater(t)
      PROVE  TypeOK' /\ NamesInv'
  BY <1>0, <1>5 DEF LoadHighWater, TypeOK, NamesInv, Names, SstFile
<1>6. ASSUME NEW t \in Flushers, Persist(t)
      PROVE  TypeOK' /\ NamesInv'
  BY <1>0, <1>6 DEF Persist, TypeOK, NamesInv, Names, SstFile
<1>7. ASSUME NEW t \in Flushers, PersistFails(t)
      PROVE  TypeOK' /\ NamesInv'
  BY <1>0, <1>7 DEF PersistFails, TypeOK, NamesInv, Names, SstFile
<1>8. ASSUME NEW t \in Flushers, Publish(t)
      PROVE  TypeOK' /\ NamesInv'
  BY <1>0, <1>8 DEF Publish, Done, NoFile, TypeOK, NamesInv, Names, SstFile
<1>9. ASSUME NEW t \in Flushers, OpenFails(t)
      PROVE  TypeOK' /\ NamesInv'
  BY <1>0, <1>9 DEF OpenFails, Done, NoFile, TypeOK, NamesInv, Names, SstFile
<1>10. ASSUME NEW S \in SUBSET live, Compact(S)
      PROVE  TypeOK' /\ NamesInv'
  <2>1. /\ files' = files \ S /\ live' = live \ S
        /\ UNCHANGED <<seq, seqFile, pc, cur, left, hw, bounds>>
    BY <1>10 DEF Compact
  <2>2. merged' \in 0..MaxSeq
    BY <1>10, MergedStamp
  <2>3. TypeOK'
    BY <2>1, <2>2 DEF TypeOK
  <2>4. NamesInv'
    BY <1>0, <2>1 DEF NamesInv, Names, TypeOK
  <2>5. QED
    BY <2>3, <2>4
<1>11. ASSUME NEW T \in SUBSET Flushers, CrashRestart(T)
      PROVE  TypeOK' /\ NamesInv'
  <2>1. /\ crashes < MaxCrashes /\ crashes' = crashes + 1
        /\ \A t \in T : pc[t] = "write"
        /\ files' = files \cup {Torn(t) : t \in T} /\ live' \subseteq files
        /\ pc' = [t \in Flushers |-> "idle"] /\ cur' = [t \in Flushers |-> NoFile]
        /\ left' = [t \in Flushers |-> 0] /\ hw' = [t \in Flushers |-> 0]
        /\ persistErrors' \in {persistErrors, persistErrors + 1}
        /\ persistErrors' # persistErrors => persistErrors < MaxPersistErrors
        /\ UNCHANGED <<merged, ioErrors>>
    BY <1>11 DEF CrashRestart
  <2>2. \A t \in T : /\ Torn(t) \in SstFile /\ ~Torn(t).ok
                    /\ Torn(t).name = cur[t].name /\ Torn(t).count = cur[t].count
    BY <1>0, TornFile
  <2>3. /\ seq' \in Nat /\ seq' >= RestartSeq /\ (seq' <= seq \/ seq' = 1)
        /\ \A t \in T : cur[t].name < seq'
        /\ seqFile' \in {seqFile, seq'} /\ seqFile' <= seq'
    BY <1>11, RestartSeqs
  <2>4. /\ RestartSeq \in Nat
        /\ \A f \in files : f.name < RestartSeq
        /\ \A f \in files : f.ok => f.name + f.count < RestartSeq
    BY RestartBounds
  <2>5. seq' \in 0..MaxSeq
    BY <1>0, <2>3
  <2>6. TypeOK'
    BY <1>0, <2>1, <2>2, <2>3, <2>5 DEF TypeOK
  <2>7. \A f \in files' : f.name < seq' /\ (f.ok => f.name + f.count < seq')
    BY <1>0, <2>1, <2>2, <2>3, <2>4
  <2>8. NamesInv'
    BY <1>0, <2>1, <2>3, <2>7 DEF NamesInv
  <2>9. QED
    BY <2>6, <2>8
<1>12. CASE UNCHANGED vars
  BY <1>12 DEF vars, TypeOK, NamesInv, Names, SstFile
<1>13. QED
  BY <1>1, <1>2, <1>3, <1>4, <1>5, <1>6, <1>7, <1>8, <1>9, <1>10, <1>11, <1>12 DEF Next, FlushStep

\* One flush at a time: what the code relies on when it takes
\* name + entry_count for the highest stamp of a file.
OneFlushAtATime == \A t, u \in Flushers : t = u

\* Every step then keeps all stamps covered by a name or by SEQUENCE.
LEMMA StampsStep ==
  ASSUME OneFlushAtATime
  PROVE  TypeOK /\ NamesInv /\ StampsInv /\ [Next]_vars => StampsInv'
<1> SUFFICES ASSUME TypeOK, NamesInv, StampsInv, [Next]_vars PROVE StampsInv'
  OBVIOUS
<1> USE SequencerAssumption DEF OneFlushAtATime
<1>0. /\ \A f \in files : f.name \in Nat /\ f.count \in Nat /\ f.top \in Nat
      /\ \A t \in Flushers : /\ cur[t].name \in Nat /\ cur[t].count \in Nat
                             /\ cur[t].top \in Nat /\ cur[t] \in SstFile
      /\ seq \in Nat /\ seqFile \in Nat /\ merged \in Nat
      /\ left \in [Flushers -> Nat] /\ hw \in [Flushers -> Nat]
      /\ live \subseteq files /\ persistErrors \in Nat
      /\ \A t, u \in Flushers : t = u
      /\ cur \in [Flushers -> SstFile]
      /\ pc \in [Flushers -> {"idle", "stamp", "write", "load", "persist", "open"}]
  BY DEF TypeOK, SstFile
<1>1. ASSUME NEW t \in Flushers, NEW n \in 1..MaxEntries, TakeName(t, n)
      PROVE  StampsInv'
  <2>1. seq \notin Names
    BY <1>0 DEF NamesInv, Names
  <2> DEFINE new == [name |-> seq, count |-> n, top |-> 0, ok |-> TRUE]
  <2>2. /\ pc[t] = "idle" /\ seq' = seq + 1
        /\ cur' = [cur EXCEPT ![t] = new] /\ left' = [left EXCEPT ![t] = n]
        /\ pc' = [pc EXCEPT ![t] = "stamp"]
        /\ UNCHANGED <<seqFile, files, live, merged, hw, bounds>>
    BY <1>1, <2>1 DEF TakeName
  <2>3. new.name = seq /\ new.count = n /\ new.ok
    OBVIOUS
  <2>4. \A f \in files : f.name < seq /\ (f.ok => f.top < seq)
    BY <1>0 DEF NamesInv, StampsInv
  <2>5. merged # 0 /\ persistErrors = 0 => merged < seq
    BY <1>0 DEF NamesInv, StampsInv
  <2> HIDE DEF new
  <2>6. /\ cur'[t] = new /\ left'[t] = n /\ pc'[t] = "stamp" /\ n \in Nat /\ n > 0
    BY <1>0, <2>2
  <2>7. QED
    BY <1>0, <2>2, <2>3, <2>4, <2>5, <2>6 DEF StampsInv
<1>2. ASSUME NEW t \in Flushers, Stamp(t)
      PROVE  StampsInv'
  <2>1. /\ pc[t] = "stamp" /\ seq' = seq + 1 /\ left'[t] = left[t] - 1
        /\ pc'[t] \in {"stamp", "write"}
        /\ UNCHANGED <<seqFile, files, live, merged, hw, bounds>>
    BY <1>0, <1>2 DEF Stamp
  <2>2. /\ cur'[t].name = cur[t].name /\ cur'[t].count = cur[t].count
        /\ cur'[t].ok = cur[t].ok /\ cur'[t].top = seq
    BY <1>2, StampFile
  <2>3. left[t] > 0 /\ cur[t] \notin files
    BY <2>1 DEF NamesInv, Names
  <2>4. QED
    BY <1>0, <2>1, <2>2, <2>3 DEF StampsInv
<1>3. ASSUME NEW t \in Flushers, WriteFile(t)
      PROVE  StampsInv'
  BY <1>0, <1>3 DEF WriteFile, NamesInv, StampsInv
<1>4. ASSUME NEW t \in Flushers, WriteFails(t)
      PROVE  StampsInv'
  <2>1. /\ pc[t] = "write" /\ files' = files \cup {Torn(t)} /\ pc'[t] = "idle"
        /\ UNCHANGED <<seq, seqFile, live, merged, persistErrors>>
    BY <1>0, <1>4 DEF WriteFails, Done
  <2>2. ~Torn(t).ok
    BY <1>0, TornFile
  <2>3. QED
    BY <1>0, <2>1, <2>2 DEF StampsInv
<1>5. ASSUME NEW t \in Flushers, LoadHighWater(t)
      PROVE  StampsInv'
  BY <1>0, <1>5 DEF LoadHighWater, NamesInv, StampsInv
<1>6. ASSUME NEW t \in Flushers, Persist(t)
      PROVE  StampsInv'
  BY <1>0, <1>6 DEF Persist, NamesInv, StampsInv
<1>7. ASSUME NEW t \in Flushers, PersistFails(t)
      PROVE  StampsInv'
  BY <1>0, <1>7 DEF PersistFails, NamesInv, StampsInv
<1>8. ASSUME NEW t \in Flushers, Publish(t)
      PROVE  StampsInv'
  BY <1>0, <1>8 DEF Publish, Done, NoFile, NamesInv, StampsInv
<1>9. ASSUME NEW t \in Flushers, OpenFails(t)
      PROVE  StampsInv'
  BY <1>0, <1>9 DEF OpenFails, Done, NoFile, NamesInv, StampsInv
<1>10. ASSUME NEW S \in SUBSET live, Compact(S)
      PROVE  StampsInv'
  <2>1. /\ files' = files \ S /\ live' = live \ S
        /\ UNCHANGED <<seq, seqFile, pc, cur, left, hw, bounds>>
    BY <1>10 DEF Compact
  <2>2. merged' \in {merged} \cup {f.top : f \in S}
    BY <1>10, MergedStamp
  <2>3. persistErrors = 0 /\ merged' # 0 => merged' < seqFile
    BY <1>0, <2>2 DEF StampsInv
  <2>4. \A t \in Flushers :
          pc[t] # "idle" /\ merged' # 0 /\ persistErrors = 0 => merged' < cur[t].name
    BY <1>0, <2>2 DEF StampsInv, NamesInv
  <2>5. QED
    BY <1>0, <2>1, <2>3, <2>4 DEF StampsInv
<1>11. ASSUME NEW T \in SUBSET Flushers, CrashRestart(T)
      PROVE  StampsInv'
  <2>1. /\ files' = files \cup {Torn(t) : t \in T}
        /\ live' = {f \in files : f.ok} /\ merged' = merged
        /\ \A t \in Flushers : pc'[t] = "idle"
    BY <1>11 DEF CrashRestart
  <2>2. \A t \in T : ~Torn(t).ok
    BY <1>0, TornFile
  <2>3. /\ seq' \in Nat /\ seq' >= RestartSeq
        /\ persistErrors' = 0 => persistErrors = 0 /\ seqFile' = seq'
    BY <1>11, RestartSeqs
  <2>4. /\ RestartSeq \in Nat /\ RestartSeq >= seqFile
        /\ \A f \in files : f.ok => f.name + f.count < RestartSeq
    BY RestartBounds
  <2>5. persistErrors' = 0 => \A f \in files : f.ok => f.top < seqFile'
    BY <1>0, <2>3, <2>4 DEF StampsInv
  <2>6. persistErrors' = 0 /\ merged # 0 => merged < seqFile'
    BY <1>0, <2>3, <2>4 DEF StampsInv
  <2>7. QED
    BY <2>1, <2>2, <2>5, <2>6 DEF StampsInv
<1>12. CASE UNCHANGED vars
  BY <1>12 DEF vars, NamesInv, StampsInv
<1>13. QED
  BY <1>1, <1>2, <1>3, <1>4, <1>5, <1>6, <1>7, <1>8, <1>9, <1>10, <1>11, <1>12 DEF Next, FlushStep

\* The initial state satisfies the invariants.
LEMMA InitInv == Init => TypeOK /\ NamesInv /\ StampsInv
  BY SequencerAssumption, NoFileType
  DEF Init, TypeOK, NamesInv, StampsInv, Names, NoFile

\* Type correctness, for every number of flushers, crashes and errors.
THEOREM SequencerTypes == Spec => []TypeOK
<1>1. Init => TypeOK /\ NamesInv
  BY InitInv
<1>2. TypeOK /\ NamesInv /\ [Next]_vars => TypeOK' /\ NamesInv'
  BY NamesStep
<1>3. QED
  BY <1>1, <1>2, PTL DEF Spec

\* No flush writes over an existing file, whatever fails and however many
\* flushes run at once.
THEOREM NoOverwrite == Spec => FlushNeverOverwrites
<1>1. Init => TypeOK /\ NamesInv
  BY InitInv
<1>2. TypeOK /\ NamesInv /\ [Next]_vars => TypeOK' /\ NamesInv'
  BY NamesStep
<1>3. TypeOK /\ NamesInv /\ [Next]_vars =>
        [\A t \in Flushers : WriteFile(t) \/ WriteFails(t) =>
           \A f \in files : f.name # cur[t].name]_vars
  BY DEF NamesInv, Names, WriteFile, WriteFails
<1>4. QED
  BY <1>1, <1>2, <1>3, PTL DEF Spec, FlushNeverOverwrites

\* The invariant of one flush at a time.
THEOREM StampsCovered ==
  ASSUME OneFlushAtATime
  PROVE  Spec => [](TypeOK /\ NamesInv /\ StampsInv)
<1>1. Init => TypeOK /\ NamesInv /\ StampsInv
  BY InitInv
<1>2. TypeOK /\ NamesInv /\ StampsInv /\ [Next]_vars
        => TypeOK' /\ NamesInv' /\ StampsInv'
  BY NamesStep, StampsStep
<1>3. QED
  BY <1>1, <1>2, PTL DEF Spec

\* With one flush at a time, the counter never restarts at or below a stamp
\* that is on disk, unless a write of SEQUENCE failed.
THEOREM CounterSurvivesCrash ==
  ASSUME OneFlushAtATime
  PROVE  Spec => []RestartStaysAhead
<1>1. TypeOK /\ NamesInv /\ StampsInv => RestartStaysAhead
  <2> SUFFICES ASSUME TypeOK, NamesInv, StampsInv, persistErrors = 0
               PROVE  \A s \in DiskStamps : s < RestartSeq
    BY DEF RestartStaysAhead
  <2>1. /\ RestartSeq \in Nat /\ RestartSeq > 0 /\ RestartSeq >= seqFile
        /\ \A f \in files : f.ok => f.name + f.count < RestartSeq
    BY RestartBounds
  <2>2. merged \in Nat /\ seqFile \in Nat
    BY SequencerAssumption DEF TypeOK
  <2>3. merged < RestartSeq
    BY <2>1, <2>2 DEF StampsInv
  <2>4. QED
    BY <2>1, <2>3 DEF DiskStamps, StampsInv
<1>2. QED
  BY <1>1, StampsCovered, PTL

\* With one flush at a time, timestamp order is flush order across crashes.
THEOREM TimestampOrderIsFlushOrder ==
  ASSUME OneFlushAtATime
  PROVE  Spec => FlushIsNewest
<1>1. TypeOK /\ NamesInv /\ StampsInv /\ [Next]_vars =>
        [\A t \in Flushers : Publish(t) =>
           /\ merged # 0 /\ persistErrors = 0 => merged < cur[t].name
           /\ \A f \in live : f.top < cur[t].name]_vars
  BY DEF TypeOK, NamesInv, StampsInv, Publish
<1>2. QED
  BY <1>1, StampsCovered, PTL DEF Spec, FlushIsNewest
=============================================================================
