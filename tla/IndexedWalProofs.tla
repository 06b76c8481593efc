-------------------------- MODULE IndexedWalProofs ---------------------------
(***************************************************************************)
(* Proofs about IndexedWal, for any number of keys, segments, frames,      *)
(* writes, crashes and errors, every sync mode, with and without power     *)
(* loss, and crashes at any program points.                                *)
(***************************************************************************)
EXTENDS IndexedWal, WellFoundedInduction, TLAPS

\* A non-empty set of naturals has a least element.
LEMMA LeastNat ==
  ASSUME NEW S \in SUBSET Nat, S # {}
  PROVE  \E m \in S : \A j \in S : m <= j
<1>1. PICK m \in S : \A j \in S : ~(<<j, m>> \in OpToRel(<, Nat))
  BY NatLessThanWellFounded, WFMin
<1>2. \A j \in S : ~(j < m)
  BY <1>1 DEF OpToRel
<1>3. QED
  BY <1>2

\* A bounded non-empty set of naturals has a greatest element, which is what
\* Max returns.
LEMMA MaxNat ==
  ASSUME NEW S \in SUBSET Nat, S # {}, NEW n \in Nat, \A x \in S : x <= n
  PROVE  Max(S) \in S /\ \A x \in S : x <= Max(S)
<1> DEFINE D == {d \in Nat : n - d \in S}
<1>1. D \in SUBSET Nat /\ D # {}
  <2>1. PICK x \in S : TRUE
    OBVIOUS
  <2>2. n - x \in Nat /\ n - (n - x) = x
    BY <2>1
  <2>3. QED
    BY <2>1, <2>2
<1>2. PICK m \in D : \A d \in D : m <= d
  <2> HIDE DEF D
  <2>1. QED
    BY <1>1, LeastNat
<1>3. n - m \in S
  BY <1>2
<1>4. ASSUME NEW x \in S PROVE n - m >= x
  <2>1. n - x \in Nat /\ n - (n - x) = x
    BY <1>4
  <2>2. m <= n - x
    BY <1>2, <1>4, <2>1
  <2>3. QED
    BY <1>1, <1>2, <1>4, <2>1, <2>2
<1>5. \E x \in S : \A y \in S : x >= y
  BY <1>3, <1>4
<1>6. Max(S) \in S /\ \A y \in S : Max(S) >= y
  BY <1>5 DEF Max
<1>7. QED
  BY <1>6

USE IndexedAssumption
USE DEF fileVars, segVars, callVars, dataVars, bounds

AnyHeader ==
  [gen : Nat, seg : Nat, frame : Nat, off : Nat, some : BOOLEAN]

\* The part of the type invariant that the argument uses.
RoomTypes ==
  /\ next \in Nat \ {0} /\ seg \in Nat /\ counter \in Nat \ {0} /\ dirs \subseteq Ids
  /\ slots \in [{0, 1} -> AnyHeader] /\ maybe \in [{0, 1} -> SUBSET AnyHeader]
  /\ staging \in Seq(Entry) /\ queue \in Seq(Entry) /\ ver \in 0..MaxWrites

\* Staged entries have a frame, and a crash leaves none staged, so that a
\* restart may resume at any frame, one past the last included.
RoomInv ==
  /\ RoomTypes
  /\ staging # <<>> => next <= FrameCount
  /\ pc = "down" => staging = <<>>

\* Of the two slots read_latest returns one.
LEMMA LatestType ==
  ASSUME RoomTypes
  PROVE  Latest \in AnyHeader
  BY DEF RoomTypes, Latest

\* write_slot leaves two headers in wal.idx.
LEMMA WriteSlotTypes ==
  ASSUME RoomTypes, NEW h \in AnyHeader, NEW durable \in BOOLEAN,
         WriteSlot(h, durable)
  PROVE  /\ slots' \in [{0, 1} -> AnyHeader]
         /\ maybe' \in [{0, 1} -> SUBSET AnyHeader]
<1> DEFINE g == Latest.gen + 1
           new == [h EXCEPT !.gen = g]
<1>1. g \in Nat /\ g % 2 \in {0, 1}
  BY LatestType DEF AnyHeader
<1>2. new \in AnyHeader /\ NoHeader \in AnyHeader
  BY <1>1 DEF AnyHeader, NoHeader
<1> HIDE DEF new
<1>3. slots' = [slots EXCEPT ![g % 2] = new]
  BY DEF WriteSlot, new
<1>4. slots' \in [{0, 1} -> AnyHeader]
  BY <1>1, <1>2, <1>3 DEF RoomTypes
<1>5. CASE durable
  <2>1. maybe' = [s \in {0, 1} |-> {slots'[s]}]
    BY <1>5 DEF WriteSlot
  <2>2. QED
    BY <1>4, <2>1
<1>6. CASE ~durable
  <2>1. maybe' = [maybe EXCEPT ![g % 2] = @ \cup {slots'[g % 2], NoHeader}]
    BY <1>6 DEF WriteSlot
  <2>2. QED
    BY <1>1, <1>2, <1>4, <2>1 DEF RoomTypes
<1>7. QED
  BY <1>4, <1>5, <1>6

\* scan_existing_segments returns an id.
LEMMA ScanNextType ==
  ASSUME RoomTypes
  PROVE  ScanNext \in Nat \ {0}
<1>1. {1} \cup dirs \in SUBSET Nat /\ \A x \in {1} \cup dirs : x <= MaxIds
  BY DEF RoomTypes, Ids
<1>2. Max({1} \cup dirs) \in {1} \cup dirs
  BY <1>1, MaxNat
<1>3. QED
  BY <1>1, <1>2 DEF ScanNext

\* What initialize leaves.
LEMMA RoomInit ==
  ASSUME Init
  PROVE  RoomInv
<1>1. slots \in [{0, 1} -> AnyHeader]
  BY DEF Init, AnyHeader, NoHeader
<1>2. maybe \in [{0, 1} -> SUBSET AnyHeader]
  BY <1>1 DEF Init
<1>3. dirs \subseteq Ids /\ ver \in 0..MaxWrites
  BY DEF Init, Ids
<1>4. staging \in Seq(Entry) /\ queue \in Seq(Entry)
  BY DEF Init
<1>5. QED
  BY <1>1, <1>2, <1>3, <1>4 DEF Init, RoomInv, RoomTypes

\* A put or a batch has entries of the right type.
LEMMA CallTypes ==
  ASSUME RoomTypes, NEW s \in Batches, Call(s)
  PROVE  queue' \in Seq(Entry) /\ ver' \in 0..MaxWrites
<1>1. PICK n \in 1..Cardinality(Keys) : s \in [1..n -> Keys]
  BY DEF Batches
<1>2. n \in Nat
  <2>1. CASE n \in Int
    BY <1>1, <2>1
  <2>2. QED
    BY <1>1, <2>1
<1>3. ver + 1 \in 1..MaxWrites
  BY DEF RoomTypes, Call
<1>4. QED
  BY <1>1, <1>2, <1>3 DEF Call, Entry

\* The file bytes that staged entries use are a number.
LEMMA UsedType ==
  ASSUME RoomTypes
  PROVE  Used(staging) \in Nat
  BY DEF RoomTypes, Used

\* Every step keeps RoomInv.  Staged entries grow only where a frame is free,
\* and `next` moves only when nothing is staged.
LEMMA RoomStep ==
  ASSUME RoomInv, [Next]_vars
  PROVE  RoomInv'
<1> USE DEF RoomInv
<1>1. ASSUME NEW s \in Batches, Call(s) PROVE RoomInv'
  BY <1>1, CallTypes DEF RoomTypes, Call
<1>2. CASE FlushFirst
  BY <1>2 DEF RoomTypes, FlushFirst
<1>3. CASE Full
  BY <1>3 DEF RoomTypes, Full
<1>4. CASE Stage
  <2>1. Head(queue) \in Entry /\ Tail(queue) \in Seq(Entry)
    BY <1>4 DEF RoomTypes, Stage
  <2>2. staging' \in Seq(Entry) /\ queue' \in Seq(Entry)
    BY <1>4, <2>1 DEF RoomTypes, Stage
  <2>3. next <= FrameCount /\ pc' # "down"
    BY <1>4 DEF Stage, HasCapacity
  <2>4. QED
    BY <1>4, <2>2, <2>3 DEF RoomTypes, Stage
<1>5. CASE WriteFrame
  BY <1>5 DEF RoomTypes, WriteFrame
<1>6. CASE CommitIndex
  <2> DEFINE h == [Latest EXCEPT !.frame = next, !.off = Used(staging),
                                 !.some = TRUE]
  <2>1. h \in AnyHeader
    BY LatestType, UsedType DEF RoomTypes, AnyHeader
  <2>2. WriteSlot(h, FALSE)
    BY <1>6 DEF CommitIndex
  <2> HIDE DEF h
  <2>3. slots' \in [{0, 1} -> AnyHeader] /\ maybe' \in [{0, 1} -> SUBSET AnyHeader]
    BY <2>1, <2>2, WriteSlotTypes
  <2>4. QED
    BY <1>6, <2>3 DEF RoomTypes, CommitIndex
<1>7. CASE Acknowledge
  BY <1>7 DEF RoomTypes, Acknowledge, Done
<1>8. CASE FrameFails
  BY <1>8 DEF RoomTypes, FrameFails, KeepStaging, Done
<1>9. CASE IndexFails
  BY <1>9 DEF RoomTypes, IndexFails, KeepStaging, Done
<1>10. CASE RotateDir
  <2>1. counter \in Ids /\ dirs' \subseteq Ids /\ seg' \in Nat
    <3>1. counter # 0
      BY DEF RoomTypes
    <3>2. counter \in Ids
      BY <1>10, <3>1 DEF RoomTypes, RotateDir, Ids
    <3>3. QED
      BY <1>10, <3>2 DEF RoomTypes, RotateDir
  <2>2. staging' \in Seq(Entry) /\ counter' \in Nat \ {0}
    BY <1>10 DEF RoomTypes, RotateDir
  <2>3. QED
    BY <1>10, <2>1, <2>2 DEF RoomTypes, RotateDir
<1>11. ASSUME pc = "header", NEW durable \in BOOLEAN,
              WriteSlot([Latest EXCEPT !.seg = seg], durable)
       PROVE  /\ slots' \in [{0, 1} -> AnyHeader]
              /\ maybe' \in [{0, 1} -> SUBSET AnyHeader]
  <2>1. [Latest EXCEPT !.seg = seg] \in AnyHeader
    BY LatestType DEF RoomTypes, AnyHeader
  <2>2. QED
    BY <1>11, <2>1, WriteSlotTypes
<1>12. CASE RotateHeader
  <2>1. slots' \in [{0, 1} -> AnyHeader] /\ maybe' \in [{0, 1} -> SUBSET AnyHeader]
    BY <1>11, <1>12 DEF RotateHeader
  <2>2. pc' # "down" /\ queue' \in Seq(Entry)
    <3>1. CASE op \in {"put", "batch"}
      BY <1>12, <3>1 DEF RotateHeader, RoomTypes
    <3>2. CASE op \notin {"put", "batch"}
      BY <1>12, <3>2 DEF RotateHeader, Done
    <3>3. QED
      BY <3>1, <3>2
  <2>3. QED
    BY <1>12, <2>1, <2>2 DEF RoomTypes, RotateHeader
<1>13. CASE RotateFails
  <2>1. slots' \in [{0, 1} -> AnyHeader] /\ maybe' \in [{0, 1} -> SUBSET AnyHeader]
    BY <1>11, <1>13 DEF RotateFails, RoomTypes
  <2>2. QED
    BY <1>13, <2>1 DEF RoomTypes, RotateFails, Done
<1>14. CASE FlushMemtable
  BY <1>14 DEF RoomTypes, FlushMemtable
<1>15. CASE Flush
  BY <1>15 DEF RoomTypes, Flush
<1>16. CASE FlushData
  BY <1>16 DEF RoomTypes, FlushData
<1>17. CASE WipeCurrent
  BY <1>17 DEF RoomTypes, WipeCurrent, RemoveDir
<1>18. CASE WipeIndex
  <2>1. NoHeader \in AnyHeader
    BY DEF NoHeader, AnyHeader
  <2>2. slots' \in [{0, 1} -> AnyHeader] /\ maybe' \in [{0, 1} -> SUBSET AnyHeader]
    BY <1>18, <2>1 DEF WipeIndex
  <2>3. QED
    BY <1>18, <2>2 DEF RoomTypes, WipeIndex
<1>19. ASSUME NEW i \in Ids, WipeDir(i) PROVE RoomInv'
  BY <1>19 DEF RoomTypes, WipeDir, RemoveDir
<1>20. CASE Crash
  <2>1. slots' \in [{0, 1} -> AnyHeader]
    BY <1>20 DEF RoomTypes, Crash
  <2>2. maybe' \in [{0, 1} -> SUBSET AnyHeader]
    BY <1>20, <2>1 DEF Crash
  <2>3. QED
    BY <1>20, <2>1, <2>2 DEF RoomTypes, Crash
<1>21. CASE Restart
  <2>1. next' \in Nat \ {0} /\ seg' \in Nat
    <3>1. Latest.frame \in Nat /\ Latest.seg \in Nat
      BY LatestType DEF AnyHeader
    <3> HIDE DEF RoomInv
    <3>2. CASE Resumable
      BY <1>21, <3>1, <3>2 DEF Restart, Resume
    <3>3. CASE ~Resumable
      BY <1>21, <3>3 DEF RoomInv, RoomTypes, Restart
    <3>4. QED
      BY <3>2, <3>3
  <2>2. counter' \in Nat \ {0} /\ staging' = <<>>
    BY <1>21, ScanNextType DEF Restart
  <2>3. QED
    BY <1>21, <2>1, <2>2 DEF RoomTypes, Restart
<1>22. CASE UNCHANGED vars
  BY <1>22 DEF RoomTypes, vars
<1>23. QED
  BY <1>1, <1>2, <1>3, <1>4, <1>5, <1>6, <1>7, <1>8, <1>9, <1>10, <1>12, <1>13,
     <1>14, <1>15, <1>16, <1>17, <1>18, <1>19, <1>20, <1>21, <1>22 DEF Next

\* Staged entries always have a frame to go to: flush, rotation and batches of
\* the indexed log never meet "segment full with unflushed staging".
THEOREM StagingAlwaysHasRoom == Spec => []StagingHasRoom
<1>1. RoomInv => StagingHasRoom
  BY DEF RoomInv, RoomTypes, StagingHasRoom, FrameIds
<1>2. QED
  BY RoomInit, RoomStep, <1>1, PTL DEF Spec

-----------------------------------------------------------------------------
(* Types                                                                   *)

\* Frame files lie in directories, and all directories are below the counter.
DiskInv ==
  /\ frame \in [Ids -> [FrameIds -> FrameFile]]
  /\ dirs \subseteq Ids /\ tracked \subseteq dirs
  /\ \A i \in Ids \ dirs : \A f \in FrameIds : frame[i][f].st = "absent"
  /\ seg \in dirs \cup {0} /\ seg \notin tracked
  /\ \A i \in dirs : i < counter
  /\ counter \in Nat \ {0} /\ counter <= MaxIds + 1 + errors
  /\ errors \in 0..MaxErrors /\ crashes \in 0..MaxCrashes

\* Where a call is: what is staged fits in a frame, and has a segment.
CallInv ==
  /\ next \in 1..(FrameCount + 1) /\ staging \in Seq(Entry) /\ queue \in Seq(Entry)
  /\ Len(staging) <= FrameCap
  /\ op \in {"none", "put", "batch", "flush"} /\ written \subseteq Keys /\ pc \in Pcs
  /\ pc \in {"frame", "index"} => staging # <<>>
  /\ staging # <<>> \/ queue # <<>> \/ pc = "header" => seg # 0
  /\ pc \in {"wipeAll", "down"} => seg = 0
  /\ pc = "down" => tracked = {}
  /\ pc \in {"wipe", "wipeAll"} => op = "flush"
  /\ pc \in {"idle", "down"} => op = "none"
  /\ op \notin {"put", "batch"} => queue = <<>>

\* While there is a current segment, wal.idx names one: the header of the
\* next commit is the latest with other fields.
AnySlot == Header \cup {NoHeader}
HeaderInv ==
  /\ slots \in [{0, 1} -> AnySlot] /\ maybe \in [{0, 1} -> SUBSET AnySlot]
  /\ seg # 0 /\ pc # "header" => Latest.seg # 0

DataInv ==
  /\ ver \in 0..MaxWrites
  /\ mem \in [Keys -> 0..MaxWrites] /\ sst \in [Keys -> 0..MaxWrites]
  /\ truth \in [Keys -> 0..MaxWrites]

TypesInv == RoomInv /\ DiskInv /\ CallInv /\ HeaderInv /\ DataInv

\* What is written to a frame file is one.
LEMMA FrameFiles ==
  ASSUME DiskInv, CallInv, seg # 0, next \in FrameIds
  PROVE  FileOf(staging) \in FrameFile /\ Partial \subseteq FrameFile
<1>1. HasBig(staging) \in BOOLEAN
  BY DEF HasBig
<1>2. FileOf(staging) \in FrameFile
  BY <1>1 DEF FileOf, FrameFile, CallInv
<1>3. Zero \in FrameFile /\ Blank(staging) \in FrameFile
  <2>1. <<>> \in Seq(Entry)
    OBVIOUS
  <2>2. Absent \in FrameFile
    BY <2>1 DEF Absent, FrameFile
  <2>3. QED
    BY <1>2, <2>1, <2>2 DEF Zero, Blank, FrameFile
<1>4. frame[seg][next] \in FrameFile
  BY DEF DiskInv
<1>5. Resized(frame[seg][next]) \in FrameFile
  BY <1>1, <1>4 DEF Resized, FrameFile
<1>6. QED
  BY <1>2, <1>3, <1>4, <1>5 DEF Partial

\* A bound on the counter stays one when errors are added.
LEMMA StillBelow ==
  ASSUME NEW c \in Nat, NEW e \in Nat, NEW f \in Nat, c <= MaxIds + 1 + e, f >= e
  PROVE  c <= MaxIds + 1 + f
  OBVIOUS

\* Every step keeps DiskInv.  An id that a failed rotation used up is counted
\* by the error.
LEMMA DiskStep ==
  ASSUME TypesInv, [Next]_vars
  PROVE  DiskInv'
<1> USE DEF TypesInv
<1>1. ASSUME pc = "frame" PROVE next \in FrameIds /\ seg # 0 /\ seg \in dirs /\ seg \in Ids
  BY <1>1 DEF DiskInv, CallInv, RoomInv, RoomTypes, FrameIds, Ids
<1>2. ASSUME pc = "frame", NEW g \in Partial \cup {FileOf(staging)},
             frame' = [frame EXCEPT ![seg][next] = g],
             UNCHANGED <<dirs, counter>>,
             seg' \in {0, seg}, tracked' \in {tracked, {}},
             errors' >= errors, errors' \in 0..MaxErrors,
             crashes' \in 0..MaxCrashes
      PROVE  DiskInv'
  <2>1. g \in FrameFile
    BY <1>1, <1>2, FrameFiles
  <2>2. frame' \in [Ids -> [FrameIds -> FrameFile]]
    BY <1>1, <1>2, <2>1 DEF DiskInv
  <2>3. \A i \in Ids \ dirs : frame'[i] = frame[i]
    BY <1>1, <1>2 DEF DiskInv
  <2>4. counter <= MaxIds + 1 + errors'
    <3>1. errors \in Nat /\ errors' \in Nat /\ MaxIds \in Nat /\ counter \in Nat
      BY <1>2 DEF DiskInv
    <3>2. counter <= MaxIds + 1 + errors
      BY DEF DiskInv
    <3>3. errors' >= errors
      BY <1>2
    <3>4. QED
      BY <3>1, <3>2, <3>3, StillBelow
  <2>5. dirs' \subseteq Ids /\ tracked' \subseteq dirs' /\ seg' \in dirs' \cup {0}
    BY <1>2 DEF DiskInv
  <2>6. seg' \notin tracked' /\ \A i \in dirs' : i < counter'
    BY <1>2 DEF DiskInv, Ids
  <2>7. \A i \in Ids \ dirs' : \A f \in FrameIds : frame'[i][f].st = "absent"
    BY <1>2, <2>3 DEF DiskInv
  <2>8. counter' \in Nat \ {0} /\ counter' <= MaxIds + 1 + errors'
    BY <1>2, <2>4 DEF DiskInv
  <2>9. QED
    BY <1>2, <2>2, <2>5, <2>6, <2>7, <2>8 DEF DiskInv
<1>3. CASE WriteFrame
  <2>1. /\ frame' = [frame EXCEPT ![seg][next] = FileOf(staging)]
        /\ UNCHANGED <<dirs, tracked, counter, seg, errors, crashes>>
    BY <1>3 DEF WriteFrame
  <2>2. errors' >= errors /\ errors' \in 0..MaxErrors /\ crashes' \in 0..MaxCrashes
    BY <2>1 DEF DiskInv
  <2>3. QED
    BY <1>2, <1>3, <2>1, <2>2 DEF WriteFrame
<1>4. CASE FrameFails
  <2>1. errors' >= errors /\ errors' \in 0..MaxErrors
    BY <1>4 DEF FrameFails, DiskInv
  <2>2. QED
    BY <1>2, <1>4, <2>1 DEF FrameFails, DiskInv
<1>5. CASE RotateDir
  <2>1. counter \in Ids /\ counter \notin dirs
    BY <1>5 DEF RotateDir, DiskInv, Ids
  <2>2. Sealed \subseteq dirs /\ counter \notin Sealed
    BY <2>1 DEF Sealed, DiskInv
  <2>3. QED
    BY <1>5, <2>1, <2>2 DEF RotateDir, DiskInv
<1>6. CASE RotateFails
  <2>1. Sealed \subseteq dirs /\ 0 \notin Sealed /\ 0 \notin tracked
    BY DEF Sealed, DiskInv, Ids
  <2>2. /\ errors' \in 0..MaxErrors /\ errors' = errors + 1
        /\ counter' \in {counter, counter + 1} /\ crashes' = crashes
        /\ tracked' \in {tracked, Sealed} /\ seg' = 0 /\ frame' = frame /\ dirs' = dirs
    BY <1>6 DEF RotateFails, DiskInv
  <2>3. counter' \in Nat \ {0} /\ counter' >= counter /\ counter' <= MaxIds + 1 + errors'
    BY <2>2 DEF DiskInv
  <2>4. \A i \in dirs : i < counter'
    BY <2>3 DEF DiskInv, Ids
  <2>5. QED
    BY <2>1, <2>2, <2>3, <2>4 DEF DiskInv
<1>7. ASSUME NEW i \in Ids, RemoveDir(i), UNCHANGED <<counter, errors, crashes>>,
             (seg' = seg /\ i # seg) \/ seg' = 0
      PROVE  DiskInv'
  <2>1. Absent \in FrameFile /\ Absent.st = "absent"
    <3>1. <<>> \in Seq(Entry)
      OBVIOUS
    <3>2. QED
      BY <3>1 DEF Absent, FrameFile
  <2>2. frame' \in [Ids -> [FrameIds -> FrameFile]]
    BY <1>7, <2>1 DEF RemoveDir, DiskInv
  <2>3. \A j \in Ids \ dirs' : \A f \in FrameIds : frame'[j][f].st = "absent"
    BY <1>7, <2>1 DEF RemoveDir, DiskInv
  <2>4. 0 \notin Ids
    BY DEF Ids
  <2>5. QED
    BY <1>7, <2>2, <2>3, <2>4 DEF RemoveDir, DiskInv
<1>8. CASE WipeCurrent
  <2>1. CASE seg = 0
    BY <1>8, <2>1 DEF WipeCurrent, DiskInv
  <2>2. CASE seg # 0
    BY <1>7, <1>8, <2>2 DEF WipeCurrent, DiskInv
  <2>3. QED
    BY <2>1, <2>2
<1>9. ASSUME NEW i \in Ids, WipeDir(i) PROVE DiskInv'
  <2>1. seg' = 0
    BY <1>9 DEF WipeDir, CallInv
  <2>2. QED
    BY <1>7, <1>9, <2>1 DEF WipeDir
<1>10. CASE Crash
  <2>1. /\ seg' = 0 /\ tracked' = {} /\ UNCHANGED <<dirs, counter, errors>>
        /\ crashes' \in 0..MaxCrashes
    BY <1>10 DEF Crash, DiskInv
  <2>2. CASE pc = "frame"
    <3>1. errors' >= errors /\ errors' \in 0..MaxErrors
      BY <2>1 DEF DiskInv
    <3>2. PICK g \in Partial : frame' = [frame EXCEPT ![seg][next] = g]
      BY <1>10, <2>2 DEF Crash
    <3>3. /\ g \in Partial \cup {FileOf(staging)} /\ UNCHANGED <<dirs, counter>>
          /\ seg' \in {0, seg} /\ tracked' \in {tracked, {}}
          /\ crashes' \in 0..MaxCrashes
      BY <2>1, <3>2
    <3>4. QED
      BY <1>2, <2>2, <3>1, <3>2, <3>3
  <2>3. CASE pc # "frame"
    BY <1>10, <2>1, <2>3 DEF Crash, DiskInv
  <2>4. QED
    BY <2>2, <2>3
<1>11. CASE Restart
  <2>1. UNCHANGED <<frame, dirs, tracked, errors, crashes>>
    BY <1>11 DEF Restart
  <2>2. /\ counter' \in Nat \ {0} /\ counter' <= MaxIds + 1
        /\ \A i \in dirs : i < counter'
    <3>1. {1} \cup dirs \in SUBSET Nat /\ \A x \in {1} \cup dirs : x <= MaxIds
      BY DEF DiskInv, Ids
    <3>2. /\ Max({1} \cup dirs) \in {1} \cup dirs
          /\ \A x \in {1} \cup dirs : x <= Max({1} \cup dirs)
      BY <3>1, MaxNat
    <3>3. counter' = Max({1} \cup dirs) + 1
      BY <1>11 DEF Restart, ScanNext
    <3> DEFINE m == Max({1} \cup dirs)
    <3>4. m \in Nat /\ m <= MaxIds /\ \A x \in dirs : x <= m
      BY <3>1, <3>2
    <3> HIDE DEF m
    <3>5. dirs \subseteq Nat
      BY <3>1
    <3>6. QED
      BY <3>3, <3>4, <3>5 DEF m
  <2>3. seg' \in dirs \cup {0} /\ seg' \notin tracked
    <3>1. seg = 0
      BY <1>11 DEF Restart, CallInv
    <3>2. tracked = {}
      BY <1>11 DEF Restart, CallInv
    <3>3. QED
      BY <1>11, <3>1, <3>2 DEF Restart, Resumable
  <2>4. counter' <= MaxIds + 1 + errors
    BY <2>2 DEF DiskInv
  <2>5. QED
    BY <2>1, <2>2, <2>3, <2>4 DEF DiskInv
<1>12. ASSUME UNCHANGED <<frame, dirs, tracked, seg, counter, crashes>>,
              errors' >= errors, errors' \in 0..MaxErrors
       PROVE  DiskInv'
  <2>1. counter <= MaxIds + 1 + errors'
    <3>1. errors \in Nat /\ errors' \in Nat /\ MaxIds \in Nat /\ counter \in Nat
      BY <1>12 DEF DiskInv
    <3>2. counter <= MaxIds + 1 + errors
      BY DEF DiskInv
    <3>3. errors' >= errors
      BY <1>12
    <3>4. QED
      BY <3>1, <3>2, <3>3, StillBelow
  <2>2. QED
    BY <1>12, <2>1 DEF DiskInv
<1>13. errors \in 0..MaxErrors
  BY DEF DiskInv
<1>14. CASE \/ (\E s \in Batches : Call(s))
            \/ FlushFirst \/ Full \/ Stage \/ CommitIndex \/ Acknowledge
            \/ RotateHeader \/ FlushMemtable \/ Flush \/ FlushData \/ WipeIndex
            \/ UNCHANGED vars
  <2>1. UNCHANGED <<frame, dirs, tracked, seg, counter, crashes, errors>>
    BY <1>14 DEF Call, FlushFirst, Full, Stage, CommitIndex, Acknowledge,
      RotateHeader, FlushMemtable, Flush, FlushData, WipeIndex, vars
  <2>2. errors' >= errors
    BY <1>13, <2>1
  <2>3. QED
    BY <1>12, <1>13, <2>1, <2>2
<1>15. CASE IndexFails
  <2>1. /\ UNCHANGED <<frame, dirs, tracked, seg, counter, crashes>>
        /\ errors' >= errors /\ errors' \in 0..MaxErrors
    BY <1>13, <1>15 DEF IndexFails, DiskInv
  <2>2. QED
    BY <1>12, <2>1
<1>16. QED
  BY <1>3, <1>4, <1>5, <1>6, <1>8, <1>9, <1>10, <1>11, <1>14, <1>15 DEF Next

\* Every step keeps CallInv.
LEMMA CallStep ==
  ASSUME TypesInv, [Next]_vars
  PROVE  CallInv'
<1> USE DEF TypesInv
<1>0. staging # <<>> => next \in FrameIds
  BY DEF CallInv, RoomInv, FrameIds
<1>1. ASSUME NEW s \in Batches, Call(s) PROVE CallInv'
  <2>1. queue' \in Seq(Entry)
    BY <1>1, CallTypes DEF RoomInv
  <2>2. \A i \in DOMAIN s : s[i] \in Keys
    BY DEF Batches
  <2>3. written' \subseteq Keys
    BY <1>1, <2>2 DEF Call
  <2>4. /\ UNCHANGED <<seg, next, staging, tracked>> /\ seg # 0
        /\ pc' = "append" /\ op' \in {"put", "batch"}
    BY <1>1 DEF Call
  <2>5. QED
    BY <2>1, <2>3, <2>4 DEF CallInv, Pcs
<1>2. CASE FlushFirst
  BY <1>2 DEF CallInv, FlushFirst, NeedsFlush, Pcs
<1>3. CASE Full
  BY <1>3 DEF CallInv, Full, Pcs
<1>4. CASE Stage
  <2>1. Head(queue) \in Entry /\ Tail(queue) \in Seq(Entry)
    BY <1>4 DEF CallInv, Stage
  <2>2. staging' \in Seq(Entry) /\ queue' \in Seq(Entry) /\ staging' # <<>>
    BY <1>4, <2>1 DEF CallInv, Stage
  <2>3. Len(staging') <= FrameCap
    <3>1. Len(staging') = Len(staging) + 1
      BY <1>4, <2>1 DEF CallInv, Stage
    <3>2. staging = <<>> \/ Len(staging) < FrameCap
      BY <1>4 DEF CallInv, Stage, NeedsFlush
    <3>3. staging \in Seq(Entry)
      BY DEF CallInv
    <3>4. QED
      BY <3>1, <3>2, <3>3
  <2>4. /\ UNCHANGED <<next, op, written, seg>> /\ pc' \in {"frame", "append"}
        /\ queue # <<>>
    BY <1>4 DEF Stage
  <2>5. seg # 0 /\ op \in {"put", "batch"}
    BY <2>4 DEF CallInv
  <2>6. QED
    BY <2>2, <2>3, <2>4, <2>5 DEF CallInv, Pcs
<1>5. CASE WriteFrame
  BY <1>5 DEF CallInv, WriteFrame, Pcs
<1>6. CASE CommitIndex
  <2>1. next' \in 1..(FrameCount + 1)
    BY <1>0, <1>6 DEF CallInv, CommitIndex, FrameIds
  <2>2. staging' = <<>> /\ pc' = "append" /\ UNCHANGED <<op, queue, written, seg>>
    BY <1>6 DEF CommitIndex
  <2>3. Len(<<>>) <= FrameCap /\ <<>> \in Seq(Entry)
    OBVIOUS
  <2>4. QED
    BY <1>6, <2>1, <2>2, <2>3 DEF CallInv, CommitIndex, Pcs
<1>7. ASSUME Done, staging' \in {staging, <<>>}, next' \in {next, 1},
             seg' = seg \/ (seg' = 0 /\ staging' = <<>>)
      PROVE  CallInv'
  <2>1. Len(<<>>) <= FrameCap /\ <<>> \in Seq(Entry)
    OBVIOUS
  <2>2. staging' \in Seq(Entry) /\ Len(staging') <= FrameCap
    BY <1>7, <2>1 DEF CallInv
  <2>3. next' \in 1..(FrameCount + 1)
    BY <1>7 DEF CallInv
  <2>4. QED
    BY <1>7, <2>1, <2>2, <2>3 DEF CallInv, Done, Pcs
<1>8. CASE Acknowledge
  BY <1>7, <1>8 DEF Acknowledge
<1>9. CASE FrameFails
  BY <1>7, <1>9 DEF FrameFails, KeepStaging
<1>10. CASE IndexFails
  BY <1>7, <1>10 DEF IndexFails, KeepStaging
<1>11. CASE RotateFails
  BY <1>7, <1>11 DEF RotateFails
<1>12. Len(<<>>) <= FrameCap /\ <<>> \in Seq(Entry) /\ 1 \in 1..(FrameCount + 1)
  OBVIOUS
<1>13. CASE RotateDir
  <2>1. seg' # 0 /\ op \notin {"put", "batch"} => queue = <<>>
    BY <1>13 DEF RotateDir, DiskInv, CallInv
  <2>2. seg' # 0
    BY <1>13 DEF RotateDir, DiskInv
  <2>3. /\ next' = 1 /\ staging' = <<>> /\ pc' = "header"
        /\ UNCHANGED <<op, queue, written>>
    BY <1>13 DEF RotateDir
  <2>4. QED
    BY <1>12, <2>1, <2>2, <2>3 DEF CallInv, Pcs
<1>14. CASE RotateHeader
  <2>1. CASE op \in {"put", "batch"}
    BY <1>14, <2>1 DEF CallInv, RotateHeader, Pcs
  <2>2. CASE op \notin {"put", "batch"}
    BY <1>7, <1>14, <2>2 DEF RotateHeader
  <2>3. QED
    BY <2>1, <2>2
<1>15. CASE FlushMemtable
  BY <1>15 DEF CallInv, FlushMemtable
<1>16. CASE Flush
  <2>1. queue = <<>> /\ pc = "idle"
    BY <1>16 DEF Flush, CallInv
  <2>2. CASE staging = <<>>
    BY <1>16, <2>1, <2>2 DEF CallInv, Flush, Pcs
  <2>3. CASE staging # <<>>
    BY <1>16, <2>1, <2>3 DEF CallInv, Flush, Pcs
  <2>4. QED
    BY <2>2, <2>3
<1>17. CASE FlushData
  BY <1>17 DEF CallInv, FlushData, Pcs
<1>18. CASE WipeCurrent
  <2>1. op = "flush" /\ queue = <<>>
    BY <1>18 DEF WipeCurrent, CallInv
  <2>2. /\ seg' = 0 /\ next' = 1 /\ staging' = <<>> /\ pc' = "wipeAll"
        /\ UNCHANGED <<op, queue, written>>
    BY <1>18 DEF WipeCurrent
  <2>3. QED
    BY <1>12, <2>1, <2>2 DEF CallInv, Pcs
<1>19. CASE WipeIndex
  BY <1>19 DEF CallInv, WipeIndex, Pcs
<1>20. ASSUME NEW i \in Ids, WipeDir(i) PROVE CallInv'
  BY <1>20 DEF CallInv, WipeDir, Pcs
<1>21. CASE Crash
  <2>1. /\ seg' = 0 /\ next' = 1 /\ staging' = <<>> /\ tracked' = {}
        /\ op' = "none" /\ queue' = <<>> /\ written' = {} /\ pc' = "down"
    BY <1>21 DEF Crash
  <2>2. QED
    BY <1>12, <2>1 DEF CallInv, Pcs
<1>22. CASE Restart
  <2>1. Latest.frame \in 0..FrameCount
    BY DEF HeaderInv, AnySlot, Latest, Header, NoHeader
  <2>2. next' \in 1..(FrameCount + 1)
    <3>1. CASE Resumable
      BY <1>22, <2>1, <3>1 DEF Restart, Resume
    <3>2. CASE ~Resumable
      BY <1>22, <3>2 DEF Restart, CallInv
    <3>3. QED
      BY <3>1, <3>2
  <2>3. op = "none" /\ queue = <<>> /\ staging = <<>>
    BY <1>22 DEF Restart, CallInv, RoomInv
  <2>4. pc' \in {"idle", "rotate"} /\ UNCHANGED <<staging, op, queue, written>>
    BY <1>22 DEF Restart
  <2>5. QED
    BY <2>2, <2>3, <2>4, <1>12 DEF CallInv, Pcs
<1>23. CASE UNCHANGED vars
  BY <1>23 DEF CallInv, vars
<1>24. QED
  BY <1>1, <1>2, <1>3, <1>4, <1>5, <1>6, <1>8, <1>9, <1>10, <1>11, <1>13, <1>14,
     <1>15, <1>16, <1>17, <1>18, <1>19, <1>20, <1>21, <1>22, <1>23 DEF Next

\* The header that write_slot writes is the latest.
LEMMA LatestWritten ==
  ASSUME HeaderInv, NEW h \in Header, NEW durable \in BOOLEAN, WriteSlot(h, durable)
  PROVE  /\ slots' \in [{0, 1} -> AnySlot] /\ maybe' \in [{0, 1} -> SUBSET AnySlot]
         /\ Latest' = [h EXCEPT !.gen = Latest.gen + 1]
<1> DEFINE g == Latest.gen + 1
           new == [h EXCEPT !.gen = g]
<1>1. /\ slots[0].gen \in Nat /\ slots[1].gen \in Nat /\ Latest.gen \in Nat
      /\ slots[0].gen <= Latest.gen /\ slots[1].gen <= Latest.gen
  BY DEF HeaderInv, AnySlot, Header, NoHeader, Latest
<1>2. g \in Nat /\ g % 2 \in {0, 1} /\ slots[0].gen < g /\ slots[1].gen < g
  BY <1>1
<1>3. new \in Header /\ NoHeader \in AnySlot /\ new.gen = g
  BY <1>2 DEF Header, AnySlot
<1> HIDE DEF new
<1>4. slots' = [slots EXCEPT ![g % 2] = new]
  BY DEF WriteSlot, new
<1>5. slots' \in [{0, 1} -> AnySlot]
  BY <1>2, <1>3, <1>4 DEF HeaderInv, AnySlot
<1>6. maybe' \in [{0, 1} -> SUBSET AnySlot]
  <2>1. CASE durable
    <3>1. maybe' = [s \in {0, 1} |-> {slots'[s]}]
      BY <2>1 DEF WriteSlot
    <3>2. QED
      BY <1>5, <3>1
  <2>2. CASE ~durable
    <3>1. maybe' = [maybe EXCEPT ![g % 2] = @ \cup {slots'[g % 2], NoHeader}]
      BY <2>2 DEF WriteSlot
    <3>2. QED
      BY <1>2, <1>3, <1>5, <3>1 DEF HeaderInv
  <2>3. QED
    BY <2>1, <2>2
<1>7. Latest' = new
  <2> HIDE DEF g
  <2>1. CASE g % 2 = 0
    <3>1. slots'[0] = new /\ slots'[1] = slots[1]
      BY <1>4, <2>1 DEF HeaderInv
    <3>2. slots'[0].gen > slots'[1].gen
      BY <1>1, <1>2, <1>3, <3>1
    <3>3. QED
      BY <3>1, <3>2 DEF Latest
  <2>2. CASE g % 2 = 1
    <3>1. slots'[1] = new /\ slots'[0] = slots[0]
      BY <1>4, <2>2 DEF HeaderInv
    <3>2. ~(slots'[0].gen > slots'[1].gen)
      BY <1>1, <1>2, <1>3, <3>1
    <3>3. QED
      BY <3>1, <3>2 DEF Latest
  <2>3. QED
    BY <1>2, <2>1, <2>2
<1>8. QED
  BY <1>5, <1>6, <1>7 DEF new

\* What wal.idx holds, with a segment named, is a header.
LEMMA NamesSegment ==
  ASSUME HeaderInv, NEW i \in Ids
  PROVE  [Latest EXCEPT !.seg = i] \in Header
<1>1. Latest \in Header \/ Latest = NoHeader
  BY DEF HeaderInv, AnySlot, Latest
<1>2. CASE Latest \in Header
  BY <1>2 DEF Header
<1>3. CASE Latest = NoHeader
  <2>1. 0 \in Nat /\ 0 \in 0..FrameCount /\ 0 \in 0..(FrameCap + 1)
    OBVIOUS
  <2>2. QED
    BY <1>3, <2>1 DEF Header, NoHeader
<1>4. QED
  BY <1>1, <1>2, <1>3

\* A header that names a frame and an offset in it is one.
LEMMA CommittedHeader ==
  ASSUME NEW h \in Header, NEW f \in 1..FrameCount, NEW o \in 0..(FrameCap + 1)
  PROVE  /\ [h EXCEPT !.frame = f, !.off = o, !.some = TRUE] \in Header
         /\ [h EXCEPT !.frame = f, !.off = o, !.some = TRUE].seg = h.seg
<1> DEFINE Frames == 0..FrameCount
           Offs == 0..(FrameCap + 1)
<1>1. f \in Frames /\ o \in Offs
  OBVIOUS
<1>2. /\ Header = [gen : Nat, seg : Ids, frame : Frames, off : Offs, some : BOOLEAN]
      /\ h \in Header
  BY DEF Header
<1> HIDE DEF Frames, Offs
<1>3. QED
  BY <1>1, <1>2

\* Every step keeps HeaderInv.
LEMMA HeaderStep ==
  ASSUME TypesInv, [Next]_vars
  PROVE  HeaderInv'
<1> USE DEF TypesInv
<1>1. ASSUME UNCHANGED <<slots, maybe>>, (seg' = seg /\ pc # "header") \/ seg' = 0 \/ pc' = "header"
      PROVE  HeaderInv'
  <2>1. Latest' = Latest
    BY <1>1 DEF Latest
  <2>2. QED
    BY <1>1, <2>1 DEF HeaderInv
<1>2. CASE CommitIndex
  <2> DEFINE h == [Latest EXCEPT !.frame = next, !.off = Used(staging),
                                 !.some = TRUE]
  <2>1. staging # <<>> /\ seg # 0 /\ Latest.seg # 0 /\ next \in 1..FrameCount
    BY <1>2 DEF CommitIndex, CallInv, HeaderInv, RoomInv
  <2>2. Latest \in Header
    BY <2>1 DEF HeaderInv, AnySlot, Latest, NoHeader
  <2>3. Used(staging) \in 0..(FrameCap + 1)
    BY DEF CallInv, Used
  <2>4. h \in Header /\ h.seg = Latest.seg
    BY <2>1, <2>2, <2>3, CommittedHeader
  <2>5. WriteSlot(h, FALSE)
    BY <1>2 DEF CommitIndex
  <2> HIDE DEF h
  <2>6. /\ slots' \in [{0, 1} -> AnySlot] /\ maybe' \in [{0, 1} -> SUBSET AnySlot]
        /\ Latest' = [h EXCEPT !.gen = Latest.gen + 1]
    BY <2>4, <2>5, LatestWritten
  <2>7. Latest'.seg = h.seg
    BY <2>4, <2>6 DEF Header
  <2>8. QED
    BY <2>1, <2>4, <2>6, <2>7 DEF HeaderInv
<1>3. ASSUME pc = "header", NEW durable \in BOOLEAN,
             WriteSlot([Latest EXCEPT !.seg = seg], durable), seg' \in {0, seg}
      PROVE  HeaderInv'
  <2> DEFINE h == [Latest EXCEPT !.seg = seg]
  <2>1. seg \in Ids /\ seg # 0
    BY <1>3 DEF CallInv, DiskInv
  <2>2. h \in Header /\ h.seg = seg
    <3>1. h \in Header
      BY <2>1, NamesSegment
    <3>2. Latest \in Header \/ Latest = NoHeader
      BY DEF HeaderInv, AnySlot, Latest
    <3>3. QED
      BY <3>1, <3>2 DEF Header, NoHeader
  <2>3. WriteSlot(h, durable)
    BY <1>3
  <2> HIDE DEF h
  <2>4. /\ slots' \in [{0, 1} -> AnySlot] /\ maybe' \in [{0, 1} -> SUBSET AnySlot]
        /\ Latest' = [h EXCEPT !.gen = Latest.gen + 1]
    BY <2>2, <2>3, LatestWritten
  <2>5. Latest'.seg = seg
    BY <2>2, <2>4 DEF Header
  <2>6. QED
    BY <1>3, <2>1, <2>4, <2>5 DEF HeaderInv
<1>4. CASE RotateHeader
  <2>1. seg' = seg
    BY <1>4 DEF RotateHeader
  <2>2. QED
    BY <1>3, <1>4, <2>1 DEF RotateHeader
<1>5. CASE RotateFails
  <2>1. seg' = 0
    BY <1>5 DEF RotateFails
  <2>2. CASE UNCHANGED <<slots, maybe>>
    BY <1>1, <2>1, <2>2
  <2>3. CASE pc = "header" /\ WriteSlot([Latest EXCEPT !.seg = seg], FALSE)
    BY <1>3, <2>1, <2>3
  <2>4. QED
    BY <1>5, <2>2, <2>3 DEF RotateFails
<1>6. CASE WipeIndex
  <2>1. /\ slots' \in [{0, 1} -> AnySlot] /\ maybe' \in [{0, 1} -> SUBSET AnySlot]
    BY <1>6 DEF WipeIndex, AnySlot
  <2>2. seg' = 0
    BY <1>6 DEF WipeIndex, CallInv
  <2>3. QED
    BY <2>1, <2>2 DEF HeaderInv
<1>7. CASE Crash
  <2>1. slots' \in [{0, 1} -> AnySlot]
    BY <1>7 DEF Crash, HeaderInv
  <2>2. maybe' \in [{0, 1} -> SUBSET AnySlot] /\ seg' = 0
    BY <1>7, <2>1 DEF Crash
  <2>3. QED
    BY <2>1, <2>2 DEF HeaderInv
<1>8. CASE Restart
  <2>1. UNCHANGED <<slots, maybe>> /\ seg = 0 /\ Latest' = Latest
    BY <1>8 DEF Restart, CallInv, Latest
  <2>2. seg' \in {0, Latest.seg}
    BY <1>8, <2>1 DEF Restart
  <2>3. QED
    BY <2>1, <2>2 DEF HeaderInv
<1>9. CASE RotateDir
  BY <1>1, <1>9 DEF RotateDir
<1>10. CASE WipeCurrent
  BY <1>1, <1>10 DEF WipeCurrent
<1>11. CASE \/ (\E s \in Batches : Call(s))
            \/ FlushFirst \/ Full \/ Stage \/ WriteFrame \/ Acknowledge
            \/ FrameFails \/ IndexFails \/ FlushMemtable \/ Flush \/ FlushData
            \/ (\E i \in Ids : WipeDir(i))
  <2>1. UNCHANGED <<slots, maybe, seg>> /\ pc # "header"
    BY <1>11 DEF Call, FlushFirst, Full, Stage, WriteFrame, Acknowledge, FrameFails,
      IndexFails, FlushMemtable, Flush, FlushData, WipeDir
  <2>2. QED
    BY <1>1, <2>1
<1>12. CASE UNCHANGED vars
  BY <1>12 DEF vars, HeaderInv, Latest
<1>13. QED
  BY <1>2, <1>4, <1>5, <1>6, <1>7, <1>8, <1>9, <1>10, <1>11, <1>12 DEF Next

\* The entry that is applied last exists.
LEMMA LastPlace ==
  ASSUME DiskInv, NEW k \in Keys, Places(k) # {}
  PROVE  \E p \in Places(k) :
           /\ Replayed(k) = frame[p[1]][p[2]].recs[p[3]].ver
           /\ \A r \in Places(k) : Before(r, p)
<1> DEFINE P == Places(k)
<1>1. \A p \in P : /\ p[1] \in dirs /\ p[2] \in FrameIds /\ p[3] \in 1..(FrameCap + 1)
                   /\ p[3] \in DOMAIN frame[p[1]][p[2]].recs
  BY DEF Places, Decoded
<1> DEFINE A == {p[1] : p \in P}
           a == Max(A)
           PA == {p \in P : p[1] = a}
           B == {p[2] : p \in PA}
           b == Max(B)
           PB == {p \in PA : p[2] = b}
           C == {p[3] : p \in PB}
           c == Max(C)
<1>2. P # {}
  OBVIOUS
<1> HIDE DEF P
<1>3. A \in SUBSET Nat /\ A # {} /\ \A x \in A : x <= MaxIds
  <2>1. \A p \in P : p[1] \in Ids
    BY <1>1 DEF DiskInv
  <2>2. \A x \in A : x \in Nat /\ x <= MaxIds
    BY <2>1 DEF Ids
  <2>3. QED
    BY <1>2, <2>2
<1>4. a \in A /\ \A x \in A : x <= a
  BY <1>3, MaxNat
<1> HIDE DEF a
<1>5. B \in SUBSET Nat /\ B # {} /\ \A x \in B : x <= FrameCount
  BY <1>1, <1>4 DEF FrameIds
<1>6. b \in B /\ \A x \in B : x <= b
  BY <1>5, MaxNat
<1> HIDE DEF b
<1>7. C \in SUBSET Nat /\ C # {} /\ \A x \in C : x <= FrameCap + 1
  BY <1>1, <1>6
<1>8. c \in C /\ \A x \in C : x <= c
  <2>1. FrameCap + 1 \in Nat
    OBVIOUS
  <2>2. QED
    BY <1>7, <2>1, MaxNat
<1> HIDE DEF c
<1>9. PICK q \in P : q[1] = a /\ q[2] = b /\ q[3] = c
  BY <1>8
<1>10. ASSUME NEW r \in P PROVE Before(r, q)
  <2>1. r[1] \in Nat /\ r[2] \in Nat /\ r[3] \in Nat /\ a \in Nat /\ b \in Nat
    BY <1>1, <1>3, <1>4, <1>5, <1>6 DEF FrameIds, DiskInv, Ids
  <2>2. r[1] <= a
    BY <1>4
  <2>3. r[1] = a => r[2] <= b
    BY <1>6
  <2>4. r[1] = a /\ r[2] = b => r[3] <= c
    BY <1>8
  <2>5. QED
    BY <1>9, <2>1, <2>2, <2>3, <2>4 DEF Before
<1> DEFINE p == CHOOSE x \in P : \A r \in P : Before(r, x)
<1>11. p \in P /\ \A r \in P : Before(r, p)
  BY <1>10
<1> HIDE DEF p
<1>12. Replayed(k) = frame[p[1]][p[2]].recs[p[3]].ver
  BY <1>2 DEF Replayed, p, P
<1>13. QED
  BY <1>11, <1>12 DEF P

\* Its version is one of a write.
LEMMA ReplayedType ==
  ASSUME DiskInv, NEW k \in Keys
  PROVE  Replayed(k) \in 0..MaxWrites
<1>1. CASE Places(k) = {}
  BY <1>1 DEF Replayed
<1>2. CASE Places(k) # {}
  <2>1. PICK p \in Places(k) : Replayed(k) = frame[p[1]][p[2]].recs[p[3]].ver
    BY <1>2, LastPlace
  <2>2. p[1] \in Ids /\ p[2] \in FrameIds /\ p[3] \in DOMAIN frame[p[1]][p[2]].recs
    BY DEF Places, Decoded, DiskInv
  <2>3. frame[p[1]][p[2]].recs \in Seq(Entry)
    BY <2>2 DEF DiskInv, FrameFile
  <2>4. frame[p[1]][p[2]].recs[p[3]] \in Entry
    BY <2>2, <2>3
  <2>5. QED
    BY <2>1, <2>4 DEF Entry
<1>3. QED
  BY <1>1, <1>2

\* Every step keeps DataInv.
LEMMA DataStep ==
  ASSUME TypesInv, [Next]_vars
  PROVE  DataInv'
<1> USE DEF TypesInv
<1>1. ASSUME NEW s \in Batches, Call(s) PROVE DataInv'
  <2>1. ver' \in 0..MaxWrites
    BY <1>1, CallTypes DEF RoomInv
  <2>2. QED
    BY <1>1, <2>1 DEF DataInv, Call
<1>2. CASE Acknowledge
  BY <1>2 DEF DataInv, Acknowledge
<1>3. NoVersion \in [Keys -> 0..MaxWrites]
  BY DEF NoVersion
<1>4. CASE FlushMemtable \/ FlushData
  <2>1. MoveToSst /\ UNCHANGED <<truth, ver>>
    BY <1>4 DEF FlushMemtable, FlushData
  <2>2. QED
    BY <1>3, <2>1 DEF DataInv, MoveToSst
<1>5. CASE Crash
  BY <1>3, <1>5 DEF DataInv, Crash
<1>6. CASE Restart
  <2>1. mem' = [k \in Keys |-> Replayed(k)] /\ UNCHANGED <<sst, truth, ver>>
    BY <1>6 DEF Restart
  <2>2. mem' \in [Keys -> 0..MaxWrites]
    BY <2>1, ReplayedType
  <2>3. QED
    BY <2>1, <2>2 DEF DataInv
<1>7. CASE \/ FlushFirst \/ Full \/ Stage \/ WriteFrame \/ CommitIndex
           \/ FrameFails \/ IndexFails \/ RotateDir \/ RotateHeader \/ RotateFails
           \/ Flush \/ WipeCurrent \/ WipeIndex \/ (\E i \in Ids : WipeDir(i))
           \/ UNCHANGED vars
  <2>1. UNCHANGED dataVars
    BY <1>7 DEF FlushFirst, Full, Stage, WriteFrame, CommitIndex, FrameFails,
      IndexFails, RotateDir, RotateHeader, RotateFails, Flush, WipeCurrent, WipeIndex,
      WipeDir, vars
  <2>2. QED
    BY <2>1 DEF DataInv
<1>8. QED
  BY <1>1, <1>2, <1>4, <1>5, <1>6, <1>7 DEF Next

\* What initialize leaves has these types.
LEMMA TypesInit ==
  ASSUME Init
  PROVE  TypesInv
<1>1. <<>> \in Seq(Entry) /\ Len(<<>>) <= FrameCap
  OBVIOUS
<1>2. DiskInv
  <2>1. Absent \in FrameFile /\ Absent.st = "absent"
    BY <1>1 DEF Absent, FrameFile
  <2>2. frame \in [Ids -> [FrameIds -> FrameFile]]
    BY <2>1 DEF Init
  <2>3. \A i \in Ids : \A f \in FrameIds : frame[i][f].st = "absent"
    BY <2>1 DEF Init
  <2>4. QED
    BY <2>2, <2>3 DEF Init, DiskInv, Ids
<1>3. CallInv
  BY <1>1 DEF Init, CallInv, Pcs
<1>4. HeaderInv
  <2>1. NoHeader \in AnySlot /\ [NoHeader EXCEPT !.gen = 1, !.seg = 1] \in AnySlot
    <3>1. 1 \in Ids /\ 0 \in 0..FrameCount /\ 0 \in 0..(FrameCap + 1) /\ 1 \in Nat
      BY DEF Ids
    <3>2. QED
      BY <3>1 DEF NoHeader, AnySlot, Header
  <2>2. slots \in [{0, 1} -> AnySlot]
    BY <2>1 DEF Init
  <2>3. maybe \in [{0, 1} -> SUBSET AnySlot]
    BY <2>2 DEF Init
  <2>4. Latest.seg = 1
    <3>1. slots[0] = NoHeader /\ slots[1] = [NoHeader EXCEPT !.gen = 1, !.seg = 1]
      BY DEF Init
    <3>2. QED
      BY <3>1 DEF Latest, NoHeader
  <2>5. QED
    BY <2>2, <2>3, <2>4 DEF HeaderInv
<1>5. DataInv
  BY DEF Init, DataInv, NoVersion
<1>6. QED
  BY <1>2, <1>3, <1>4, <1>5, RoomInit DEF TypesInv

\* TypeOK holds in every reachable state: whatever call fails or crashes at
\* whatever step, frame files lie in directories, `segments` lists existing
\* directories other than the current one, both slots of wal.idx hold headers
\* that write_slot wrote, and initialize reads frames, offsets and versions
\* from them that are in range.
THEOREM IndexedTypes == Spec => []TypeOK
<1>1. TypesInv /\ [Next]_vars => TypesInv'
  BY RoomStep, DiskStep, CallStep, HeaderStep, DataStep DEF TypesInv
<1>2. TypesInv => TypeOK
  <2>1. ASSUME TypesInv PROVE TypeOK
    <3>1. \A i \in Ids \ dirs : Present(i) = {}
      BY <2>1 DEF TypesInv, DiskInv, Present
    <3>2. counter \in 1..(MaxIds + 1 + MaxErrors)
      BY <2>1 DEF TypesInv, DiskInv
    <3>3. /\ frame \in [Ids -> [FrameIds -> FrameFile]]
          /\ dirs \subseteq Ids /\ tracked \subseteq dirs
          /\ seg \in dirs \cup {0} /\ seg \notin tracked
          /\ crashes \in 0..MaxCrashes /\ errors \in 0..MaxErrors
      BY <2>1 DEF TypesInv, DiskInv
    <3>4. /\ slots \in [{0, 1} -> Header \cup {NoHeader}]
          /\ \A s \in {0, 1} : maybe[s] \subseteq Header \cup {NoHeader}
      BY <2>1 DEF TypesInv, HeaderInv, AnySlot
    <3>5. /\ next \in 1..(FrameCount + 1) /\ staging \in Seq(Entry)
          /\ op \in {"none", "put", "batch", "flush"} /\ queue \in Seq(Entry)
          /\ written \subseteq Keys /\ pc \in Pcs
      BY <2>1 DEF TypesInv, CallInv
    <3>6. ver \in 0..MaxWrites /\ \A m \in {mem, sst, truth} : m \in [Keys -> 0..MaxWrites]
      BY <2>1 DEF TypesInv, DataInv
    <3>7. QED
      BY <3>1, <3>2, <3>3, <3>4, <3>5, <3>6 DEF TypeOK
  <2>2. QED
    BY <2>1
<1>3. QED
  BY TypesInit, <1>1, <1>2, PTL DEF Spec

-----------------------------------------------------------------------------
(* Recovery                                                                *)

\* Entries synced per call, no power loss, and no crash between the removals
\* of a truncation; I/O errors and all other crashes may happen.  Without any
\* of the three AckedWritesRecovered fails.
SyncedUse == PerEntry /\ ~PowerLoss /\ "wipeAll" \notin CrashIn

Recs(i, f) == frame[i][f].recs

\* Nothing writes over this frame any more, in this session or after a crash.
Stable(i, f) ==
  /\ i = seg => f < next
  /\ i = Latest.seg => f <= Latest.frame

\* Recovery decodes the n-th entry of the frame.
Readable(i, f, n) ==
  LET used == Used(SubSeq(Recs(i, f), 1, n))
  IN  /\ n <= FrameCap /\ used <= Length(frame[i][f])
      /\ i = Latest.seg /\ f = Latest.frame => used <= Latest.off

Copy(k, v) ==
  \E i \in dirs, f \in FrameIds : \E n \in DOMAIN Recs(i, f) :
    /\ Recs(i, f)[n].key = k /\ Recs(i, f)[n].ver = v
    /\ Stable(i, f) /\ Readable(i, f, n)

\* The order of the files is the order of the writes: over a segment, over
\* its frames, in a frame, in the staging buffer behind them.
OrderInv ==
  /\ \A i, j \in dirs, f, g \in FrameIds :
       \A m \in DOMAIN Recs(i, f), n \in DOMAIN Recs(j, g) :
         i < j \/ (i = j /\ (f < g \/ (f = g /\ m < n)))
         => Recs(i, f)[m].ver <= Recs(j, g)[n].ver
  /\ \A i \in dirs, f \in FrameIds : \A m \in DOMAIN Recs(i, f) :
       /\ Recs(i, f)[m].ver <= ver
       /\ i # seg \/ f # next =>
            \A n \in DOMAIN staging : Recs(i, f)[m].ver <= staging[n].ver
  /\ \A m, n \in DOMAIN staging : m < n => staging[m].ver <= staging[n].ver
  /\ \A n \in DOMAIN staging : staging[n].ver <= ver
  /\ \A n \in DOMAIN queue : queue[n].ver = ver

\* The frame that is written next is behind all others that hold entries, in
\* this session and, by what wal.idx names, in the next.  Entries are in
\* directories only.
TailInv ==
  /\ \A i \in Ids \ dirs, f \in FrameIds : Recs(i, f) = <<>>
  /\ \A i \in dirs, f \in FrameIds : Recs(i, f) # <<>> =>
       /\ i <= Latest.seg
       /\ i = Latest.seg => f <= Latest.frame + 1
       /\ i = seg => f <= next
  /\ pc = "header" =>
       next = 1 /\ \A i \in dirs : i <= seg /\ \A f \in FrameIds : Recs(seg, f) = <<>>
  /\ seg # 0 /\ pc # "header" => Latest.seg = seg /\ next \in {1, Latest.frame + 1}
  /\ pc = "index" => frame[seg][next] = FileOf(staging)

\* What may still be written over, and what is staged, is newer than all that
\* was acknowledged; when a call has staged its last entry, nothing is left.
LooseInv ==
  /\ \A k \in Keys : truth[k] <= ver
  /\ op \in {"put", "batch"} => \A k \in Keys : truth[k] < ver
  /\ \A n \in DOMAIN staging, k \in Keys : truth[k] < staging[n].ver
  /\ \A i \in dirs, f \in FrameIds : ~Stable(i, f) =>
       \A n \in DOMAIN Recs(i, f), k \in Keys : truth[k] < Recs(i, f)[n].ver
  /\ op \in {"put", "batch"} /\ pc = "append" /\ queue = <<>> =>
       /\ staging = <<>> /\ seg # 0
       /\ \A f \in FrameIds : Recs(seg, f) # <<>> => Stable(seg, f)
  /\ pc \in {"rotate", "header", "wipeAll"} => staging = <<>>
  /\ op \in {"put", "batch"} /\ pc \in {"rotate", "header"} => queue # <<>>

\* An acknowledged write has a copy that recovery reads, or is in an SSTable
\* and no older one is left in the log.
Spared(k) ==
  /\ truth[k] <= sst[k]
  /\ \A i \in dirs, f \in FrameIds : \A n \in DOMAIN Recs(i, f) :
       Recs(i, f)[n].key = k => truth[k] <= Recs(i, f)[n].ver
CoverInv ==
  pc # "wipeAll" => \A k \in Keys : Copy(k, truth[k]) \/ Spared(k)

\* A write under way is queued, staged or in the log.
UnderWayInv ==
  op \in {"put", "batch"} => \A k \in written :
    \/ \E n \in DOMAIN queue : queue[n].key = k
    \/ \E n \in DOMAIN staging : staging[n].key = k /\ staging[n].ver = ver
    \/ Copy(k, ver)

\* What a flush of the memtable leaves in SSTables is not older than what was
\* acknowledged, so that a truncation may remove the log.
MemInv ==
  /\ pc # "down" => \A k \in Keys : truth[k] <= (IF mem[k] # 0 THEN mem[k] ELSE sst[k])
  /\ pc \in {"wipe", "wipeAll"} => \A k \in Keys : truth[k] <= sst[k]

LogInv == OrderInv /\ TailInv /\ LooseInv /\ CoverInv /\ UnderWayInv /\ MemInv

LogTypes == TypesInv /\ LogInv /\ SyncedUse

\* Entries are records of the right type.
LEMMA EntryTypes ==
  ASSUME TypesInv
  PROVE  /\ \A i \in Ids, f \in FrameIds :
              /\ frame[i][f] \in FrameFile /\ Recs(i, f) \in Seq(Entry)
              /\ \A n \in DOMAIN Recs(i, f) :
                   Recs(i, f)[n] \in Entry /\ n \in Nat \ {0} /\ Recs(i, f)[n].ver \in Nat \ {0}
         /\ \A n \in DOMAIN staging :
              staging[n] \in Entry /\ n \in Nat \ {0} /\ staging[n].ver \in Nat \ {0}
         /\ \A n \in DOMAIN queue : queue[n] \in Entry /\ queue[n].ver \in Nat
         /\ dirs \subseteq Ids /\ dirs \subseteq Nat
<1>1. \A e \in Entry : e.ver \in Nat \ {0}
  BY DEF Entry
<1>2. dirs \subseteq Ids /\ dirs \subseteq Nat
  BY DEF TypesInv, DiskInv, Ids
<1>3. ASSUME NEW s \in Seq(Entry), NEW n \in DOMAIN s
      PROVE  s[n] \in Entry /\ n \in Nat \ {0} /\ s[n].ver \in Nat \ {0}
  <2>1. s[n] \in Entry /\ n \in Nat \ {0}
    OBVIOUS
  <2>2. QED
    BY <1>1, <2>1
<1>4. ASSUME NEW i \in Ids, NEW f \in FrameIds
      PROVE  frame[i][f] \in FrameFile /\ Recs(i, f) \in Seq(Entry)
  <2>1. frame[i][f] \in FrameFile
    BY DEF TypesInv, DiskInv
  <2>2. QED
    BY <2>1 DEF FrameFile, Recs
<1>5. staging \in Seq(Entry) /\ queue \in Seq(Entry)
  BY DEF TypesInv, CallInv
<1>6. QED
  BY <1>2, <1>3, <1>4, <1>5

\* The headers in wal.idx name numbers.
LEMMA LatestNumbers ==
  ASSUME TypesInv
  PROVE  /\ Latest.seg \in Nat /\ Latest.frame \in Nat /\ Latest.off \in Nat
         /\ Latest.frame <= FrameCount /\ seg \in Nat /\ next \in Nat \ {0}
<1>1. Latest \in AnyHeader
  BY LatestType DEF TypesInv, RoomInv
<1>2. Latest.frame <= FrameCount
  BY DEF TypesInv, HeaderInv, AnySlot, Latest, Header, NoHeader
<1>3. QED
  BY <1>1, <1>2 DEF AnyHeader, TypesInv, RoomInv, RoomTypes

\* A readable copy is decoded.
LEMMA CopyIsPlace ==
  ASSUME TypesInv, NEW k \in Keys, NEW i \in dirs, NEW f \in FrameIds,
         NEW n \in DOMAIN Recs(i, f), Recs(i, f)[n].key = k, Readable(i, f, n)
  PROVE  <<i, f, n>> \in Places(k)
<1>1. n \in 1..(FrameCap + 1)
  BY EntryTypes DEF Readable
<1>2. n \in Decoded(i, f)
  BY DEF Decoded, Readable, Limit, Recs
<1>3. QED
  BY <1>1, <1>2 DEF Places, Recs

\* Outside the removals of a truncation the replay gives every key its
\* acknowledged value or a newer one.
LEMMA RecoversAll ==
  ASSUME LogTypes, pc # "wipeAll", NEW k \in Keys
  PROVE  truth[k] <= (IF Replayed(k) # 0 THEN Replayed(k) ELSE sst[k])
<1>0. truth[k] \in Nat /\ sst[k] \in Nat
  BY DEF LogTypes, TypesInv, DataInv
<1>1. CASE Places(k) = {}
  <2>1. ~Copy(k, truth[k])
    BY <1>1, CopyIsPlace DEF Copy, LogTypes
  <2>2. Spared(k)
    BY <2>1 DEF LogTypes, LogInv, CoverInv
  <2>3. QED
    BY <1>1, <2>2 DEF Spared, Replayed
<1>2. CASE Places(k) # {}
  <2>1. PICK q \in Places(k) :
          /\ Replayed(k) = frame[q[1]][q[2]].recs[q[3]].ver
          /\ \A r \in Places(k) : Before(r, q)
    BY <1>2, LastPlace DEF LogTypes, TypesInv
  <2>2. /\ q[1] \in dirs /\ q[2] \in FrameIds /\ q[3] \in DOMAIN Recs(q[1], q[2])
        /\ Recs(q[1], q[2])[q[3]].key = k /\ Replayed(k) = Recs(q[1], q[2])[q[3]].ver
    BY <2>1 DEF Places, Decoded, Recs
  <2>3. Replayed(k) \in Nat \ {0}
    BY <2>2, EntryTypes DEF LogTypes
  <2>4. CASE Spared(k)
    BY <2>2, <2>3, <2>4 DEF Spared
  <2>5. CASE Copy(k, truth[k])
    <3>1. PICK i \in dirs, f \in FrameIds : \E n \in DOMAIN Recs(i, f) :
            /\ Recs(i, f)[n].key = k /\ Recs(i, f)[n].ver = truth[k]
            /\ Readable(i, f, n)
      BY <2>5 DEF Copy
    <3>2. PICK n \in DOMAIN Recs(i, f) :
            /\ Recs(i, f)[n].key = k /\ Recs(i, f)[n].ver = truth[k]
            /\ Readable(i, f, n)
      BY <3>1
    <3>3. Before(<<i, f, n>>, q)
      BY <2>1, <3>2, CopyIsPlace DEF LogTypes
    <3>4. i < q[1] \/ (i = q[1] /\ (f < q[2] \/ (f = q[2] /\ n <= q[3])))
      BY <3>3 DEF Before
    <3>5. /\ i \in Nat /\ q[1] \in Nat /\ f \in Nat /\ q[2] \in Nat /\ n \in Nat
          /\ q[3] \in Nat
      <4>1. i \in Ids /\ q[1] \in Ids /\ dirs \subseteq Nat
        BY <2>2, EntryTypes DEF LogTypes
      <4>2. n \in Nat /\ q[3] \in Nat
        BY <2>2, <3>2, <4>1, EntryTypes DEF LogTypes
      <4>3. QED
        <5>1. f \in Nat /\ q[2] \in Nat
          BY <2>2 DEF FrameIds
        <5>2. i \in Nat /\ q[1] \in Nat
          BY <2>2, <4>1
        <5>3. QED
          BY <4>2, <5>1, <5>2
    <3>6. CASE i = q[1] /\ f = q[2] /\ n = q[3]
      BY <2>2, <2>3, <3>2, <3>6
    <3>7. CASE i < q[1] \/ (i = q[1] /\ (f < q[2] \/ (f = q[2] /\ n < q[3])))
      <4>1. Recs(i, f)[n].ver <= Recs(q[1], q[2])[q[3]].ver
        BY <2>2, <3>7 DEF LogTypes, LogInv, OrderInv
      <4>2. QED
        BY <2>2, <2>3, <3>2, <4>1
    <3>8. QED
      BY <3>4, <3>5, <3>6, <3>7
  <2>6. QED
    BY <2>4, <2>5 DEF LogTypes, LogInv, CoverInv
<1>3. QED
  BY <1>1, <1>2

\* A step leaves every frame file with entries as it is, or removes it ...
Fewer ==
  \A i \in dirs', f \in FrameIds :
    Recs(i, f)' = <<>> \/ (i \in dirs /\ frame'[i][f] = frame[i][f])

\* ... or writes the frame that is next.
Rewrites ==
  /\ pc = "frame" /\ seg \in dirs /\ next \in FrameIds
  /\ UNCHANGED <<dirs, slots, truth, sst, ver>>
  /\ \A i \in dirs, f \in FrameIds : i # seg \/ f # next => frame'[i][f] = frame[i][f]
  /\ frame'[seg][next].recs \in {<<>>, Recs(seg, next), staging}
  /\ \/ UNCHANGED <<seg, next>> /\ staging' \in {staging, <<>>}
     \/ seg' = 0 /\ staging' = <<>>

\* Only the removals of a truncation remove any.
Keeps == dirs \subseteq dirs' /\ frame' = frame

LEMMA FrameSteps ==
  ASSUME LogTypes, [Next]_vars
  PROVE  /\ \A i \in Ids \ dirs', f \in FrameIds : Recs(i, f)' = <<>>
         /\ Fewer \/ Rewrites
         /\ Keeps \/ Rewrites \/ "wipeAll" \in {pc, pc'}
<1> USE DEF LogTypes, LogInv
<1>1. \A i \in Ids \ dirs, f \in FrameIds : Recs(i, f) = <<>>
  BY DEF TailInv
<1>2. ASSUME pc = "frame", NEW g \in Partial \cup {FileOf(staging)},
             frame' = [frame EXCEPT ![seg][next] = g],
             UNCHANGED <<dirs, slots, truth, sst, ver>>,
             \/ UNCHANGED <<seg, next>> /\ staging' \in {staging, <<>>}
             \/ seg' = 0 /\ staging' = <<>>
      PROVE  (\A i \in Ids \ dirs', f \in FrameIds : Recs(i, f)' = <<>>) /\ Rewrites
  <2>1. seg \in dirs /\ seg \in Ids /\ next \in FrameIds
    BY <1>2 DEF TypesInv, DiskInv, CallInv, RoomInv, RoomTypes, FrameIds
  <2>2. g.recs \in {<<>>, Recs(seg, next), staging}
    BY <1>2 DEF Partial, FileOf, Resized, Zero, Absent, Blank, Recs
  <2>3. /\ frame'[seg][next] = g
        /\ \A i \in Ids, f \in FrameIds : i # seg \/ f # next => frame'[i][f] = frame[i][f]
    BY <1>2, <2>1 DEF TypesInv, DiskInv
  <2>4. \A i \in Ids \ dirs', f \in FrameIds : Recs(i, f)' = <<>>
    BY <1>1, <1>2, <2>1, <2>3 DEF Recs
  <2>5. dirs \subseteq Ids
    BY DEF TypesInv, DiskInv
  <2>6. \A i \in dirs, f \in FrameIds : i # seg \/ f # next => frame'[i][f] = frame[i][f]
    BY <2>3, <2>5
  <2>7. frame'[seg][next].recs \in {<<>>, Recs(seg, next), staging}
    BY <2>2, <2>3
  <2>8. QED
    BY <1>2, <2>1, <2>4, <2>6, <2>7 DEF Rewrites
<1>3. ASSUME UNCHANGED <<frame, dirs>>
      PROVE  (\A i \in Ids \ dirs', f \in FrameIds : Recs(i, f)' = <<>>) /\ Fewer /\ Keeps
  BY <1>1, <1>3 DEF Fewer, Keeps, Recs
<1>4. CASE WriteFrame
  <2>1. /\ pc = "frame" /\ frame' = [frame EXCEPT ![seg][next] = FileOf(staging)]
        /\ UNCHANGED <<dirs, slots, truth, sst, ver, seg, next, staging>>
    BY <1>4 DEF WriteFrame
  <2>2. QED
    BY <1>2, <2>1
<1>5. CASE FrameFails
  <2>1. /\ pc = "frame" /\ UNCHANGED <<dirs, slots, truth, sst, ver, seg, next>>
        /\ staging' \in {staging, <<>>}
    BY <1>5 DEF FrameFails, KeepStaging
  <2>2. PICK g \in Partial : frame' = [frame EXCEPT ![seg][next] = g]
    BY <1>5 DEF FrameFails
  <2>3. QED
    BY <1>2, <2>1, <2>2
<1>6. CASE Crash
  <2>1. UNCHANGED <<dirs, truth, sst, ver>> /\ seg' = 0 /\ staging' = <<>>
    BY <1>6 DEF Crash
  <2>2. UNCHANGED slots
    BY <1>6 DEF Crash, SyncedUse
  <2>3. CASE pc = "frame"
    <3>1. PICK g \in Partial : frame' = [frame EXCEPT ![seg][next] = g]
      BY <1>6, <2>3 DEF Crash
    <3>2. QED
      BY <1>2, <2>1, <2>2, <2>3, <3>1
  <2>4. CASE pc # "frame"
    BY <1>3, <1>6, <2>1, <2>4 DEF Crash
  <2>5. QED
    BY <2>3, <2>4
<1>7. ASSUME NEW i \in Ids, RemoveDir(i)
      PROVE  (\A j \in Ids \ dirs', f \in FrameIds : Recs(j, f)' = <<>>) /\ Fewer
  <2>1. /\ dirs' = dirs \ {i} /\ dirs \subseteq Ids
        /\ \A j \in Ids : j # i => frame'[j] = frame[j]
        /\ \A f \in FrameIds : frame'[i][f] = Absent
    BY <1>7 DEF RemoveDir, TypesInv, DiskInv
  <2>2. QED
    BY <1>1, <2>1 DEF Fewer, Recs, Absent
<1>8. CASE WipeCurrent
  <2>1. CASE seg = 0
    BY <1>3, <1>8, <2>1 DEF WipeCurrent
  <2>2. CASE seg # 0
    <3>1. seg \in Ids /\ RemoveDir(seg) /\ pc' = "wipeAll"
      BY <1>8, <2>2 DEF WipeCurrent, TypesInv, DiskInv
    <3>2. QED
      BY <1>7, <3>1
  <2>3. QED
    BY <2>1, <2>2
<1>9. ASSUME NEW i \in Ids, WipeDir(i)
      PROVE  /\ \A j \in Ids \ dirs', f \in FrameIds : Recs(j, f)' = <<>>
             /\ Fewer /\ pc = "wipeAll"
  BY <1>7, <1>9 DEF WipeDir
<1>10. CASE RotateDir
  <2>1. dirs' = dirs \cup {counter} /\ frame' = frame /\ counter \in Ids
    BY <1>10 DEF RotateDir, TypesInv, DiskInv, Ids
  <2>2. QED
    BY <1>1, <2>1 DEF Fewer, Keeps, Recs
<1>11. CASE \/ (\E s \in Batches : Call(s))
            \/ FlushFirst \/ Full \/ Stage \/ CommitIndex \/ Acknowledge \/ IndexFails
            \/ RotateHeader \/ RotateFails \/ FlushMemtable \/ Flush \/ FlushData
            \/ WipeIndex \/ Restart \/ UNCHANGED vars
  <2>1. UNCHANGED <<frame, dirs>>
    BY <1>11 DEF Call, FlushFirst, Full, Stage, CommitIndex, Acknowledge, IndexFails,
      RotateHeader, RotateFails, FlushMemtable, Flush, FlushData, WipeIndex, Restart, vars
  <2>2. QED
    BY <1>3, <2>1
<1>12. QED
  BY <1>4, <1>5, <1>6, <1>8, <1>9, <1>10, <1>11 DEF Next

\* commit_frame names the frame and the bytes used in it.
LEMMA CommitLatest ==
  ASSUME TypesInv, CommitIndex
  PROVE  /\ Latest'.seg = Latest.seg /\ Latest'.frame = next
         /\ Latest'.off = Used(staging)
<1> USE DEF TypesInv
<1> DEFINE h == [Latest EXCEPT !.frame = next, !.off = Used(staging),
                               !.some = TRUE]
<1>1. staging # <<>> /\ seg # 0 /\ Latest.seg # 0 /\ next \in 1..FrameCount
  BY DEF CommitIndex, CallInv, HeaderInv, RoomInv
<1>2. Latest \in Header
  BY <1>1 DEF HeaderInv, AnySlot, Latest, NoHeader
<1>3. Used(staging) \in 0..(FrameCap + 1)
  BY DEF CallInv, Used
<1>4. h \in Header /\ h.seg = Latest.seg
  BY <1>1, <1>2, <1>3, CommittedHeader
<1>5. h.frame = next /\ h.off = Used(staging)
  BY <1>2 DEF Header
<1>6. WriteSlot(h, FALSE)
  BY DEF CommitIndex
<1> HIDE DEF h
<1>7. Latest' = [h EXCEPT !.gen = Latest.gen + 1]
  BY <1>4, <1>6, LatestWritten
<1>8. Latest'.seg = h.seg /\ Latest'.frame = h.frame /\ Latest'.off = h.off
  BY <1>4, <1>7 DEF Header
<1>9. QED
  BY <1>4, <1>5, <1>8

\* rotate_segment names the new segment and leaves frame and offset.
LEMMA NameLatest ==
  ASSUME TypesInv, pc = "header", NEW durable \in BOOLEAN,
         WriteSlot([Latest EXCEPT !.seg = seg], durable)
  PROVE  Latest'.seg = seg /\ Latest'.frame = Latest.frame /\ Latest'.off = Latest.off
<1> USE DEF TypesInv
<1> DEFINE h == [Latest EXCEPT !.seg = seg]
<1>1. Latest \in Header \/ Latest = NoHeader
  BY DEF HeaderInv, AnySlot, Latest
<1>2. seg \in Ids
  BY DEF CallInv, DiskInv
<1>3. h \in Header
  BY <1>2, NamesSegment
<1>4. h.seg = seg /\ h.frame = Latest.frame /\ h.off = Latest.off
  BY <1>1 DEF Header, NoHeader
<1>5. WriteSlot(h, durable)
  OBVIOUS
<1> HIDE DEF h
<1>6. Latest' = [h EXCEPT !.gen = Latest.gen + 1]
  BY <1>3, <1>5, LatestWritten
<1>7. Latest'.seg = h.seg /\ Latest'.frame = h.frame /\ Latest'.off = h.off
  BY <1>3, <1>6 DEF Header
<1>8. QED
  BY <1>4, <1>7

\* wal.idx changes when a frame is committed, when a rotation names its
\* segment, and at the end of a truncation.
LEMMA LatestSteps ==
  ASSUME LogTypes, [Next]_vars
  PROVE  \/ Latest' = Latest
         \/ CommitIndex
         \/ /\ pc = "header" /\ (RotateHeader \/ RotateFails)
            /\ Latest'.seg = seg /\ Latest'.frame = Latest.frame /\ Latest'.off = Latest.off
         \/ WipeIndex
<1> USE DEF LogTypes
<1>1. ASSUME pc = "header", NEW durable \in BOOLEAN,
             WriteSlot([Latest EXCEPT !.seg = seg], durable)
      PROVE  Latest'.seg = seg /\ Latest'.frame = Latest.frame /\ Latest'.off = Latest.off
  BY <1>1, NameLatest
<1>2. CASE RotateHeader
  BY <1>1, <1>2 DEF RotateHeader
<1>3. CASE RotateFails
  <2>1. CASE UNCHANGED <<slots, maybe>>
    BY <2>1 DEF Latest
  <2>2. CASE pc = "header" /\ WriteSlot([Latest EXCEPT !.seg = seg], FALSE)
    BY <1>1, <1>3, <2>2
  <2>3. QED
    BY <1>3, <2>1, <2>2 DEF RotateFails
<1>4. CASE Crash
  BY <1>4 DEF Crash, SyncedUse, Latest
<1>5. CASE \/ (\E s \in Batches : Call(s))
           \/ FlushFirst \/ Full \/ Stage \/ WriteFrame \/ Acknowledge
           \/ FrameFails \/ IndexFails \/ RotateDir \/ FlushMemtable \/ Flush
           \/ FlushData \/ WipeCurrent \/ (\E i \in Ids : WipeDir(i)) \/ Restart
           \/ UNCHANGED vars
  <2>1. UNCHANGED slots
    BY <1>5 DEF Call, FlushFirst, Full, Stage, WriteFrame, Acknowledge, FrameFails,
      IndexFails, RotateDir, FlushMemtable, Flush, FlushData, WipeCurrent, WipeDir,
      Restart, vars
  <2>2. QED
    BY <2>1 DEF Latest
<1>6. QED
  BY <1>2, <1>3, <1>4, <1>5 DEF Next

\* The current segment and the next frame stay, or there is none, except in
\* a commit, a rotation and a restart.
LEMMA PlaceSteps ==
  ASSUME LogTypes, [Next]_vars
  PROVE  UNCHANGED <<seg, next>> \/ seg' = 0 \/ CommitIndex \/ RotateDir \/ Restart
<1>1. CASE \/ (\E s \in Batches : Call(s))
           \/ FlushFirst \/ Full \/ Stage \/ WriteFrame \/ Acknowledge
           \/ FrameFails \/ IndexFails \/ RotateHeader \/ FlushMemtable \/ Flush
           \/ FlushData \/ WipeIndex \/ (\E i \in Ids : WipeDir(i)) \/ UNCHANGED vars
  BY <1>1 DEF Call, FlushFirst, Full, Stage, WriteFrame, Acknowledge, FrameFails,
    IndexFails, RotateHeader, FlushMemtable, Flush, FlushData, WipeIndex, WipeDir, vars
<1>2. CASE RotateFails \/ WipeCurrent \/ Crash
  BY <1>2 DEF RotateFails, WipeCurrent, Crash
<1>3. QED
  BY <1>1, <1>2 DEF Next

\* A frame that nothing writes over stays so, and stays readable.
LEMMA StableStep ==
  ASSUME LogTypes, [Next]_vars, NEW i \in dirs', NEW f \in FrameIds, i \in dirs,
         Recs(i, f)' # <<>>, Stable(i, f)
  PROVE  /\ frame'[i][f] = frame[i][f]
         /\ Stable(i, f)'
         /\ \A n \in DOMAIN Recs(i, f) : Readable(i, f, n) => Readable(i, f, n)'
<1> USE DEF LogTypes, LogInv
<1>1. frame'[i][f] = frame[i][f] /\ Recs(i, f)' = Recs(i, f) /\ Recs(i, f) # <<>>
  BY FrameSteps, LatestNumbers DEF Fewer, Rewrites, Stable, Recs
<1>2. /\ i \in Nat /\ f \in Nat /\ Latest.frame \in Nat /\ next \in Nat /\ seg \in Nat
      /\ Latest.seg \in Nat
  BY EntryTypes, LatestNumbers DEF FrameIds
<1>3. ASSUME pc = "header", Latest'.seg = seg PROVE Latest'.seg # i
  BY <1>1, <1>3 DEF TailInv
<1>4. CASE CommitIndex
  <2>1. seg' = seg /\ next' = next + 1 /\ pc = "index"
    BY <1>4 DEF CommitIndex
  <2>2. seg # 0 /\ Latest.seg = seg
    BY <1>4 DEF CommitIndex, TailInv, TypesInv, CallInv
  <2>3. Latest'.seg = seg /\ Latest'.frame = next
    BY <1>4, <2>2, CommitLatest
  <2>4. Stable(i, f)'
    BY <1>2, <2>1, <2>2, <2>3 DEF Stable
  <2>5. ~(i = Latest'.seg /\ f = Latest'.frame)
    BY <1>2, <2>3 DEF Stable
  <2>6. QED
    BY <1>1, <2>4, <2>5 DEF Readable, Recs
<1>5. CASE ~CommitIndex
  <2>1. ~WipeIndex
    <3>1. WipeIndex => dirs' = {}
      BY DEF WipeIndex
    <3>2. QED
      BY <3>1
  <2>2. \/ Latest' = Latest
        \/ pc = "header" /\ Latest'.seg = seg /\ Latest'.seg # i
    BY <1>3, <1>5, <2>1, LatestSteps
  <2>3. i = seg' => f < next'
    <3>1. CASE UNCHANGED <<seg, next>> \/ seg' = 0
      <4>1. i # 0
        BY EntryTypes DEF Ids
      <4>2. QED
        BY <3>1, <4>1 DEF Stable
    <3>2. CASE RotateDir
      <4>1. seg' = counter /\ i < counter /\ counter \in Nat
        BY <3>2 DEF RotateDir, TypesInv, DiskInv
      <4>2. QED
        BY <1>2, <4>1
    <3>3. CASE Restart
      <4>1. seg = 0
        BY <3>3 DEF Restart, TypesInv, CallInv
      <4>2. i # 0
        BY EntryTypes DEF Ids
      <4>3. CASE Resumable
        <5>1. seg' = Latest.seg /\ next' = Latest.frame + 1
          BY <3>3, <4>3 DEF Restart, Resume
        <5>2. QED
          BY <1>2, <5>1 DEF Stable
      <4>4. CASE ~Resumable
        BY <3>3, <4>1, <4>2, <4>4 DEF Restart
      <4>5. QED
        BY <4>3, <4>4
    <3>4. QED
      BY <1>5, <3>1, <3>2, <3>3, PlaceSteps
  <2>4. Stable(i, f)'
    BY <2>2, <2>3 DEF Stable
  <2>5. QED
    BY <1>1, <2>2, <2>4 DEF Readable, Recs
<1>6. QED
  BY <1>4, <1>5, <1>1

\* A copy stays one until a truncation removes the log.
LEMMA CopyStep ==
  ASSUME LogTypes, [Next]_vars, pc # "wipeAll", pc' # "wipeAll",
         NEW k \in Keys, NEW v, Copy(k, v)
  PROVE  Copy(k, v)'
<1>1. PICK i \in dirs, f \in FrameIds : \E n \in DOMAIN Recs(i, f) :
        /\ Recs(i, f)[n].key = k /\ Recs(i, f)[n].ver = v
        /\ Stable(i, f) /\ Readable(i, f, n)
  BY DEF Copy
<1>2. PICK n \in DOMAIN Recs(i, f) :
        /\ Recs(i, f)[n].key = k /\ Recs(i, f)[n].ver = v
        /\ Stable(i, f) /\ Readable(i, f, n)
  BY <1>1
<1>3. Recs(i, f) # <<>>
  BY <1>2
<1>4. i \in dirs' /\ Recs(i, f)' = Recs(i, f)
  <2>1. i \in Nat /\ f \in Nat /\ next \in Nat
    BY EntryTypes, LatestNumbers DEF LogTypes, FrameIds
  <2>2. CASE Keeps
    BY <2>2 DEF Keeps, Recs
  <2>3. CASE Rewrites
    BY <1>2, <2>1, <2>3 DEF Rewrites, Stable, Recs
  <2>4. QED
    BY <2>2, <2>3, FrameSteps
<1>5. Stable(i, f)' /\ Readable(i, f, n)'
  BY <1>2, <1>3, <1>4, StableStep
<1>6. QED
  BY <1>2, <1>4, <1>5 DEF Copy

\* What is staged stays for the same place, is dropped or written, or grows
\* by the next entry.
LEMMA StagingSteps ==
  ASSUME LogTypes, [Next]_vars
  PROVE  staging' = <<>> \/ UNCHANGED <<staging, seg, next>> \/ Stage
<1>1. CASE \/ (\E s \in Batches : Call(s))
           \/ FlushFirst \/ Full \/ WriteFrame \/ Acknowledge \/ FrameFails \/ IndexFails
           \/ RotateHeader \/ FlushMemtable \/ Flush \/ FlushData
           \/ WipeIndex \/ (\E i \in Ids : WipeDir(i)) \/ UNCHANGED vars
  BY <1>1 DEF Call, FlushFirst, Full, WriteFrame, Acknowledge, FrameFails, IndexFails,
    KeepStaging, RotateHeader, FlushMemtable, Flush, FlushData, WipeIndex, WipeDir, vars
<1>2. CASE CommitIndex \/ RotateDir \/ RotateFails \/ WipeCurrent \/ Crash
  BY <1>2 DEF CommitIndex, RotateDir, RotateFails, WipeCurrent, Crash
<1>3. CASE Restart
  BY <1>3 DEF Restart, LogTypes, TypesInv, RoomInv
<1>4. QED
  BY <1>1, <1>2, <1>3 DEF Next

\* What is queued is of the write that is under way.
LEMMA VersionSteps ==
  ASSUME LogTypes, [Next]_vars
  PROVE  ver <= ver' /\ \A n \in DOMAIN queue' : queue'[n].ver = ver'
<1> USE DEF LogTypes, LogInv, OrderInv
<1>1. ver \in Nat
  BY DEF TypesInv, DataInv
<1>2. ASSUME NEW s \in Batches, Call(s)
      PROVE  ver <= ver' /\ \A n \in DOMAIN queue' : queue'[n].ver = ver'
  BY <1>1, <1>2 DEF Call
<1>3. CASE Stage
  <2>1. ver' = ver /\ queue' = Tail(queue) /\ queue # <<>> /\ queue \in Seq(Entry)
    BY <1>3 DEF Stage, TypesInv, CallInv
  <2>2. \A n \in DOMAIN queue' : n + 1 \in DOMAIN queue /\ queue'[n] = queue[n + 1]
    BY <2>1
  <2>3. QED
    BY <1>1, <2>1, <2>2
<1>4. CASE ver' = ver /\ queue' \in {queue, <<>>}
  BY <1>1, <1>4
<1>5. CASE \/ FlushFirst \/ Full \/ WriteFrame \/ CommitIndex \/ Acknowledge
           \/ FrameFails \/ IndexFails \/ RotateDir \/ RotateHeader \/ RotateFails
           \/ FlushMemtable \/ Flush \/ FlushData \/ WipeCurrent \/ WipeIndex
           \/ (\E i \in Ids : WipeDir(i)) \/ Crash \/ Restart \/ UNCHANGED vars
  <2>1. ver' = ver /\ queue' \in {queue, <<>>}
    BY <1>5 DEF FlushFirst, Full, WriteFrame, CommitIndex, Acknowledge, FrameFails,
      IndexFails, RotateDir, RotateHeader, RotateFails, FlushMemtable, Flush, FlushData,
      WipeCurrent, WipeIndex, WipeDir, Crash, Restart, Done, vars
  <2>2. QED
    BY <1>4, <2>1
<1>6. QED
  BY <1>2, <1>3, <1>5 DEF Next

\* Behind the frame that is next there are no entries.
LEMMA NextIsLast ==
  ASSUME LogTypes, pc = "frame"
  PROVE  \A j \in dirs, g \in FrameIds : Recs(j, g) # <<>> =>
           j < seg \/ (j = seg /\ g <= next)
<1>1. seg # 0 /\ Latest.seg = seg
  BY DEF LogTypes, TypesInv, CallInv, LogInv, TailInv
<1>2. seg \in Nat /\ dirs \subseteq Nat
  BY EntryTypes, LatestNumbers DEF LogTypes
<1>3. QED
  BY <1>1, <1>2 DEF LogTypes, LogInv, TailInv

\* Every step keeps the order of the entries.
LEMMA OrderStep ==
  ASSUME LogTypes, [Next]_vars
  PROVE  OrderInv'
<1> USE DEF LogTypes, LogInv
<1> DEFINE Earlier(i, f, m, j, g, n) ==
             i < j \/ (i = j /\ (f < g \/ (f = g /\ m < n)))
<1>1. OrderInv
  OBVIOUS
<1>2. /\ dirs \subseteq Nat /\ FrameIds \subseteq Nat /\ seg \in Nat /\ next \in Nat
      /\ dirs \subseteq Ids /\ ver \in Nat /\ ver' \in Nat
  <2>1. dirs \subseteq Nat /\ dirs \subseteq Ids /\ seg \in Nat /\ next \in Nat
    BY EntryTypes, LatestNumbers
  <2>2. ver \in Nat /\ ver' \in Nat
    BY DataStep DEF TypesInv, DataInv
  <2>3. QED
    BY <2>1, <2>2 DEF FrameIds
<1>3. ver <= ver' /\ \A n \in DOMAIN queue' : queue'[n].ver = ver'
  BY VersionSteps
<1>4. \A i \in Ids, f \in FrameIds : \A n \in DOMAIN Recs(i, f) :
        n \in Nat /\ Recs(i, f)[n].ver \in Nat
  BY EntryTypes
<1>5. \A n \in DOMAIN staging : n \in Nat /\ staging[n].ver \in Nat
  BY EntryTypes
<1>6. \A i, j \in dirs', f, g \in FrameIds :
        \A m \in DOMAIN Recs(i, f)', n \in DOMAIN Recs(j, g)' :
          Earlier(i, f, m, j, g, n) => Recs(i, f)'[m].ver <= Recs(j, g)'[n].ver
  <2>1. CASE Fewer
    <3> SUFFICES ASSUME NEW i \in dirs', NEW j \in dirs', NEW f \in FrameIds,
                        NEW g \in FrameIds, NEW m \in DOMAIN Recs(i, f)',
                        NEW n \in DOMAIN Recs(j, g)', Earlier(i, f, m, j, g, n)
                 PROVE  Recs(i, f)'[m].ver <= Recs(j, g)'[n].ver
      OBVIOUS
    <3>1. Recs(i, f)' # <<>> /\ Recs(j, g)' # <<>>
      OBVIOUS
    <3>2. /\ i \in dirs /\ Recs(i, f)' = Recs(i, f)
          /\ j \in dirs /\ Recs(j, g)' = Recs(j, g)
      BY <2>1, <3>1 DEF Fewer, Recs
    <3>3. QED
      BY <1>1, <3>2 DEF OrderInv
  <2>2. CASE Rewrites
    <3> SUFFICES ASSUME NEW i \in dirs, NEW j \in dirs, NEW f \in FrameIds,
                        NEW g \in FrameIds, NEW m \in DOMAIN Recs(i, f)',
                        NEW n \in DOMAIN Recs(j, g)', Earlier(i, f, m, j, g, n)
                 PROVE  Recs(i, f)'[m].ver <= Recs(j, g)'[n].ver
      BY <2>2 DEF Rewrites
    <3>1. CASE (i # seg \/ f # next) /\ (j # seg \/ g # next)
      <4>1. Recs(i, f)' = Recs(i, f) /\ Recs(j, g)' = Recs(j, g)
        BY <2>2, <3>1 DEF Rewrites, Recs
      <4>2. QED
        BY <1>1, <4>1 DEF OrderInv
    <3>2. CASE i = seg /\ f = next /\ (j # seg \/ g # next)
      <4>1. Recs(j, g)' = Recs(j, g) /\ Recs(j, g)' # <<>>
        BY <2>2, <3>2 DEF Rewrites, Recs
      <4>2. j < seg \/ (j = seg /\ g <= next)
        BY <2>2, <4>1, NextIsLast DEF Rewrites
      <4>3. seg < j \/ (seg = j /\ (next < g \/ (next = g /\ m < n)))
        BY <3>2
      <4>4. j \in Nat /\ g \in Nat /\ seg \in Nat /\ next \in Nat
        BY <1>2
      <4>5. QED
        BY <3>2, <4>2, <4>3, <4>4
    <3>3. CASE (i # seg \/ f # next) /\ j = seg /\ g = next
      <4>1. Recs(i, f)' = Recs(i, f)
        BY <2>2, <3>3 DEF Rewrites, Recs
      <4>2. Recs(j, g)' \in {<<>>, Recs(j, g), staging}
        BY <2>2, <3>3 DEF Rewrites, Recs
      <4>3. Recs(j, g)' # <<>>
        OBVIOUS
      <4>4. CASE Recs(j, g)' = Recs(j, g)
        BY <1>1, <4>1, <4>4 DEF OrderInv
      <4>5. CASE Recs(j, g)' = staging
        BY <1>1, <3>3, <4>1, <4>5 DEF OrderInv
      <4>6. QED
        BY <4>2, <4>3, <4>4, <4>5
    <3>4. CASE i = seg /\ f = next /\ j = seg /\ g = next
      <4>1. Recs(j, g)' \in {<<>>, Recs(j, g), staging}
        BY <2>2, <3>4 DEF Rewrites, Recs
      <4>2. Recs(i, f)' = Recs(j, g)' /\ Recs(j, g)' # <<>> /\ m < n
        BY <1>2, <3>4
      <4>3. CASE Recs(j, g)' = Recs(j, g)
        BY <1>1, <3>4, <4>2, <4>3 DEF OrderInv
      <4>4. CASE Recs(j, g)' = staging
        BY <1>1, <4>2, <4>4 DEF OrderInv
      <4>5. QED
        BY <4>1, <4>2, <4>3, <4>4
    <3>5. QED
      BY <3>1, <3>2, <3>3, <3>4
  <2>3. QED
    BY <2>1, <2>2, FrameSteps
<1>7. \A i \in dirs', f \in FrameIds : \A m \in DOMAIN Recs(i, f)' :
        Recs(i, f)'[m].ver <= ver
  <2> SUFFICES ASSUME NEW i \in dirs', NEW f \in FrameIds, NEW m \in DOMAIN Recs(i, f)'
               PROVE  Recs(i, f)'[m].ver <= ver
    OBVIOUS
  <2>1. Recs(i, f)' # <<>>
    OBVIOUS
  <2>2. \/ i \in dirs /\ Recs(i, f)' = Recs(i, f)
        \/ Recs(i, f)' = staging
    BY <2>1, FrameSteps DEF Fewer, Rewrites, Recs
  <2>3. QED
    BY <1>1, <2>2 DEF OrderInv
<1>8. \A i \in dirs', f \in FrameIds : \A m \in DOMAIN Recs(i, f)' : Recs(i, f)'[m].ver \in Nat
  <2> SUFFICES ASSUME NEW i \in dirs', NEW f \in FrameIds, NEW m \in DOMAIN Recs(i, f)'
               PROVE  Recs(i, f)'[m].ver \in Nat
    OBVIOUS
  <2>1. Recs(i, f)' # <<>>
    OBVIOUS
  <2>2. \/ i \in dirs /\ Recs(i, f)' = Recs(i, f)
        \/ Recs(i, f)' = staging
    BY <2>1, FrameSteps DEF Fewer, Rewrites, Recs
  <2>3. QED
    BY <1>2, <1>4, <1>5, <2>2
<1>9. \A i \in dirs', f \in FrameIds : \A m \in DOMAIN Recs(i, f)' : Recs(i, f)'[m].ver <= ver'
  BY <1>2, <1>3, <1>7, <1>8
<1>10. CASE staging' = <<>>
  BY <1>3, <1>6, <1>9, <1>10 DEF OrderInv
<1>11. CASE UNCHANGED <<staging, seg, next>>
  <2>1. \A i \in dirs', f \in FrameIds : \A m \in DOMAIN Recs(i, f)' :
          i # seg' \/ f # next' =>
            \A n \in DOMAIN staging' : Recs(i, f)'[m].ver <= staging'[n].ver
    <3> SUFFICES ASSUME NEW i \in dirs', NEW f \in FrameIds, NEW m \in DOMAIN Recs(i, f)',
                        i # seg \/ f # next, NEW n \in DOMAIN staging
                 PROVE  Recs(i, f)'[m].ver <= staging[n].ver
      BY <1>11
    <3>1. Recs(i, f)' # <<>>
      OBVIOUS
    <3>2. i \in dirs /\ Recs(i, f)' = Recs(i, f)
      BY <3>1, FrameSteps DEF Fewer, Rewrites, Recs
    <3>3. QED
      BY <1>1, <3>2 DEF OrderInv
  <2>2. \A m, n \in DOMAIN staging' : m < n => staging'[m].ver <= staging'[n].ver
    BY <1>1, <1>11 DEF OrderInv
  <2>3. \A n \in DOMAIN staging' : staging'[n].ver <= ver'
    BY <1>1, <1>2, <1>3, <1>5, <1>11 DEF OrderInv
  <2>4. QED
    BY <1>3, <1>6, <1>9, <2>1, <2>2, <2>3 DEF OrderInv
<1>12. CASE Stage
  <2>1. /\ staging' = Append(staging, Head(queue)) /\ queue # <<>> /\ ver' = ver
        /\ UNCHANGED <<frame, dirs, seg, next>> /\ staging \in Seq(Entry)
        /\ queue \in Seq(Entry)
    BY <1>12 DEF Stage, TypesInv, CallInv
  <2>2. Head(queue).ver = ver
    BY <1>1, <2>1 DEF OrderInv
  <2>3. \A n \in DOMAIN staging' : \/ n \in DOMAIN staging /\ staging'[n] = staging[n]
                                   \/ n = Len(staging) + 1 /\ staging'[n].ver = ver
    BY <2>1, <2>2
  <2>4. \A n \in DOMAIN staging : n <= Len(staging) /\ Len(staging) \in Nat
    BY <2>1
  <2>5. \A i \in dirs', f \in FrameIds : \A m \in DOMAIN Recs(i, f)' :
          i # seg' \/ f # next' =>
            \A n \in DOMAIN staging' : Recs(i, f)'[m].ver <= staging'[n].ver
    BY <1>1, <2>1, <2>3 DEF OrderInv, Recs
  <2>6. \A m, n \in DOMAIN staging' : m < n => staging'[m].ver <= staging'[n].ver
    <3> SUFFICES ASSUME NEW m \in DOMAIN staging', NEW n \in DOMAIN staging', m < n
                 PROVE  staging'[m].ver <= staging'[n].ver
      OBVIOUS
    <3>1. m \in DOMAIN staging /\ staging'[m] = staging[m]
      BY <2>1, <2>3, <2>4
    <3>2. CASE n \in DOMAIN staging /\ staging'[n] = staging[n]
      BY <1>1, <3>1, <3>2 DEF OrderInv
    <3>3. CASE staging'[n].ver = ver
      BY <1>1, <3>1, <3>3 DEF OrderInv
    <3>4. QED
      BY <2>3, <3>2, <3>3
  <2>7. \A n \in DOMAIN staging' : staging'[n].ver <= ver'
    BY <1>1, <1>2, <2>1, <2>3 DEF OrderInv
  <2>8. QED
    BY <1>3, <1>6, <1>9, <2>5, <2>6, <2>7 DEF OrderInv
<1>13. QED
  BY <1>10, <1>11, <1>12, StagingSteps

\* Every step keeps TailInv.
LEMMA TailStep ==
  ASSUME LogTypes, [Next]_vars
  PROVE  TailInv'
<1> USE DEF LogTypes, LogInv
<1>1. TailInv
  OBVIOUS
<1>2. /\ dirs \subseteq Nat /\ FrameIds \subseteq Nat /\ seg \in Nat /\ next \in Nat \ {0}
      /\ dirs \subseteq Ids /\ 0 \notin Ids /\ Latest.seg \in Nat /\ Latest.frame \in Nat
  BY EntryTypes, LatestNumbers DEF FrameIds, Ids
<1>3. 0 \notin dirs' /\ dirs' \subseteq Ids
  BY <1>2, DiskStep DEF DiskInv
<1>4. ASSUME NEW i \in dirs', NEW f \in FrameIds, Recs(i, f)' # <<>>
      PROVE  /\ i \in dirs /\ i \in Nat /\ f \in Nat /\ i # 0
             /\ i <= Latest.seg
             /\ i = Latest.seg => f <= Latest.frame + 1
             /\ i = seg => f <= next
             /\ Recs(i, f) # <<>> \/ pc = "frame"
  <2>1. CASE i \in dirs /\ Recs(i, f) # <<>>
    BY <1>1, <1>2, <2>1 DEF TailInv
  <2>2. CASE Rewrites /\ i = seg /\ f = next
    <3>1. pc = "frame" /\ seg # 0 /\ seg \in dirs
      BY <2>2 DEF Rewrites, TypesInv, CallInv
    <3>2. Latest.seg = seg /\ next \in {1, Latest.frame + 1}
      BY <1>1, <3>1 DEF TailInv
    <3>3. QED
      BY <1>2, <2>2, <3>1, <3>2
  <2>3. QED
    BY <1>4, <2>1, <2>2, FrameSteps DEF Fewer, Rewrites, Recs
<1>5. \A i \in Ids \ dirs', f \in FrameIds : Recs(i, f)' = <<>>
  BY FrameSteps
<1>6. pc' = "index" => frame'[seg'][next'] = FileOf(staging')
  <2>1. SUFFICES ASSUME pc' = "index" PROVE frame'[seg'][next'] = FileOf(staging')
    OBVIOUS
  <2>2. CASE WriteFrame
    <3>1. seg \in Ids /\ next \in FrameIds
      BY <2>2 DEF WriteFrame, TypesInv, CallInv, RoomInv, RoomTypes, DiskInv, FrameIds
    <3>2. frame' = [frame EXCEPT ![seg][next] = FileOf(staging)] /\ UNCHANGED <<seg, next, staging>>
      BY <2>2 DEF WriteFrame
    <3>3. QED
      BY <3>1, <3>2 DEF TypesInv, DiskInv
  <2>3. CASE UNCHANGED vars
    BY <1>1, <2>1, <2>3 DEF vars, TailInv
  <2>4. WriteFrame \/ UNCHANGED vars
    BY <2>1 DEF Next, Call, FlushFirst, Full, Stage, CommitIndex, Acknowledge, FrameFails,
      IndexFails, RotateDir, RotateHeader, RotateFails, FlushMemtable, Flush, FlushData,
      WipeCurrent, WipeIndex, WipeDir, Crash, Restart, Done
  <2>5. QED
    BY <2>2, <2>3, <2>4
<1>7. CASE RotateDir
  <2>1. /\ seg' = counter /\ next' = 1 /\ dirs' = dirs \cup {counter} /\ pc' = "header"
        /\ frame' = frame /\ slots' = slots /\ \A i \in dirs : i < counter
        /\ counter \in Nat
    BY <1>7 DEF RotateDir, TypesInv, DiskInv
  <2>2. counter \in Ids /\ counter \notin dirs
    BY <1>2, <1>3, <2>1
  <2>3. \A i \in dirs' : i <= seg'
    BY <1>2, <2>1
  <2>4. \A f \in FrameIds : Recs(seg, f)' = <<>>
    BY <1>1, <2>1, <2>2 DEF TailInv, Recs
  <2>5. Latest' = Latest
    BY <2>1 DEF Latest
  <2>6. \A i \in dirs', f \in FrameIds : Recs(i, f)' # <<>> =>
          /\ i <= Latest'.seg
          /\ i = Latest'.seg => f <= Latest'.frame + 1
          /\ i = seg' => f <= next'
    BY <1>2, <1>4, <2>1, <2>2, <2>5
  <2>7. QED
    BY <1>5, <1>6, <2>1, <2>3, <2>4, <2>6 DEF TailInv
<1>8. CASE UNCHANGED vars
  <2>1. UNCHANGED <<frame, dirs, slots, seg, next, staging, pc>>
    BY <1>8 DEF vars
  <2>2. Latest' = Latest
    BY <2>1 DEF Latest
  <2>3. QED
    BY <1>1, <2>1, <2>2 DEF TailInv, Recs
<1>9. ASSUME pc' # "header",
             \A i \in dirs', f \in FrameIds : Recs(i, f)' # <<>> =>
               /\ i <= Latest'.seg
               /\ i = Latest'.seg => f <= Latest'.frame + 1
               /\ i = seg' => f <= next',
             seg' # 0 => Latest'.seg = seg' /\ next' \in {1, Latest'.frame + 1}
      PROVE  TailInv'
  BY <1>5, <1>6, <1>9 DEF TailInv
<1>10. CASE CommitIndex
  <2>1. pc = "index" /\ pc' = "append" /\ seg' = seg /\ next' = next + 1
    BY <1>10 DEF CommitIndex
  <2>2. seg # 0 /\ Latest.seg = seg /\ next \in {1, Latest.frame + 1}
    BY <1>1, <2>1 DEF TailInv, TypesInv, CallInv
  <2>3. Latest'.seg = seg /\ Latest'.frame = next
    BY <1>10, <2>2, CommitLatest
  <2>4. \A i \in dirs', f \in FrameIds : Recs(i, f)' # <<>> =>
          i <= seg /\ (i = seg => f <= next)
    BY <1>4, <2>2
  <2>5. QED
    BY <1>2, <1>9, <2>1, <2>3, <2>4
<1>11. CASE pc = "header" /\ (RotateHeader \/ RotateFails)
            /\ Latest'.seg = seg /\ Latest'.frame = Latest.frame
  <2>1. /\ pc' # "header" /\ (UNCHANGED <<seg, next>> \/ seg' = 0)
        /\ UNCHANGED <<frame, dirs>>
    BY <1>11 DEF RotateHeader, RotateFails, Done
  <2>2. next = 1 /\ \A i \in dirs : i <= seg /\ \A f \in FrameIds : Recs(seg, f) = <<>>
    BY <1>1, <1>11 DEF TailInv, TypesInv, CallInv, DiskInv
  <2>3. \A i \in dirs', f \in FrameIds : Recs(i, f)' # <<>> => i <= seg /\ i # seg /\ i # 0
    BY <1>2, <2>1, <2>2 DEF Recs
  <2>4. QED
    BY <1>9, <1>11, <2>1, <2>2, <2>3
<1>12. CASE WipeIndex
  <2>1. dirs' = {} /\ seg' = 0 /\ pc' = "rotate"
    BY <1>12 DEF WipeIndex, TypesInv, CallInv
  <2>2. QED
    BY <1>9, <2>1
<1>13. CASE Restart
  <2>1. Latest' = Latest /\ pc' # "header" /\ seg = 0
    BY <1>13 DEF Restart, Latest, TypesInv, CallInv
  <2>2. seg' = 0 \/ (seg' = Latest.seg /\ next' = Latest.frame + 1)
    BY <1>13, <2>1 DEF Restart, Resume
  <2>3. \A i \in dirs', f \in FrameIds : Recs(i, f)' # <<>> =>
          /\ i <= Latest'.seg
          /\ i = Latest'.seg => f <= Latest'.frame + 1
          /\ i = seg' => f <= next'
    BY <1>4, <2>1, <2>2
  <2>4. QED
    BY <1>9, <2>1, <2>2, <2>3
<1>14. CASE /\ Latest' = Latest /\ (UNCHANGED <<seg, next>> \/ seg' = 0)
            /\ ~RotateDir /\ ~RotateHeader /\ ~(UNCHANGED vars)
  <2>1. pc' # "header"
    BY <1>14 DEF Next, Call, FlushFirst, Full, Stage, WriteFrame, CommitIndex,
      Acknowledge, FrameFails, IndexFails, RotateFails, FlushMemtable, Flush, FlushData,
      WipeCurrent, WipeIndex, WipeDir, Crash, Restart, Done
  <2>2. pc = "header" => seg' = 0
    BY <1>14 DEF Next, Call, FlushFirst, Full, Stage, WriteFrame, CommitIndex,
      Acknowledge, FrameFails, IndexFails, RotateFails, FlushMemtable, Flush, FlushData,
      WipeCurrent, WipeIndex, WipeDir, Crash, Restart
  <2>3. seg' # 0 => Latest'.seg = seg' /\ next' \in {1, Latest'.frame + 1}
    BY <1>1, <1>14, <2>2 DEF TailInv
  <2>4. \A i \in dirs', f \in FrameIds : Recs(i, f)' # <<>> =>
          /\ i <= Latest'.seg
          /\ i = Latest'.seg => f <= Latest'.frame + 1
          /\ i = seg' => f <= next'
    BY <1>4, <1>14
  <2>5. QED
    BY <1>9, <2>1, <2>3, <2>4
<1>15. RotateHeader => /\ pc = "header"
                       /\ Latest'.seg = seg /\ Latest'.frame = Latest.frame
  BY NameLatest DEF RotateHeader
<1>16. QED
  BY <1>7, <1>8, <1>10, <1>11, <1>12, <1>13, <1>14, <1>15, LatestSteps, PlaceSteps

\* When a call has written its last entry, nothing in the log is loose.
LEMMA NothingLoose ==
  ASSUME LogTypes, op \in {"put", "batch"}, pc = "append", queue = <<>>
  PROVE  /\ staging = <<>>
         /\ \A i \in dirs, f \in FrameIds : Recs(i, f) # <<>> => Stable(i, f)
<1>1. /\ staging = <<>> /\ seg # 0
      /\ \A f \in FrameIds : Recs(seg, f) # <<>> => Stable(seg, f)
  BY DEF LogTypes, LogInv, LooseInv
<1>2. Latest.seg = seg
  BY <1>1 DEF LogTypes, LogInv, TailInv
<1>3. QED
  BY <1>1, <1>2 DEF Stable

\* Every step keeps LooseInv.
LEMMA LooseStep ==
  ASSUME LogTypes, [Next]_vars
  PROVE  LooseInv'
<1> USE DEF LogTypes, LogInv
<1>1. LooseInv
  OBVIOUS
<1>2. /\ ver \in Nat /\ ver' \in Nat /\ ver <= ver'
      /\ \A k \in Keys : truth[k] \in Nat
  BY VersionSteps, DataStep DEF TypesInv, DataInv
<1>3. \A n \in DOMAIN staging : staging[n].ver \in Nat
  BY EntryTypes
<1>4. \/ Acknowledge
      \/ \E s \in Batches : Call(s)
      \/ truth' = truth /\ ver' = ver /\ op' \in {op, "none", "flush"}
  <2>1. CASE \/ FlushFirst \/ Full \/ Stage \/ WriteFrame \/ CommitIndex
             \/ FrameFails \/ IndexFails \/ RotateDir \/ RotateHeader \/ RotateFails
             \/ FlushMemtable \/ Flush \/ FlushData \/ WipeCurrent \/ WipeIndex
             \/ (\E i \in Ids : WipeDir(i)) \/ Crash \/ Restart \/ UNCHANGED vars
    BY <2>1 DEF FlushFirst, Full, Stage, WriteFrame, CommitIndex, FrameFails, IndexFails,
      RotateDir, RotateHeader, RotateFails, FlushMemtable, Flush, FlushData, WipeCurrent,
      WipeIndex, WipeDir, Crash, Restart, Done, vars
  <2>2. QED
    BY <2>1 DEF Next
<1>5. \A k \in Keys : truth'[k] <= ver'
  <2>1. CASE Acknowledge
    BY <1>1, <1>2, <2>1 DEF Acknowledge, LooseInv
  <2>2. CASE truth' = truth
    BY <1>1, <1>2, <2>2 DEF LooseInv
  <2>3. QED
    BY <1>4, <2>1, <2>2 DEF Call
<1>6. op' \in {"put", "batch"} => \A k \in Keys : truth'[k] < ver'
  <2>1. CASE Acknowledge
    BY <2>1 DEF Acknowledge, Done
  <2>2. ASSUME NEW s \in Batches, Call(s) PROVE \A k \in Keys : truth'[k] < ver'
    BY <1>1, <1>2, <2>2 DEF Call, LooseInv
  <2>3. CASE truth' = truth /\ ver' = ver /\ op' \in {op, "none", "flush"}
    BY <1>1, <2>3 DEF LooseInv
  <2>4. QED
    BY <1>4, <2>1, <2>2, <2>3
<1>7. CASE Acknowledge
  <2>1. op \in {"put", "batch"} /\ pc = "append" /\ queue = <<>>
    BY <1>7 DEF Acknowledge
  <2>2. /\ staging = <<>>
        /\ \A i \in dirs, f \in FrameIds : Recs(i, f) # <<>> => Stable(i, f)
    BY <2>1, NothingLoose
  <2>3. /\ UNCHANGED <<frame, dirs, slots, seg, next, staging>>
        /\ op' = "none" /\ pc' = "idle"
    BY <1>7 DEF Acknowledge, Done
  <2>4. Latest' = Latest
    BY <2>3 DEF Latest
  <2>5. \A i \in dirs', f \in FrameIds : Recs(i, f)' # <<>> => Stable(i, f)'
    BY <2>2, <2>3, <2>4 DEF Stable, Recs
  <2>6. QED
    BY <1>5, <2>2, <2>3, <2>5 DEF LooseInv
<1>8. CASE truth' = truth
  <2>1. \A n \in DOMAIN staging', k \in Keys : truth'[k] < staging'[n].ver
    <3>1. CASE Stage
      <4>1. /\ staging' = Append(staging, Head(queue)) /\ queue # <<>>
            /\ staging \in Seq(Entry) /\ queue \in Seq(Entry)
        BY <3>1 DEF Stage, TypesInv, CallInv
      <4>2. op \in {"put", "batch"}
        BY <4>1 DEF TypesInv, CallInv
      <4>3. Head(queue).ver = ver
        BY <4>1 DEF OrderInv
      <4>4. \A n \in DOMAIN staging' : \/ n \in DOMAIN staging /\ staging'[n] = staging[n]
                                       \/ staging'[n].ver = ver
        BY <4>1, <4>3
      <4>5. QED
        BY <1>1, <1>8, <4>2, <4>4 DEF LooseInv
    <3>2. CASE staging' = <<>> \/ staging' = staging
      BY <1>1, <1>8, <3>2 DEF LooseInv
    <3>3. QED
      BY <3>1, <3>2, StagingSteps
  <2>2. \A i \in dirs', f \in FrameIds : ~Stable(i, f)' =>
          \A n \in DOMAIN Recs(i, f)', k \in Keys : truth'[k] < Recs(i, f)'[n].ver
    <3> SUFFICES ASSUME NEW i \in dirs', NEW f \in FrameIds, ~Stable(i, f)',
                        NEW n \in DOMAIN Recs(i, f)', NEW k \in Keys
                 PROVE  truth[k] < Recs(i, f)'[n].ver
      BY <1>8
    <3>1. Recs(i, f)' # <<>>
      OBVIOUS
    <3>2. i \in dirs => ~Stable(i, f)
      BY <3>1, StableStep
    <3>3. CASE i \in dirs /\ Recs(i, f)' = Recs(i, f)
      BY <1>1, <3>2, <3>3 DEF LooseInv
    <3>4. CASE Recs(i, f)' = staging
      BY <1>1, <3>4 DEF LooseInv
    <3>5. QED
      BY <3>1, <3>3, <3>4, FrameSteps DEF Fewer, Rewrites, Recs
  <2>3. op' \in {"put", "batch"} /\ pc' = "append" /\ queue' = <<>> =>
          /\ staging' = <<>> /\ seg' # 0
          /\ \A f \in FrameIds : (frame'[seg'][f].recs # <<>> => Stable(seg, f)')
    <3> SUFFICES ASSUME op' \in {"put", "batch"}, pc' = "append", queue' = <<>>
                 PROVE  /\ staging' = <<>> /\ seg' # 0
                        /\ \A f \in FrameIds : (frame'[seg'][f].recs # <<>> => Stable(seg, f)')
      OBVIOUS
    <3>1. CASE CommitIndex
      <4>1. /\ staging' = <<>> /\ seg' = seg /\ next' = next + 1 /\ pc = "index"
            /\ frame' = frame /\ dirs' = dirs
        BY <3>1 DEF CommitIndex
      <4>2. seg # 0 /\ seg \in dirs /\ Latest.seg = seg
        BY <4>1 DEF TypesInv, CallInv, DiskInv, TailInv
      <4>3. \A f \in FrameIds : Recs(seg, f) # <<>> => f <= next
        BY <4>2 DEF TailInv
      <4>4. Latest'.seg = seg /\ Latest'.frame = next
        BY <3>1, <4>2, CommitLatest
      <4>5. next \in Nat /\ FrameIds \subseteq Nat
        BY LatestNumbers DEF FrameIds
      <4>6. QED
        BY <4>1, <4>2, <4>3, <4>4, <4>5 DEF Stable, Recs
    <3>2. CASE UNCHANGED vars
      <4>1. UNCHANGED <<frame, slots, seg, next, staging, op, pc, queue>>
        BY <3>2 DEF vars
      <4>2. Latest' = Latest
        BY <4>1 DEF Latest
      <4>3. QED
        BY <1>1, <4>1, <4>2 DEF LooseInv, Stable, Recs
    <3>3. ~Stage
      <4>1. Stage => pc' = "frame" \/ Tail(queue) # <<>> \/ op \notin {"put", "batch"}
        BY DEF Stage, SyncedUse
      <4>2. Stage => queue' = Tail(queue) /\ op' = op
        BY DEF Stage
      <4>3. QED
        BY <4>1, <4>2
    <3>4. ~RotateHeader
      <4>1. RotateHeader => pc = "header" /\ queue' = queue /\ op' = op
        BY DEF RotateHeader, Done
      <4>2. QED
        BY <1>1, <4>1 DEF LooseInv
    <3>5. \A s \in Batches : ~Call(s)
      <4> SUFFICES ASSUME NEW s \in Batches, Call(s) PROVE queue' # <<>>
        OBVIOUS
      <4>1. PICK m \in 1..Cardinality(Keys) : s \in [1..m -> Keys]
        BY DEF Batches
      <4>2. 1 \in DOMAIN s
        <5>1. CASE m \in Int
          BY <4>1, <5>1
        <5>2. QED
          BY <4>1, <5>1
      <4>3. DOMAIN queue' = DOMAIN s
        BY DEF Call
      <4>4. QED
        BY <4>2, <4>3
    <3>6. CommitIndex \/ UNCHANGED vars
      BY <3>3, <3>4, <3>5 DEF Next, FlushFirst, Full, WriteFrame, Acknowledge,
        FrameFails, IndexFails, RotateDir, RotateFails, FlushMemtable, Flush, FlushData,
        WipeCurrent, WipeIndex, WipeDir, Crash, Restart, Done, TypesInv, CallInv
    <3>7. QED
      BY <3>1, <3>2, <3>6
  <2>4. pc' \in {"rotate", "header", "wipeAll"} => staging' = <<>>
    BY <1>1 DEF LooseInv, Next, Call, FlushFirst, Full, Stage, WriteFrame, CommitIndex,
      Acknowledge, FrameFails, IndexFails, RotateDir, RotateHeader, RotateFails,
      FlushMemtable, Flush, FlushData, WipeCurrent, WipeIndex, WipeDir, Crash, Restart,
      Done, vars, TypesInv, RoomInv
  <2>5. op' \in {"put", "batch"} /\ pc' \in {"rotate", "header"} => queue' # <<>>
    BY <1>1 DEF LooseInv, Next, Call, FlushFirst, Full, Stage, WriteFrame, CommitIndex,
      Acknowledge, FrameFails, IndexFails, RotateDir, RotateHeader, RotateFails,
      FlushMemtable, Flush, FlushData, WipeCurrent, WipeIndex, WipeDir, Crash, Restart,
      Done, vars, TypesInv, CallInv
  <2>6. QED
    BY <1>5, <1>6, <2>1, <2>2, <2>3, <2>4, <2>5 DEF LooseInv, Recs
<1>9. QED
  BY <1>4, <1>7, <1>8 DEF Call

\* The entries before one in a frame use no more bytes than all of them, and
\* those fit in the file.
LEMMA UsedPrefix ==
  ASSUME NEW s \in Seq(Entry), Len(s) <= FrameCap, NEW n \in DOMAIN s
  PROVE  Used(SubSeq(s, 1, n)) <= Used(s) /\ Used(s) <= Length(FileOf(s))
<1> DEFINE t == SubSeq(s, 1, n)
<1>1. /\ n \in Nat /\ n <= Len(s) /\ Len(s) \in Nat /\ t \in Seq(Entry) /\ Len(t) = n
      /\ \A i \in DOMAIN t : i \in DOMAIN s /\ t[i] = s[i]
  OBVIOUS
<1> HIDE DEF t
<1>2. HasBig(t) => HasBig(s)
  BY <1>1 DEF HasBig
<1>3. Used(t) <= Used(s)
  BY <1>1, <1>2 DEF Used
<1>4. Length(FileOf(s)) = IF HasBig(s) THEN FrameCap + 1 ELSE FrameCap
  BY DEF Length, FileOf
<1>5. Used(s) <= Length(FileOf(s))
  BY <1>1, <1>4 DEF Used
<1>6. QED
  BY <1>3, <1>5 DEF t

\* commit_frame makes a copy of what was staged.
LEMMA CommitCopies ==
  ASSUME LogTypes, CommitIndex, NEW k \in Keys, NEW v, NEW n \in DOMAIN staging,
         staging[n].key = k, staging[n].ver = v
  PROVE  Copy(k, v)'
<1> USE DEF LogTypes, LogInv
<1>1. /\ pc = "index" /\ seg' = seg /\ next' = next + 1 /\ dirs' = dirs /\ frame' = frame
  BY DEF CommitIndex
<1>2. seg # 0 /\ seg \in dirs /\ seg \in Ids /\ Latest.seg = seg
  BY <1>1 DEF TypesInv, CallInv, DiskInv, TailInv
<1>3. next \in FrameIds /\ next \in Nat
  BY <1>1 DEF TypesInv, CallInv, RoomInv, RoomTypes, FrameIds
<1>4. frame[seg][next] = FileOf(staging) /\ Recs(seg, next) = staging
  BY <1>1 DEF TailInv, FileOf, Recs
<1>5. staging \in Seq(Entry) /\ Len(staging) <= FrameCap
  BY DEF TypesInv, CallInv
<1>6. Latest'.seg = seg /\ Latest'.frame = next /\ Latest'.off = Used(staging)
  BY <1>2, CommitLatest
<1>7. PICK a, b : a = seg /\ b = next
  OBVIOUS
<1>8. a \in dirs' /\ b \in FrameIds /\ Recs(a, b)' = staging
  BY <1>1, <1>2, <1>3, <1>4, <1>7 DEF Recs
<1>9. Stable(a, b)'
  BY <1>1, <1>3, <1>6, <1>7 DEF Stable
<1>10. Readable(a, b, n)'
  <2>1. /\ Used(SubSeq(staging, 1, n)) <= Used(staging)
        /\ Used(staging) <= Length(frame'[a][b])
    BY <1>1, <1>4, <1>5, <1>7, UsedPrefix
  <2>2. /\ n \in Nat /\ Used(staging) \in Nat /\ Used(SubSeq(staging, 1, n)) \in Nat
        /\ Length(frame'[a][b]) \in Nat /\ n <= FrameCap
    <3>1. n \in Nat /\ n <= Len(staging) /\ SubSeq(staging, 1, n) \in Seq(Entry)
      BY <1>5
    <3>2. \A s \in Seq(Entry) : Used(s) \in Nat
      BY DEF Used
    <3>3. FrameCap \in Nat
      BY IndexedAssumption
    <3>4. n <= FrameCap
      BY <1>5, <3>1, <3>3
    <3>5. Length(frame'[a][b]) \in Nat
      BY <3>3 DEF Length
    <3>6. QED
      BY <1>5, <3>1, <3>2, <3>4, <3>5
  <2>3. Used(SubSeq(staging, 1, n)) <= Length(frame'[a][b])
    BY <2>1, <2>2
  <2>4. QED
    BY <1>6, <1>8, <2>1, <2>2, <2>3 DEF Readable
<1>11. QED
  BY <1>8, <1>9, <1>10 DEF Copy

\* Every step keeps UnderWayInv: an entry goes from the queue to the staging
\* buffer and from there, with commit_frame, to where recovery reads it.
LEMMA UnderWayStep ==
  ASSUME LogTypes, [Next]_vars
  PROVE  UnderWayInv'
<1> USE DEF LogTypes, LogInv
<1>1. SUFFICES ASSUME op' \in {"put", "batch"}, NEW k \in written'
               PROVE  \/ \E n \in DOMAIN queue' : queue'[n].key = k
                      \/ \E n \in DOMAIN staging' :
                           staging'[n].key = k /\ staging'[n].ver = ver'
                      \/ Copy(k, ver)'
  BY DEF UnderWayInv
<1>2. pc' # "wipeAll" /\ k \in Keys
  BY <1>1, CallStep DEF CallInv
<1>3. ASSUME NEW s \in Batches, Call(s)
      PROVE  \E n \in DOMAIN queue' : queue'[n].key = k
  BY <1>1, <1>3 DEF Call
<1>4. ASSUME op' = op, written' = written, ver' = ver
      PROVE  /\ op \in {"put", "batch"} /\ k \in written /\ pc # "wipeAll"
             /\ \/ \E n \in DOMAIN queue : queue[n].key = k
                \/ \E n \in DOMAIN staging : staging[n].key = k /\ staging[n].ver = ver
                \/ Copy(k, ver)'
  <2>1. op \in {"put", "batch"} /\ k \in written /\ pc # "wipeAll"
    BY <1>1, <1>4 DEF TypesInv, CallInv
  <2>2. CASE Copy(k, ver)
    <3>1. PICK v : v = ver
      OBVIOUS
    <3>2. Copy(k, v)'
      BY <1>2, <2>1, <2>2, <3>1, CopyStep
    <3>3. QED
      BY <1>4, <2>1, <3>1, <3>2 DEF Copy
  <2>3. QED
    BY <2>1, <2>2 DEF UnderWayInv
<1>5. CASE Stage
  <2>1. /\ staging' = Append(staging, Head(queue)) /\ queue # <<>> /\ ver' = ver
        /\ queue' = Tail(queue) /\ op' = op /\ written' = written
        /\ staging \in Seq(Entry) /\ queue \in Seq(Entry)
    BY <1>5 DEF Stage, TypesInv, CallInv
  <2>2. Head(queue).ver = ver
    BY <2>1 DEF OrderInv
  <2>3. CASE \E n \in DOMAIN queue : queue[n].key = k
    <3>1. PICK n \in DOMAIN queue : queue[n].key = k
      BY <2>3
    <3>2. CASE n = 1
      <4>1. Len(staging) + 1 \in DOMAIN staging' /\ staging'[Len(staging) + 1] = Head(queue)
        BY <2>1
      <4>2. Head(queue).key = k
        BY <2>1, <3>1, <3>2
      <4>3. QED
        BY <2>1, <2>2, <4>1, <4>2
    <3>3. CASE n # 1
      <4>1. n - 1 \in DOMAIN queue' /\ queue'[n - 1] = queue[n]
        BY <2>1, <3>3
      <4>2. QED
        BY <3>1, <4>1
    <3>4. QED
      BY <3>2, <3>3
  <2>4. CASE \E n \in DOMAIN staging : staging[n].key = k /\ staging[n].ver = ver
    <3>1. PICK n \in DOMAIN staging : staging[n].key = k /\ staging[n].ver = ver
      BY <2>4
    <3>2. n \in DOMAIN staging' /\ staging'[n] = staging[n]
      BY <2>1
    <3>3. QED
      BY <2>1, <3>1, <3>2
  <2>5. QED
    BY <1>4, <2>1, <2>3, <2>4
<1>6. CASE CommitIndex
  <2>1. queue' = queue /\ op' = op /\ written' = written /\ ver' = ver
    BY <1>6 DEF CommitIndex
  <2>2. ASSUME NEW n \in DOMAIN staging, staging[n].key = k, staging[n].ver = ver
        PROVE  Copy(k, ver)'
    <3>1. PICK v : v = ver
      OBVIOUS
    <3>2. Copy(k, v)'
      BY <1>2, <1>6, <2>2, <3>1, CommitCopies
    <3>3. QED
      BY <2>1, <3>1, <3>2 DEF Copy
  <2>3. QED
    BY <1>4, <2>1, <2>2
<1>7. CASE FlushFirst \/ Full \/ WriteFrame \/ RotateDir \/ UNCHANGED vars
  <2>1. queue' = queue /\ op' = op /\ written' = written /\ ver' = ver
    BY <1>7 DEF FlushFirst, Full, WriteFrame, RotateDir, vars
  <2>2. staging' = staging
    BY <1>7 DEF FlushFirst, Full, WriteFrame, RotateDir, vars, LooseInv
  <2>3. QED
    BY <1>4, <2>1, <2>2
<1>8. CASE RotateHeader
  <2>1. queue' = queue /\ op' = op /\ written' = written /\ ver' = ver /\ staging' = staging
    BY <1>1, <1>8 DEF RotateHeader, Done
  <2>2. QED
    BY <1>4, <2>1
<1>9. CASE \/ Acknowledge \/ FrameFails \/ IndexFails \/ RotateFails \/ FlushMemtable
           \/ Flush \/ FlushData \/ WipeCurrent \/ WipeIndex
           \/ (\E i \in Ids : WipeDir(i)) \/ Crash \/ Restart
  <2>1. op' \notin {"put", "batch"}
    BY <1>9 DEF Acknowledge, FrameFails, IndexFails, RotateFails, FlushMemtable,
      Flush, FlushData, WipeCurrent, WipeIndex, WipeDir, Crash, Restart, Done,
      TypesInv, CallInv
  <2>2. QED
    BY <1>1, <2>1
<1>10. QED
  BY <1>3, <1>5, <1>6, <1>7, <1>8, <1>9 DEF Next

\* A flush moves the memtable to an SSTable; no other step writes one, and
\* only a call that returns well changes what is acknowledged.
LEMMA DataSteps ==
  ASSUME TypesInv, [Next]_vars
  PROVE  /\ sst' = sst \/ FlushMemtable \/ FlushData
         /\ truth' = truth \/ Acknowledge
<1>1. CASE \/ (\E s \in Batches : Call(s))
           \/ FlushFirst \/ Full \/ Stage \/ WriteFrame \/ CommitIndex \/ FrameFails
           \/ IndexFails \/ RotateDir \/ RotateHeader \/ RotateFails \/ Flush
           \/ WipeCurrent \/ WipeIndex \/ (\E i \in Ids : WipeDir(i)) \/ Crash
           \/ Restart \/ UNCHANGED vars
  BY <1>1 DEF Call, FlushFirst, Full, Stage, WriteFrame, CommitIndex, FrameFails,
    IndexFails, RotateDir, RotateHeader, RotateFails, Flush, WipeCurrent, WipeIndex,
    WipeDir, Crash, Restart, dataVars, vars
<1>2. CASE FlushMemtable \/ FlushData \/ Acknowledge
  BY <1>2 DEF FlushMemtable, FlushData, Acknowledge
<1>3. QED
  BY <1>1, <1>2 DEF Next

\* Every step keeps MemInv: a restart fills the memtable with what it replays.
LEMMA MemStep ==
  ASSUME LogTypes, [Next]_vars
  PROVE  MemInv'
<1> USE DEF LogTypes, LogInv
<1>1. /\ mem \in [Keys -> Nat] /\ sst \in [Keys -> Nat] /\ truth \in [Keys -> Nat]
      /\ ver \in Nat
  BY DEF TypesInv, DataInv
<1>2. CASE Acknowledge
  <2>1. /\ pc' = "idle" /\ sst' = sst /\ op \in {"put", "batch"} /\ pc # "down"
        /\ mem' = [k \in Keys |-> IF k \in written THEN ver ELSE mem[k]]
        /\ truth' = [k \in Keys |-> IF k \in written THEN ver ELSE truth[k]]
    BY <1>2 DEF Acknowledge, Done
  <2>2. \A k \in Keys : truth[k] < ver
    BY <2>1 DEF LooseInv
  <2>3. ASSUME NEW k \in Keys
        PROVE  truth'[k] <= (IF mem'[k] # 0 THEN mem'[k] ELSE sst'[k])
    <3>1. CASE k \in written
      BY <1>1, <2>1, <2>2, <3>1
    <3>2. CASE k \notin written
      BY <2>1, <3>2 DEF MemInv
    <3>3. QED
      BY <3>1, <3>2
  <2>4. QED
    BY <2>1, <2>3 DEF MemInv
<1>3. CASE FlushMemtable \/ FlushData
  <2>1. /\ pc # "down" /\ truth' = truth /\ mem' = NoVersion
        /\ sst' = [k \in Keys |-> IF mem[k] # 0 THEN mem[k] ELSE sst[k]]
    BY <1>3 DEF FlushMemtable, FlushData, MoveToSst
  <2>2. \A k \in Keys : truth'[k] <= sst'[k] /\ mem'[k] = 0
    BY <2>1 DEF MemInv, NoVersion
  <2>3. QED
    BY <2>2 DEF MemInv
<1>4. CASE Restart
  <2>1. /\ pc = "down" /\ pc' \in {"idle", "rotate"} /\ truth' = truth /\ sst' = sst
        /\ mem' = [k \in Keys |-> Replayed(k)]
    BY <1>4 DEF Restart
  <2>2. \A k \in Keys : truth'[k] <= (IF mem'[k] # 0 THEN mem'[k] ELSE sst'[k])
    BY <2>1, RecoversAll
  <2>3. QED
    BY <2>1, <2>2 DEF MemInv
<1>5. CASE Crash
  BY <1>5 DEF Crash, MemInv
<1>6. CASE \/ (\E s \in Batches : Call(s))
           \/ FlushFirst \/ Full \/ Stage \/ WriteFrame \/ CommitIndex \/ FrameFails
           \/ IndexFails \/ RotateDir \/ RotateHeader \/ RotateFails \/ Flush
           \/ WipeCurrent \/ WipeIndex \/ (\E i \in Ids : WipeDir(i)) \/ UNCHANGED vars
  <2>1. UNCHANGED <<mem, sst, truth>>
    BY <1>6 DEF Call, FlushFirst, Full, Stage, WriteFrame, CommitIndex, FrameFails,
      IndexFails, RotateDir, RotateHeader, RotateFails, Flush, WipeCurrent, WipeIndex,
      WipeDir, dataVars, vars
  <2>2. pc' # "down" => pc # "down"
    BY <1>6 DEF Call, FlushFirst, Full, Stage, WriteFrame, CommitIndex, FrameFails,
      IndexFails, RotateDir, RotateHeader, RotateFails, Flush, WipeCurrent, WipeIndex,
      WipeDir, vars
  <2>3. pc' \in {"wipe", "wipeAll"} => pc \in {"wipe", "wipeAll"}
    BY <1>6 DEF Call, FlushFirst, Full, Stage, WriteFrame, CommitIndex, FrameFails,
      IndexFails, RotateDir, RotateHeader, RotateFails, Flush, WipeCurrent, WipeIndex,
      WipeDir, Done, vars
  <2>4. QED
    BY <2>1, <2>2, <2>3 DEF MemInv
<1>7. QED
  BY <1>2, <1>3, <1>4, <1>5, <1>6 DEF Next

\* What is in an SSTable stays there, and what is written behind it is newer.
LEMMA SparedStep ==
  ASSUME LogTypes, [Next]_vars, NEW k \in Keys, Spared(k), truth'[k] = truth[k]
  PROVE  Spared(k)'
<1> USE DEF LogTypes, LogInv
<1>1. truth[k] <= sst'[k]
  <2>1. CASE FlushMemtable \/ FlushData
    <3>1. pc # "down" /\ sst' = [j \in Keys |-> IF mem[j] # 0 THEN mem[j] ELSE sst[j]]
      BY <2>1 DEF FlushMemtable, FlushData, MoveToSst
    <3>2. QED
      BY <3>1 DEF MemInv
  <2>2. CASE sst' = sst
    BY <2>2 DEF Spared
  <2>3. QED
    BY <2>1, <2>2, DataSteps
<1>2. ASSUME NEW i \in dirs', NEW f \in FrameIds, NEW n \in DOMAIN Recs(i, f)',
             Recs(i, f)'[n].key = k
      PROVE  truth[k] <= Recs(i, f)'[n].ver
  <2>1. CASE i \in dirs /\ Recs(i, f)' = Recs(i, f)
    BY <1>2, <2>1 DEF Spared
  <2>2. CASE Recs(i, f)' = staging
    <3>1. truth[k] < staging[n].ver /\ staging[n].ver \in Nat /\ truth[k] \in Nat
      BY <1>2, <2>2, EntryTypes DEF LooseInv, TypesInv, DataInv
    <3>2. QED
      BY <2>2, <3>1
  <2>3. Recs(i, f)' # <<>>
    BY <1>2
  <2>4. QED
    BY <2>1, <2>2, <2>3, FrameSteps DEF Fewer, Rewrites, Recs
<1>3. QED
  BY <1>1, <1>2 DEF Spared

\* Every step keeps CoverInv.
LEMMA CoverStep ==
  ASSUME LogTypes, [Next]_vars
  PROVE  CoverInv'
<1> USE DEF LogTypes, LogInv
<1>1. SUFFICES ASSUME pc' # "wipeAll", NEW k \in Keys
               PROVE  Copy(k, truth[k])' \/ Spared(k)'
  BY DEF CoverInv
<1>2. CASE pc = "wipeAll"
  <2>1. WipeIndex
    BY <1>1, <1>2 DEF Next, Call, FlushFirst, Full, Stage, WriteFrame, CommitIndex,
      Acknowledge, FrameFails, IndexFails, RotateDir, RotateHeader, RotateFails,
      FlushMemtable, Flush, FlushData, WipeCurrent, WipeDir, Crash, Restart, callVars,
      vars, SyncedUse
  <2>2. dirs' = {} /\ UNCHANGED <<truth, sst>>
    BY <2>1 DEF WipeIndex, dataVars
  <2>3. truth[k] <= sst[k]
    BY <1>2 DEF MemInv
  <2>4. QED
    BY <2>2, <2>3 DEF Spared
<1>3. CASE pc # "wipeAll"
  <2>1. ASSUME NEW v, Copy(k, v), truth'[k] = v PROVE Copy(k, truth[k])'
    <3>1. Copy(k, v)'
      BY <1>1, <1>3, <2>1, CopyStep
    <3>2. QED
      BY <2>1, <3>1 DEF Copy
  <2>2. CASE Acknowledge /\ k \in written
    <3>1. op \in {"put", "batch"} /\ pc = "append" /\ queue = <<>> /\ truth'[k] = ver
      BY <2>2 DEF Acknowledge
    <3>2. staging = <<>>
      BY <3>1, NothingLoose
    <3>3. Copy(k, ver)
      BY <2>2, <3>1, <3>2 DEF UnderWayInv
    <3>4. QED
      BY <2>1, <3>1, <3>3
  <2>3. CASE ~(Acknowledge /\ k \in written)
    <3>1. truth'[k] = truth[k]
      BY <2>3, DataSteps DEF Acknowledge
    <3>2. CASE Copy(k, truth[k])
      BY <2>1, <3>1, <3>2
    <3>3. CASE Spared(k)
      BY <3>1, <3>3, SparedStep
    <3>4. QED
      BY <1>3, <3>2, <3>3 DEF CoverInv
  <2>4. QED
    BY <2>2, <2>3
<1>4. QED
  BY <1>2, <1>3

\* An empty log satisfies LogInv.
LEMMA LogInit ==
  ASSUME Init
  PROVE  LogInv
<1>1. /\ dirs = {1} /\ seg = 1 /\ next = 1 /\ staging = <<>> /\ queue = <<>>
      /\ op = "none" /\ pc = "idle" /\ ver = 0
      /\ mem = NoVersion /\ sst = NoVersion /\ truth = NoVersion
  BY DEF Init
<1>2. \A i \in Ids, f \in FrameIds : Recs(i, f) = <<>>
  BY DEF Init, Absent, Recs
<1>3. 1 \in Ids
  BY IndexedAssumption DEF Ids
<1>4. \A i \in dirs, f \in FrameIds : DOMAIN Recs(i, f) = {} /\ Recs(i, f) = <<>>
  BY <1>1, <1>2, <1>3
<1>5. Latest.seg = 1 /\ Latest.frame = 0
  <2>1. slots[0] = NoHeader /\ slots[1] = [NoHeader EXCEPT !.gen = 1, !.seg = 1]
    BY DEF Init
  <2>2. QED
    BY <2>1 DEF Latest, NoHeader
<1>6. \A k \in Keys : truth[k] = 0 /\ mem[k] = 0 /\ sst[k] = 0
  BY <1>1 DEF NoVersion
<1>7. OrderInv
  BY <1>1, <1>4 DEF OrderInv
<1>8. TailInv
  BY <1>1, <1>2, <1>4, <1>5 DEF TailInv
<1>9. LooseInv
  BY <1>1, <1>4, <1>6 DEF LooseInv
<1>10. CoverInv
  BY <1>1, <1>4, <1>6 DEF CoverInv, Spared
<1>11. UnderWayInv /\ MemInv
  BY <1>1, <1>6 DEF UnderWayInv, MemInv
<1>12. QED
  BY <1>7, <1>8, <1>9, <1>10, <1>11 DEF LogInv

\* The invariant that durability rests on.
LEMMA LogInvariant ==
  ASSUME SyncedUse
  PROVE  Spec => [](TypesInv /\ LogInv)
<1>1. Init => TypesInv /\ LogInv
  BY TypesInit, LogInit
<1>2. (TypesInv /\ LogInv) /\ [Next]_vars => (TypesInv /\ LogInv)'
  <2> SUFFICES ASSUME TypesInv /\ LogInv, [Next]_vars PROVE (TypesInv /\ LogInv)'
    OBVIOUS
  <2>1. TypesInv'
    BY RoomStep, DiskStep, CallStep, HeaderStep, DataStep DEF TypesInv
  <2>2. LogTypes
    BY DEF LogTypes
  <2>3. LogInv'
    BY <2>2, OrderStep, TailStep, LooseStep, CoverStep, UnderWayStep, MemStep DEF LogInv
  <2>4. QED
    BY <2>1, <2>3
<1>3. QED
  BY <1>1, <1>2, PTL DEF Spec

\* AckedWritesRecovered holds in every reachable state of SyncedUse: from the
\* frame files that a crash leaves at whatever step, and after whatever I/O
\* errors before it, the replay gives back what write_operation and
\* batch_write_operations acknowledged, or a newer write.
THEOREM AckedWritesReplayed ==
  ASSUME SyncedUse
  PROVE  Spec => []AckedWritesRecovered
<1>1. TypesInv /\ LogInv => AckedWritesRecovered
  <2> SUFFICES ASSUME TypesInv, LogInv, pc = "down", NEW k \in Keys
               PROVE  Recovered(k) >= truth[k]
    BY DEF AckedWritesRecovered
  <2>1. truth[k] <= (IF Replayed(k) # 0 THEN Replayed(k) ELSE sst[k])
    BY RecoversAll DEF LogTypes
  <2>2. truth[k] \in Nat /\ sst[k] \in Nat /\ Replayed(k) \in Nat
    BY ReplayedType DEF TypesInv, DataInv
  <2>3. QED
    BY <2>1, <2>2 DEF Recovered
<1>2. QED
  BY <1>1, LogInvariant, PTL

\* OnlyCopyIsKept holds of every step of SyncedUse: flush_staging never writes
\* over, and truncate_after_flush never removes, an acknowledged entry that no
\* SSTable has, also where initialize resumed from an index that lagged.
THEOREM OnlyCopyStays ==
  ASSUME SyncedUse
  PROVE  Spec => OnlyCopyIsKept
<1>1. ASSUME TypesInv, LogInv, [Next]_vars,
             NEW i \in dirs, NEW f \in Present(i), NEW n \in DOMAIN frame[i][f].recs,
             frame[i][f].recs[n].ver = truth[frame[i][f].recs[n].key],
             sst[frame[i][f].recs[n].key] < frame[i][f].recs[n].ver
      PROVE  \E m \in DOMAIN frame'[i][f].recs :
               frame'[i][f].recs[m] = frame[i][f].recs[n]
  <2> DEFINE e == frame[i][f].recs[n]
  <2>1. i \in Ids /\ f \in FrameIds
    BY <1>1 DEF Present, TypesInv, DiskInv
  <2>2. e \in Entry /\ e.key \in Keys
    BY <1>1, <2>1, EntryTypes DEF Recs, Entry
  <2>3. truth[e.key] \in Nat /\ sst[e.key] \in Nat
    BY <1>1, <2>2 DEF TypesInv, DataInv
  <2>4. ~(truth[e.key] <= sst[e.key])
    BY <1>1, <2>3
  <2>5. CASE frame'[i][f] = frame[i][f]
    BY <1>1, <2>5
  <2>6. ~("wipeAll" \in {pc, pc'}) \/ frame' = frame
    <3>1. pc \notin {"wipe", "wipeAll"}
      BY <1>1, <2>2, <2>4 DEF LogInv, MemInv
    <3>2. pc' = "wipeAll" => pc \in {"wipe", "wipeAll"}
      BY <1>1 DEF Next, Call, FlushFirst, Full, Stage, WriteFrame, CommitIndex,
        Acknowledge, FrameFails, IndexFails, RotateDir, RotateHeader, RotateFails,
        FlushMemtable, Flush, FlushData, WipeCurrent, WipeIndex, WipeDir, Crash,
        Restart, Done, callVars, vars
    <3>3. QED
      BY <3>1, <3>2
  <2>7. CASE Rewrites /\ i = seg /\ f = next
    <3>1. ~Stable(i, f)
      BY <1>1, <2>7, LatestNumbers DEF Stable
    <3>2. truth[e.key] < e.ver
      BY <1>1, <2>1, <2>2, <3>1 DEF LogInv, LooseInv, Recs
    <3>3. QED
      BY <1>1, <2>3, <3>2
  <2>8. frame' = frame \/ Rewrites
    BY <1>1, <2>6, FrameSteps DEF LogTypes, Keeps
  <2>9. QED
    BY <2>1, <2>5, <2>7, <2>8 DEF Rewrites
<1>2. TypesInv /\ LogInv /\ [Next]_vars =>
        [\A i \in dirs : \A f \in Present(i) : \A n \in DOMAIN frame[i][f].recs :
           LET e == frame[i][f].recs[n]
           IN  e.ver = truth[e.key] /\ sst[e.key] < e.ver
               => \E m \in DOMAIN frame'[i][f].recs : frame'[i][f].recs[m] = e]_vars
  BY <1>1
<1>3. QED
  BY <1>2, LogInvariant, PTL DEF Spec, OnlyCopyIsKept
=============================================================================
