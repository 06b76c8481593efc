-------------------------- MODULE WalSegmentsProofs --------------------------
(***************************************************************************)
(* Proofs about WalSegments, for any number of keys, segments, writes,     *)
(* crashes and errors, with or without the cleanup task.                   *)
(***************************************************************************)
EXTENDS WalSegments, WellFoundedInduction, TLAPS

\* A non-empty set of naturals has a least element.
LEMMA LeastNat ==
  ASSUME NEW S \in SUBSET Nat, S # {}
  PROVE  \E m \in S : \A j \in S : m <= j
<1>1. PICK m \in S : \A j \in S : ~(<<j, m>> \in OpToRel(<, Nat))
  BY NatLessThanWellFounded, WFMin
<1>2. \A j \in S : ~(j < m)
  BY <1>1 DEF OpToRel
<1>3. QED
  BY <1>2

\* A bounded non-empty set of naturals has a greatest element, which is what
\* Max returns.
LEMMA MaxNat ==
  ASSUME NEW S \in SUBSET Nat, S # {}, NEW n \in Nat, \A x \in S : x <= n
  PROVE  Max(S) \in S /\ \A x \in S : x <= Max(S)
<1> DEFINE D == {d \in Nat : n - d \in S}
<1>1. D \in SUBSET Nat /\ D # {}
  <2>1. PICK x \in S : TRUE
    OBVIOUS
  <2>2. n - x \in Nat /\ n - (n - x) = x
    BY <2>1
  <2>3. QED
    BY <2>1, <2>2
<1>2. PICK m \in D : \A d \in D : m <= d
  <2> HIDE DEF D
  <2>1. QED
    BY <1>1, LeastNat
<1>3. n - m \in S
  BY <1>2
<1>4. ASSUME NEW x \in S PROVE n - m >= x
  <2>1. n - x \in Nat /\ n - (n - x) = x
    BY <1>4
  <2>2. m <= n - x
    BY <1>2, <1>4, <2>1
  <2>3. QED
    BY <1>1, <1>2, <1>4, <2>1, <2>2
<1>5. \E x \in S : \A y \in S : x >= y
  BY <1>3, <1>4
<1>6. Max(S) \in S /\ \A y \in S : Max(S) >= y
  BY <1>5 DEF Max
<1>7. QED
  BY <1>6

USE WalAssumption
USE DEF segVars, dataVars, taskVars, bounds

\* Appending records of the right type to one segment keeps the log typed and
\* leaves the other segments alone.
LEMMA LogAppend ==
  ASSUME log \in [Ids -> Seq(RecordType)], NEW i \in Ids,
         NEW recs \in Seq(RecordType)
  PROVE  /\ [log EXCEPT ![i] = @ \o recs] \in [Ids -> Seq(RecordType)]
         /\ \A j \in Ids : j # i => [log EXCEPT ![i] = @ \o recs][j] = log[j]
<1>1. log[i] \o recs \in Seq(RecordType)
  OBVIOUS
<1>2. QED
  BY <1>1

\* The records a write logs are well typed.
LEMMA RecordTypes ==
  ASSUME TypeOK
  PROVE  /\ Checkpoint \in RecordType /\ Torn \in RecordType
         /\ ver < MaxWrites => \A k \in Keys :
              PutRec(k) \in RecordType /\ Record("huge", k, ver + 1) \in RecordType
  BY DEF TypeOK, RecordType, Checkpoint, Torn, PutRec, Record

\* Rotation creates the file behind segment_counter, which is a new one.
LEMMA RotateFacts ==
  ASSUME TypeOK, SegmentsInv, Rotate
  PROVE  /\ current' = counter /\ counter \in Ids /\ counter \notin disk
         /\ log[current'] = <<>>
         /\ disk' = disk \cup {counter} /\ disk' \subseteq Ids
         /\ tracked' \subseteq disk /\ tracked' \subseteq tracked \cup {current}
         /\ born' \in [Ids -> 1..MaxTime]
         /\ counter' = counter + 1 /\ counter' \in 1..(MaxIds + 1)
         /\ \A i \in disk' : i < counter'
<1>1. counter \in Ids /\ counter \notin disk
  BY DEF TypeOK, SegmentsInv, Rotate, Ids
<1>2. /\ disk' = disk \cup {counter} /\ current' = counter
      /\ counter' = counter + 1 /\ born' = [born EXCEPT ![counter] = now]
  BY DEF Rotate
<1>3. tracked' \subseteq disk /\ tracked' \subseteq tracked \cup {current}
  BY DEF TypeOK, Rotate, CompleteCurrent
<1>4. log[current'] = <<>>
  BY <1>1, <1>2 DEF SegmentsInv
<1>5. born' \in [Ids -> 1..MaxTime]
  BY <1>1, <1>2 DEF TypeOK
<1>6. \A i \in disk' : i < counter'
  BY <1>1, <1>2 DEF TypeOK, SegmentsInv, Ids
<1>7. counter' \in 1..(MaxIds + 1)
  BY <1>1, <1>2 DEF Ids
<1>8. disk' \subseteq Ids
  BY <1>1, <1>2 DEF TypeOK
<1>9. QED
  BY <1>1, <1>2, <1>3, <1>4, <1>5, <1>6, <1>7, <1>8

\* The part of the state that AppendRecords changes stays well typed, and the
\* segment that it moves to is empty.
LEMMA AppendFacts ==
  ASSUME TypeOK, SegmentsInv, current # 0, NEW n \in Nat,
         NEW recs \in Seq(RecordType), AppendRecords(recs, n)
  PROVE  /\ log' \in [Ids -> Seq(RecordType)] /\ born' \in [Ids -> 1..MaxTime]
         /\ disk' \subseteq Ids /\ disk \subseteq disk' /\ tracked' \subseteq disk'
         /\ current' \in disk' /\ current' \notin tracked'
         /\ current' \notin pending /\ tracked' \cap pending = {}
         /\ counter' \in 1..(MaxIds + 1)
         /\ SegmentsInv'
         /\ current' # current => log[current'] = <<>>
<1>1. CASE Fits(n)
  <2>1. UNCHANGED <<tracked, current, disk, born, counter>>
    BY <1>1 DEF AppendRecords, Stay
  <2>2. current \in Ids /\ current' = current
    BY <2>1 DEF TypeOK
  <2>3. log' = [log EXCEPT ![current] = @ \o recs]
    BY <2>2 DEF AppendRecords
  <2>4. log' \in [Ids -> Seq(RecordType)] /\ \A j \in Ids : j # current => log'[j] = log[j]
    BY <2>2, <2>3, LogAppend DEF TypeOK
  <2>5. QED
    BY <2>1, <2>2, <2>4 DEF TypeOK, SegmentsInv
<1>2. CASE ~Fits(n)
  <2>1. Rotate
    BY <1>2 DEF AppendRecords
  <2>2. current' \in Ids /\ log' = [log EXCEPT ![current'] = @ \o recs]
    BY <2>1, RotateFacts DEF AppendRecords
  <2>3. log' \in [Ids -> Seq(RecordType)] /\ \A j \in Ids : j # current' => log'[j] = log[j]
    BY <2>2, LogAppend DEF TypeOK
  <2>4. current' \notin disk /\ current' # current
    BY <2>1, RotateFacts DEF TypeOK
  <2>5. SegmentsInv'
    BY <2>1, <2>3, RotateFacts DEF SegmentsInv
  <2>6. current' \notin pending /\ tracked' \cap pending = {}
    <3>1. tracked' \subseteq tracked \cup {current}
      BY <2>1, RotateFacts
    <3>2. QED
      BY <2>4, <3>1 DEF TypeOK
  <2>7. QED
    BY <2>1, <2>3, <2>4, <2>5, <2>6, RotateFacts DEF TypeOK
<1>3. QED
  BY <1>1, <1>2

\* The keys of a write, and the records that stand for them.
LEMMA BatchFacts ==
  ASSUME TypeOK, ver < MaxWrites, NEW s \in Batches
  PROVE  /\ Len(s) \in Nat \ {0} /\ DOMAIN s = 1..Len(s)
         /\ [i \in DOMAIN s |-> PutRec(s[i])] \in Seq(RecordType)
         /\ \A n \in 0..Len(s) : [i \in 1..n |-> PutRec(s[i])] \in Seq(RecordType)
         /\ \A h : [i \in DOMAIN s |-> IF i = h THEN Record("huge", s[i], ver + 1)
                                       ELSE PutRec(s[i])] \in Seq(RecordType)
<1>1. PICK n \in 1..Cardinality(Keys) : s \in [1..n -> Keys]
  BY DEF Batches
<1>2. n \in Nat \ {0} /\ s \in Seq(Keys) /\ Len(s) = n /\ DOMAIN s = 1..n
  BY <1>1
<1>3. \A i \in 1..n : PutRec(s[i]) \in RecordType
                      /\ Record("huge", s[i], ver + 1) \in RecordType
  BY <1>1, RecordTypes
<1>4. \A m \in 0..n : [i \in 1..m |-> PutRec(s[i])] \in Seq(RecordType)
  BY <1>2, <1>3
<1>5. \A h : [i \in 1..n |-> IF i = h THEN Record("huge", s[i], ver + 1)
                             ELSE PutRec(s[i])] \in Seq(RecordType)
  BY <1>2, <1>3
<1>6. QED
  BY <1>2, <1>4, <1>5

\* An acknowledged write keeps the maps typed.
LEMMA AcknowledgeTypes ==
  ASSUME TypeOK, ver < MaxWrites, NEW s, Acknowledge(s)
  PROVE  /\ mem' \in [Keys -> 0..MaxWrites] /\ truth' \in [Keys -> 0..MaxWrites]
         /\ ver' \in 0..MaxWrites
  BY DEF TypeOK, Acknowledge

\* So does a flush.
LEMMA MoveTypes ==
  ASSUME TypeOK, MoveToSst
  PROVE  mem' \in [Keys -> 0..MaxWrites] /\ sst' \in [Keys -> 0..MaxWrites]
  BY DEF TypeOK, MoveToSst, NoVersion

\* The place q is replayed before p, or is p: the order of the stable sort.
NotAfter(q, p) ==
  \/ At(q).ts < At(p).ts
  \/ At(q).ts = At(p).ts /\ (q[1] < p[1] \/ (q[1] = p[1] /\ q[2] <= p[2]))

\* The last place of a set of records that can be read is one of them, and
\* none of them is replayed after it.
LEMMA LastPlaceIn ==
  ASSUME log \in [Ids -> Seq(RecordType)], disk \subseteq Ids,
         NEW R \in SUBSET Places, R # {}
  PROVE  LastPlace(R) \in R /\ \A q \in R : NotAfter(q, LastPlace(R))
<1> DEFINE T == {At(q).ts : q \in R}
           L == Latest(R)
           I == {p[1] : p \in L}
           i == Max(I)
           N == {p[2] : p \in {q \in L : q[1] = i}}
<1>1. \A p \in Places : /\ p = <<p[1], p[2]>> /\ p[1] \in disk
                        /\ p[2] \in DOMAIN log[p[1]]
  BY DEF Places, Readable
<1>2. \A p \in Places : At(p) \in RecordType
  BY <1>1 DEF At
<1>3. T \in SUBSET Nat /\ T # {} /\ \A t \in T : t <= MaxTime
  BY <1>2 DEF RecordType
<1>4. Max(T) \in T /\ \A t \in T : t <= Max(T)
  <2> HIDE DEF T
  <2>1. QED
    BY <1>3, MaxNat
<1>5. L # {} /\ L \subseteq R /\ \A p \in R : p \in L <=> At(p).ts = Max(T)
  BY <1>4 DEF Latest
<1>6. I \in SUBSET Nat /\ I # {} /\ \A x \in I : x <= MaxIds
  <2>1. I \subseteq Ids /\ I # {}
    BY <1>1, <1>5
  <2> HIDE DEF I
  <2>2. QED
    BY <2>1 DEF Ids
<1>7. i \in I /\ \A x \in I : x <= i
  <2> HIDE DEF I
  <2>1. QED
    BY <1>6, MaxNat
<1>8. i \in Ids /\ \E p \in L : p[1] = i
  BY <1>1, <1>5, <1>7
<1>9. N \in SUBSET Nat /\ N # {} /\ Len(log[i]) \in Nat /\ \A x \in N : x <= Len(log[i])
  <2>1. log[i] \in Seq(RecordType) /\ DOMAIN log[i] = 1..Len(log[i])
    BY <1>8
  <2>2. N # {}
    BY <1>8
  <2>3. ASSUME NEW x \in N PROVE x \in DOMAIN log[i]
    <3>1. PICK p \in L : p[1] = i /\ x = p[2]
      BY <2>3
    <3>2. p \in Places
      BY <1>5, <3>1
    <3>3. QED
      BY <1>1, <3>1, <3>2
  <2> HIDE DEF N
  <2>4. Len(log[i]) \in Nat /\ \A x \in 1..Len(log[i]) : x \in Nat /\ x <= Len(log[i])
    BY <2>1
  <2>5. QED
    BY <2>1, <2>2, <2>3, <2>4
<1>10. Max(N) \in N /\ \A x \in N : x <= Max(N)
  <2> HIDE DEF N
  <2>1. QED
    BY <1>9, MaxNat
<1>11. <<i, Max(N)>> \in L
  <2>1. PICK p \in L : p[1] = i /\ p[2] = Max(N)
    BY <1>10
  <2>2. QED
    BY <1>1, <1>5, <2>1
<1>12. LastPlace(R) = <<i, Max(N)>>
  BY DEF LastPlace
<1>13. ASSUME NEW q \in R PROVE NotAfter(q, <<i, Max(N)>>)
  <2>1. At(<<i, Max(N)>>).ts = Max(T) /\ At(q).ts \in T
    BY <1>5, <1>11
  <2>2. CASE At(q).ts = Max(T)
    <3>1. q \in L /\ q[1] \in I
      BY <1>5, <2>2
    <3>2. q[1] <= i /\ q[1] \in Nat /\ i \in Nat
      BY <1>6, <1>7, <3>1
    <3>3. q[1] = i => q[2] \in N
      BY <3>1
    <3>4. q[1] = i => q[2] <= Max(N)
      BY <1>10, <3>3
    <3>5. QED
      <4>1. PICK a, n : a = i /\ n = Max(N)
        OBVIOUS
      <4>2. q[1] < a \/ (q[1] = a /\ q[2] <= n)
        BY <3>2, <3>4, <4>1
      <4>3. At(<<a, n>>).ts = At(q).ts
        BY <2>1, <2>2, <4>1
      <4>4. NotAfter(q, <<a, n>>)
        BY <4>2, <4>3 DEF NotAfter
      <4>5. QED
        BY <4>1, <4>4
  <2>3. CASE At(q).ts # Max(T)
    <3>1. At(q).ts <= Max(T) /\ At(q).ts \in Nat /\ Max(T) \in Nat
      BY <1>3, <1>4, <2>1
    <3>2. QED
      BY <2>1, <2>3, <3>1 DEF NotAfter
  <2>4. QED
    BY <2>2, <2>3
<1>14. QED
  BY <1>5, <1>11, <1>12, <1>13

\* Replay yields versions that are in the log.
LEMMA ReplayedType ==
  ASSUME log \in [Ids -> Seq(RecordType)], disk \subseteq Ids, NEW k
  PROVE  Replayed(k) \in 0..MaxWrites
<1>1. CASE Replay(k) = {}
  BY <1>1 DEF Replayed
<1>2. CASE Replay(k) # {}
  <2>1. \A p \in Places : At(p) \in RecordType
    BY DEF Places, Readable, At
  <2>2. Replay(k) \subseteq Places
    BY DEF Replay
  <2>3. LastPlace(Replay(k)) \in Places
    BY <1>2, <2>2, LastPlaceIn
  <2>4. QED
    BY <1>2, <2>1, <2>3 DEF Replayed, RecordType
<1>3. QED
  BY <1>1, <1>2

\* scan_existing_segments hands out an id behind every file.
LEMMA ScanFacts ==
  ASSUME TypeOK
  PROVE  /\ ScanNext \in Nat \ {0} /\ ScanNext <= MaxIds + 1
         /\ \A i \in disk : i < ScanNext
         /\ ScanNext > 1 => ScanNext - 1 \in disk
<1> DEFINE S == {0} \cup disk
<1>1. S \in SUBSET Nat /\ S # {} /\ \A x \in S : x <= MaxIds
  BY DEF TypeOK, Ids
<1>2. Max(S) \in S /\ \A x \in S : x <= Max(S)
  <2> HIDE DEF S
  <2>1. QED
    BY <1>1, MaxNat
<1>3. PICK m \in Nat : m = Max(S) /\ m <= MaxIds
  BY <1>1, <1>2
<1>4. ScanNext = m + 1
  BY <1>3 DEF ScanNext
<1>5. (m = 0 \/ m \in disk) /\ \A i \in disk : i <= m /\ i \in Nat
  BY <1>1, <1>2, <1>3
<1>6. QED
  BY <1>3, <1>4, <1>5

IInv == TypeOK /\ SegmentsInv
StartsEmpty == current' # current /\ current' # 0 => log[current'] = <<>>

\* put, delete, batch_put and the checkpoint of shutdown() keep the invariant.
LEMMA WriteKeeps ==
  ASSUME IInv, NEW s \in Batches,
         \/ Write(s)
         \/ \E h \in DOMAIN s : WriteHuge(s, h)
         \/ \E n \in 0..Len(s) : WriteFails(s, n, <<>>)
         \/ \E n \in 0..(Len(s) - 1) : WriteFails(s, n, <<Torn>>)
  PROVE  IInv' /\ StartsEmpty
<1> USE DEF IInv
<1>0. CanWrite /\ current # 0 /\ ver < MaxWrites /\ pc = "idle"
  BY DEF Write, WriteHuge, WriteFails, CanWrite
<1>1. \E recs \in Seq(RecordType), n \in Nat : AppendRecords(recs, n)
  <2>1. CASE Write(s)
    BY <1>0, <2>1, BatchFacts DEF Write
  <2>2. ASSUME NEW h \in DOMAIN s, WriteHuge(s, h)
        PROVE  \E recs \in Seq(RecordType), n \in Nat : AppendRecords(recs, n)
    <3> DEFINE recs == IF Len(s) = 1 THEN <<>>
                       ELSE [i \in DOMAIN s |->
                              IF i = h THEN Record("huge", s[i], ver + 1)
                              ELSE PutRec(s[i])]
    <3>1. recs \in Seq(RecordType) /\ SegCap + 1 \in Nat
      <4>1. [i \in DOMAIN s |-> IF i = h THEN Record("huge", s[i], ver + 1)
                                ELSE PutRec(s[i])] \in Seq(RecordType)
        BY <1>0, BatchFacts
      <4>2. QED
        BY <4>1
    <3>2. AppendRecords(recs, SegCap + 1)
      BY <2>2 DEF WriteHuge
    <3> HIDE DEF recs
    <3>3. QED
      BY <3>1, <3>2
  <2>3. ASSUME NEW n \in 0..Len(s), NEW tail \in Seq(RecordType),
               WriteFails(s, n, tail)
        PROVE  \E recs \in Seq(RecordType), m \in Nat : AppendRecords(recs, m)
    <3> DEFINE recs == [i \in 1..n |-> PutRec(s[i])]
    <3>1. recs \in Seq(RecordType) /\ Len(s) \in Nat
      BY <1>0, BatchFacts
    <3>2. AppendRecords(recs \o tail, Len(s))
      BY <2>3 DEF WriteFails
    <3> HIDE DEF recs
    <3>3. recs \o tail \in Seq(RecordType)
      BY <3>1
    <3>4. QED
      BY <3>1, <3>2, <3>3
  <2>4. <<>> \in Seq(RecordType) /\ <<Torn>> \in Seq(RecordType)
    BY RecordTypes
  <2>5. 0..(Len(s) - 1) \subseteq 0..Len(s)
    BY <1>0, BatchFacts
  <2>6. QED
    BY <2>1, <2>2, <2>3, <2>4, <2>5
<1>2. /\ log' \in [Ids -> Seq(RecordType)] /\ born' \in [Ids -> 1..MaxTime]
      /\ disk' \subseteq Ids /\ disk \subseteq disk' /\ tracked' \subseteq disk'
      /\ current' \in disk' /\ current' \notin tracked'
      /\ current' \notin pending /\ tracked' \cap pending = {}
      /\ counter' \in 1..(MaxIds + 1)
      /\ SegmentsInv' /\ StartsEmpty
  BY <1>0, <1>1, AppendFacts DEF StartsEmpty
<1>3. /\ mem' \in [Keys -> 0..MaxWrites] /\ truth' \in [Keys -> 0..MaxWrites]
      /\ ver' \in 0..MaxWrites
  <2>1. CASE Acknowledge(s)
    BY <1>0, <2>1, AcknowledgeTypes
  <2>2. CASE ver' = ver + 1 /\ UNCHANGED <<mem, truth>>
    BY <1>0, <2>2 DEF TypeOK
  <2>3. QED
    BY <2>1, <2>2 DEF Write, WriteHuge, WriteFails
<1>4. UNCHANGED <<sst, pc, pending, now, crashes>> /\ errors' \in 0..MaxErrors
  <2>1. CASE UNCHANGED <<sst, taskVars, now, bounds>>
    BY <2>1 DEF TypeOK
  <2>2. CASE /\ UNCHANGED <<sst, taskVars, now, crashes>>
             /\ errors < MaxErrors /\ errors' = errors + 1
    BY <2>2 DEF TypeOK
  <2>3. QED
    BY <2>1, <2>2 DEF Write, WriteHuge, WriteFails
<1>5. QED
  BY <1>2, <1>3, <1>4 DEF TypeOK

\* flush(), shutdown() and the truncation they run keep the invariant.
LEMMA TruncationKeeps ==
  ASSUME IInv,
         \/ FlushMemtable \/ Flush \/ Shutdown \/ Close \/ Renew \/ TruncateFails
         \/ \E i \in Ids : RemoveFile(i)
  PROVE  IInv' /\ StartsEmpty
<1> USE DEF IInv
<1>1. CASE FlushMemtable
  BY <1>1, MoveTypes DEF FlushMemtable, TypeOK, SegmentsInv, StartsEmpty
<1>2. CASE Flush
  BY <1>2, MoveTypes DEF Flush, TypeOK, SegmentsInv, StartsEmpty, Pcs
<1>3. CASE Shutdown
  <2>0. /\ mem' \in [Keys -> 0..MaxWrites] /\ sst' \in [Keys -> 0..MaxWrites]
        /\ pc' \in Pcs /\ UNCHANGED <<truth, ver, pending, now, bounds>>
    BY <1>3, MoveTypes DEF Shutdown, Pcs
  <2>1. CASE current = 0
    <3>1. UNCHANGED segVars
      BY <1>3, <2>1 DEF Shutdown
    <3>2. QED
      BY <2>0, <3>1 DEF TypeOK, SegmentsInv, StartsEmpty
  <2>2. CASE current # 0
    <3>1. <<Checkpoint>> \in Seq(RecordType) /\ 1 \in Nat
      BY RecordTypes
    <3>2. AppendRecords(<<Checkpoint>>, 1)
      BY <1>3, <2>2 DEF Shutdown
    <3>3. /\ log' \in [Ids -> Seq(RecordType)] /\ born' \in [Ids -> 1..MaxTime]
          /\ disk' \subseteq Ids /\ disk \subseteq disk' /\ tracked' \subseteq disk'
          /\ current' \in disk' /\ current' \notin tracked'
          /\ current' \notin pending /\ tracked' \cap pending = {}
          /\ counter' \in 1..(MaxIds + 1)
          /\ SegmentsInv' /\ StartsEmpty
      BY <2>2, <3>1, <3>2, AppendFacts DEF StartsEmpty
    <3>4. QED
      BY <2>0, <3>3 DEF TypeOK
  <2>3. QED
    BY <2>1, <2>2
<1>4. CASE Close
  <2>1. 0 \notin disk
    BY DEF TypeOK, Ids
  <2>2. QED
    BY <1>4, <2>1 DEF Close, TypeOK, SegmentsInv, StartsEmpty, Pcs
<1>5. CASE Renew
  <2>1. Rotate /\ pc' = "idle" /\ pending = {}
        /\ UNCHANGED <<log, dataVars, pending, now, bounds>>
    BY <1>5 DEF Renew
  <2>2. current' \notin disk /\ current' \in disk' /\ tracked' \subseteq disk
    BY <2>1, RotateFacts
  <2>3. SegmentsInv'
    BY <2>1, RotateFacts DEF SegmentsInv
  <2>4. StartsEmpty
    BY <2>1, RotateFacts DEF StartsEmpty
  <2>5. TypeOK'
    BY <2>1, <2>2, RotateFacts DEF TypeOK, Pcs
  <2>6. QED
    BY <2>3, <2>4, <2>5
<1>6. CASE TruncateFails
  BY <1>6 DEF TruncateFails, TypeOK, SegmentsInv, StartsEmpty, Pcs
<1>7. ASSUME NEW i \in Ids, RemoveFile(i)
      PROVE  IInv' /\ StartsEmpty
  <2>1. /\ i \in pending /\ pending' = pending \ {i} /\ disk' = disk \ {i}
        /\ log' = [j \in Ids |-> IF j \in {i} THEN <<>> ELSE log[j]]
        /\ UNCHANGED <<born, current, tracked, counter, dataVars, pc, now, bounds>>
    BY <1>7 DEF RemoveFile, Unlink
  <2>2. log' \in [Ids -> Seq(RecordType)]
    BY <2>1 DEF TypeOK
  <2>3. QED
    BY <2>1, <2>2 DEF TypeOK, SegmentsInv, StartsEmpty
<1>8. QED
  BY <1>1, <1>2, <1>3, <1>4, <1>5, <1>6, <1>7

\* The cleanup task, a failed rotation and the clock keep the invariant.
LEMMA CleanupKeeps ==
  ASSUME IInv,
         \/ Tick \/ Clean \/ CleanDone \/ ForceCleanup
         \/ \E i \in Ids : SkipFile(i)
         \/ \E s \in Batches : RotateFails(s)
  PROVE  IInv' /\ StartsEmpty
<1> USE DEF IInv
<1>1. CASE Tick
  BY <1>1 DEF Tick, TypeOK, SegmentsInv, StartsEmpty
<1>2. CASE Clean
  <2>1. Expired \subseteq tracked
    BY DEF Expired
  <2>2. /\ pending' = Expired /\ tracked' = tracked \ Expired /\ pc' \in Pcs
        /\ UNCHANGED <<log, born, disk, current, counter, dataVars, now, bounds>>
    BY <1>2 DEF Clean, Pcs
  <2> HIDE DEF Expired
  <2>3. QED
    BY <2>1, <2>2 DEF TypeOK, SegmentsInv, StartsEmpty
<1>3. CASE CleanDone
  BY <1>3 DEF CleanDone, TypeOK, SegmentsInv, StartsEmpty, Pcs
<1>4. CASE ForceCleanup
  <2>1. /\ disk' = disk \ {current} /\ pending' = tracked /\ tracked' = {}
        /\ log' = [j \in Ids |-> IF j \in {current} THEN <<>> ELSE log[j]]
        /\ current' = 0 /\ pc' \in Pcs
        /\ UNCHANGED <<born, counter, dataVars, now, bounds>>
    BY <1>4 DEF ForceCleanup, Unlink, Pcs
  <2>2. log' \in [Ids -> Seq(RecordType)] /\ 0 \notin disk
    BY <2>1 DEF TypeOK, Ids
  <2>3. QED
    BY <2>1, <2>2 DEF TypeOK, SegmentsInv, StartsEmpty
<1>5. ASSUME NEW i \in Ids, SkipFile(i)
      PROVE  IInv' /\ StartsEmpty
  BY <1>5 DEF SkipFile, TypeOK, SegmentsInv, StartsEmpty
<1>6. ASSUME NEW s \in Batches, RotateFails(s)
      PROVE  IInv' /\ StartsEmpty
  <2>1. /\ pc = "idle" /\ current \in disk /\ current' = 0
        /\ errors' \in 0..MaxErrors
        /\ UNCHANGED <<log, born, disk, counter, dataVars, taskVars, now, crashes>>
    BY <1>6 DEF RotateFails, CanWrite, TypeOK
  <2>2. tracked' = tracked \/ tracked' = tracked \cup {current}
    BY <1>6 DEF RotateFails, CompleteCurrent
  <2>3. 0 \notin disk
    BY DEF TypeOK, Ids
  <2>4. QED
    BY <2>1, <2>2, <2>3 DEF TypeOK, SegmentsInv, StartsEmpty
<1>7. QED
  BY <1>1, <1>2, <1>3, <1>4, <1>5, <1>6

\* A crash and the restart after it keep the invariant: the segment that the
\* restart makes current is the last file if that is empty, else a new one.
LEMMA RecoveryKeeps ==
  ASSUME IInv, (\E tail \in Tails : Crash(tail)) \/ Restart
  PROVE  IInv' /\ StartsEmpty
<1> USE DEF IInv
<1>1. ASSUME NEW tail \in Tails, Crash(tail)
      PROVE  IInv' /\ StartsEmpty
  <2>1. /\ crashes' \in 0..MaxCrashes
        /\ current' = 0 /\ tracked' = {} /\ pending' = {} /\ pc' \in Pcs
        /\ mem' \in [Keys -> 0..MaxWrites]
        /\ UNCHANGED <<born, disk, counter, sst, truth, now, errors>>
    BY <1>1 DEF Crash, TypeOK, Pcs, NoVersion
  <2>2. 0 \notin disk
    BY DEF TypeOK, Ids
  <2>3. CASE tail = <<>>
    <3>1. UNCHANGED <<log, ver>>
      BY <1>1, <2>3 DEF Crash
    <3>2. QED
      BY <2>1, <2>2, <3>1 DEF TypeOK, SegmentsInv, StartsEmpty
  <2>4. CASE tail # <<>>
    <3>1. /\ current \in disk /\ ver < MaxWrites
          /\ log' = [log EXCEPT ![current] = @ \o tail] /\ ver' = ver + 1
      BY <1>1, <2>4 DEF Crash, CanWrite, TypeOK
    <3>2. tail \in Seq(RecordType)
      <4>1. \A r \in RecordType : <<r>> \in Seq(RecordType)
        OBVIOUS
      <4>2. tail = <<Torn>> \/ \E k \in Keys : tail = <<PutRec(k)>>
        BY <2>4 DEF Tails
      <4>3. QED
        BY <3>1, <4>1, <4>2, RecordTypes
    <3>3. /\ log' \in [Ids -> Seq(RecordType)]
          /\ \A j \in Ids : j # current => log'[j] = log[j]
      BY <3>1, <3>2, LogAppend DEF TypeOK
    <3>4. ver' \in 0..MaxWrites
      BY <3>1 DEF TypeOK
    <3>5. QED
      BY <2>1, <2>2, <3>1, <3>3, <3>4 DEF TypeOK, SegmentsInv, StartsEmpty
  <2>5. QED
    BY <2>3, <2>4
<1>2. CASE Restart
  <2>1. mem' \in [Keys -> 0..MaxWrites]
    <3>1. \A k \in Keys : Replayed(k) \in 0..MaxWrites
      BY ReplayedType DEF TypeOK
    <3>2. QED
      BY <1>2, <3>1 DEF Restart
  <2>2. /\ pc' \in Pcs
        /\ UNCHANGED <<log, sst, truth, ver, now, bounds>>
    BY <1>2 DEF Restart, Pcs
  <2>3. tracked' = {} /\ pending' = {}
    BY <1>2 DEF Restart
  <2>4. CASE Reusable
    <3>1. /\ current' = ScanNext - 1 /\ counter' = ScanNext
          /\ UNCHANGED <<disk, born>>
      BY <1>2, <2>4 DEF Restart
    <3>2. ScanNext - 1 \in disk /\ log[ScanNext - 1] = <<>>
      BY <2>4, ScanFacts DEF Reusable
    <3>3. ScanNext \in 1..(MaxIds + 1)
      BY ScanFacts
    <3>4. QED
      BY <2>1, <2>2, <2>3, <3>1, <3>2, <3>3, ScanFacts
         DEF TypeOK, SegmentsInv, StartsEmpty
  <2>5. CASE ~Reusable
    <3>1. /\ ScanNext <= MaxIds
          /\ current' = ScanNext /\ counter' = ScanNext + 1
          /\ disk' = disk \cup {ScanNext}
          /\ born' = [born EXCEPT ![ScanNext] = now]
      BY <1>2, <2>5 DEF Restart
    <3>2. ScanNext \in Ids /\ ScanNext \notin disk /\ counter' \in 1..(MaxIds + 1)
      BY <3>1, ScanFacts DEF Ids
    <3>3. \A i \in disk' : i < counter'
      <4>1. ScanNext \in Nat /\ \A i \in disk : i \in Nat /\ i < ScanNext
        <5>1. \A i \in disk : i \in Nat
          BY DEF TypeOK, Ids
        <5>2. QED
          BY <5>1, ScanFacts
      <4>2. QED
        BY <3>1, <4>1
    <3>4. log[ScanNext] = <<>>
      BY <3>2 DEF SegmentsInv
    <3>5. born' \in [Ids -> 1..MaxTime]
      BY <3>1, <3>2 DEF TypeOK
    <3>6. QED
      BY <2>1, <2>2, <2>3, <3>1, <3>2, <3>3, <3>4, <3>5
         DEF TypeOK, SegmentsInv, StartsEmpty
  <2>6. QED
    BY <2>4, <2>5
<1>3. QED
  BY <1>1, <1>2

\* What initialize leaves in an empty directory satisfies the invariant.
LEMMA InitIInv == Init => IInv
<1>1. ASSUME Init PROVE TypeOK
  <2>1. 1 \in Ids /\ 2 \in 1..(MaxIds + 1) /\ 1 \in 1..MaxTime
    BY DEF Ids
  <2>2. QED
    BY <1>1, <2>1 DEF Init, TypeOK, NoVersion, Pcs
<1>2. ASSUME Init PROVE SegmentsInv
  BY <1>2 DEF Init, SegmentsInv
<1>3. QED
  BY <1>1, <1>2 DEF IInv

\* Every step keeps it, and makes only empty segments current.
LEMMA StepKeeps ==
  ASSUME IInv, [Next]_vars
  PROVE  IInv' /\ [StartsEmpty]_vars
<1>1. CASE Next
  BY <1>1, WriteKeeps, TruncationKeeps, CleanupKeeps, RecoveryKeeps DEF Next
<1>2. CASE UNCHANGED vars
  BY <1>2 DEF IInv, TypeOK, SegmentsInv, vars
<1>3. QED
  BY <1>1, <1>2

\* The log manager keeps its segments, its list and its handle consistent with
\* the files, through rotation, truncation, cleanup, failure, crash and restart.
THEOREM WalTypes == Spec => []TypeOK
<1>1. IInv /\ [Next]_vars => IInv'
  BY StepKeeps
<1>2. IInv => TypeOK
  BY DEF IInv
<1>3. QED
  BY <1>1, <1>2, InitIInv, PTL DEF Spec

\* A segment that becomes current is empty: no rotation and no restart ever
\* puts a fresh header over records.
THEOREM RotationIsFresh == Spec => CurrentStartsEmpty
<1>1. IInv /\ [Next]_vars => IInv'
  BY StepKeeps
<1>2. IInv /\ [Next]_vars =>
        [current' # current /\ current' # 0 => log[current'] = <<>>]_vars
  BY StepKeeps DEF StartsEmpty
<1>3. QED
  BY <1>1, <1>2, InitIInv, PTL DEF Spec, CurrentStartsEmpty

-----------------------------------------------------------------------------
(* Recovery                                                                *)

\* No I/O error, no cleanup, no value larger than a segment, and no crash
\* between the first and the last step of a truncation.  Without any of the
\* four AckedWritesRecovered fails.
PlainUse ==
  MaxErrors = 0 /\ ~Cleaner /\ ~Oversize /\ CrashIn \subseteq {"idle"}

\* A checkpoint is there only between shutdown()'s call and its removals; what
\* is torn is the end of a segment that is written no more.
KindsInv ==
  \A i \in Ids : \A n \in DOMAIN log[i] :
    LET r == log[i][n]
    IN  /\ r.kind \in {"put", "torn", "ckpt"} /\ r.ver <= ver /\ r.ts <= now
        /\ r.kind = "put" => r.ver # 0
        /\ r.kind = "ckpt" => pc \in {"close", "remove"}
        /\ r.kind = "torn" => n = Len(log[i]) /\ i # current

\* The order of the files is the order of the writes and of the clock.
Sorted(l) ==
  \A i, j \in Ids : \A m \in DOMAIN l[i], n \in DOMAIN l[j] :
    /\ l[i][m].kind = "put" /\ l[j][n].kind = "put"
    /\ i < j \/ (i = j /\ m < n)
    => l[i][m].ver <= l[j][n].ver /\ l[i][m].ts <= l[j][n].ts

\* Writes go to the last segment; a truncation removes all of them.
TailInv ==
  /\ current # 0 => \A i \in disk : i <= current
  /\ pc \in {"idle", "close", "remove", "down"}
  /\ pc = "remove" => current = 0 /\ pending = disk
  /\ pc = "down" => current = 0

\* An acknowledged write is in the log, or in an SSTable with no older one left
\* in the log.
Copy(l, k, v) ==
  \E i \in Ids : \E n \in DOMAIN l[i] :
    l[i][n].kind = "put" /\ l[i][n].key = k /\ l[i][n].ver = v
NoneOlder(l, k, v) ==
  \A i \in Ids : \A n \in DOMAIN l[i] :
    l[i][n].kind = "put" /\ l[i][n].key = k => v <= l[i][n].ver
Held(k) ==
  \/ Copy(log, k, truth[k])
  \/ truth[k] <= sst[k] /\ NoneOlder(log, k, truth[k])
CoverInv == pc \in {"idle", "down"} => \A k \in Keys : Held(k)

\* What a flush moves to SSTables is not behind what was acknowledged.
MemInv ==
  /\ \A k \in Keys : truth[k] <= ver
  /\ pc # "down" => \A k \in Keys : truth[k] <= (IF mem[k] # 0 THEN mem[k] ELSE sst[k])
  /\ pc \in {"close", "remove"} => \A k \in Keys : truth[k] <= sst[k]

LogInv == KindsInv /\ Sorted(log) /\ TailInv /\ CoverInv /\ MemInv

LogTypes == IInv /\ LogInv /\ PlainUse

\* Records are of the right type, and in files.
LEMMA LogFacts ==
  ASSUME IInv
  PROVE  \A i \in Ids : /\ i \in Nat \ {0} /\ log[i] \in Seq(RecordType)
                        /\ \A n \in DOMAIN log[i] :
                             /\ i \in disk /\ n \in Nat \ {0} /\ n <= Len(log[i])
                             /\ log[i][n] \in RecordType
                             /\ log[i][n].ver \in Nat /\ log[i][n].ts \in Nat \ {0}
<1> SUFFICES ASSUME NEW i \in Ids
             PROVE  /\ i \in Nat \ {0} /\ log[i] \in Seq(RecordType)
                    /\ \A n \in DOMAIN log[i] :
                         /\ i \in disk /\ n \in Nat \ {0} /\ n <= Len(log[i])
                         /\ log[i][n] \in RecordType
                         /\ log[i][n].ver \in Nat /\ log[i][n].ts \in Nat \ {0}
  OBVIOUS
<1>1. i \in Nat \ {0} /\ log[i] \in Seq(RecordType)
  BY DEF IInv, TypeOK, Ids
<1>2. ASSUME NEW n \in DOMAIN log[i]
      PROVE  /\ i \in disk /\ n \in Nat \ {0} /\ n <= Len(log[i])
             /\ log[i][n] \in RecordType
  BY <1>1, <1>2 DEF IInv, SegmentsInv
<1>3. \A r \in RecordType : r.ver \in Nat /\ r.ts \in Nat \ {0}
  BY DEF RecordType
<1>4. QED
  BY <1>1, <1>2, <1>3

\* Where no checkpoint is left the replay is over all puts in the log.
LEMMA ReplayIsAll ==
  ASSUME LogTypes, pc \notin {"close", "remove"}, NEW k
  PROVE  /\ \A p \in Replay(k) :
              /\ p = <<p[1], p[2]>> /\ p[1] \in Ids /\ p[2] \in DOMAIN log[p[1]]
              /\ At(p).kind = "put" /\ At(p).key = k
         /\ \A i \in Ids : \A n \in DOMAIN log[i] :
              log[i][n].kind = "put" /\ log[i][n].key = k => <<i, n>> \in Replay(k)
<1> USE DEF LogTypes, LogInv
<1>1. \A p \in Places : /\ p = <<p[1], p[2]>> /\ p[1] \in Ids
                        /\ p[2] \in DOMAIN log[p[1]]
  <2>1. \A p \in Places : /\ p = <<p[1], p[2]>> /\ p[1] \in disk
                          /\ p[2] \in DOMAIN log[p[1]]
    BY DEF Places, Readable
  <2>2. QED
    BY <2>1 DEF IInv, TypeOK
<1>2. \A p \in Places : At(p).kind # "ckpt"
  BY <1>1 DEF At, KindsInv
<1>3. LastCheckpoint = 0
  <2>1. {0} \cup {At(p).ts : p \in {q \in Places : At(q).kind = "ckpt"}} = {0}
    BY <1>2
  <2>2. Max({0}) \in {0}
    BY MaxNat
  <2>3. QED
    BY <2>1, <2>2 DEF LastCheckpoint
<1>4. ASSUME NEW i \in Ids, NEW n \in DOMAIN log[i], log[i][n].kind = "put",
             log[i][n].key = k
      PROVE  <<i, n>> \in Replay(k)
  <2>1. /\ i \in disk /\ n \in Nat \ {0} /\ n <= Len(log[i]) /\ log[i][n].ts > 0
        /\ DOMAIN log[i] = 1..Len(log[i]) /\ Len(log[i]) \in Nat
    BY LogFacts
  <2>2. ASSUME NEW m \in 1..n PROVE log[i][m].kind \in {"put", "ckpt"}
    <3>1. m \in DOMAIN log[i] /\ (m = n \/ m # Len(log[i]))
      BY <2>1
    <3>2. QED
      BY <1>4, <3>1 DEF KindsInv
  <2>3. n \in Readable(i)
    BY <2>2 DEF Readable
  <2>4. <<i, n>> \in Places
    BY <2>1, <2>3 DEF Places
  <2>5. At(<<i, n>>) = log[i][n]
    BY DEF At
  <2>6. QED
    BY <1>3, <1>4, <2>1, <2>4, <2>5 DEF Replay
<1>5. QED
  BY <1>1, <1>4 DEF Replay

\* Replay gives the newest of the puts in the log.
LEMMA ReplayedIsNewest ==
  ASSUME LogTypes, pc \notin {"close", "remove"}, NEW k,
         NEW i \in Ids, NEW n \in DOMAIN log[i],
         log[i][n].kind = "put", log[i][n].key = k
  PROVE  log[i][n].ver <= Replayed(k)
<1> USE DEF LogTypes, LogInv
<1>1. <<i, n>> \in Replay(k)
  BY ReplayIsAll
<1>2. PICK p : p = LastPlace(Replay(k))
  OBVIOUS
<1>3. p \in Replay(k) /\ NotAfter(<<i, n>>, p)
  BY <1>1, <1>2, LastPlaceIn DEF Replay, IInv, TypeOK
<1>4. Replayed(k) = At(p).ver
  BY <1>1, <1>2 DEF Replayed
<1>5. /\ p[1] \in Ids /\ p[2] \in DOMAIN log[p[1]] /\ At(p) = log[p[1]][p[2]]
      /\ At(p).kind = "put"
  BY <1>3, ReplayIsAll DEF At
<1>6. /\ i \in Nat /\ n \in Nat /\ p[1] \in Nat /\ p[2] \in Nat
      /\ log[i][n].ver \in Nat /\ At(p).ver \in Nat
      /\ log[i][n].ts \in Nat /\ At(p).ts \in Nat
  BY <1>5, LogFacts
<1>7. At(<<i, n>>) = log[i][n]
  BY DEF At
<1>8. CASE i < p[1] \/ (i = p[1] /\ n < p[2])
  BY <1>4, <1>5, <1>8 DEF Sorted
<1>9. CASE i = p[1] /\ n = p[2]
  BY <1>4, <1>5, <1>6, <1>9
<1>10. CASE p[1] < i \/ (i = p[1] /\ p[2] < n)
  <2>1. log[p[1]][p[2]].ts <= log[i][n].ts
    BY <1>5, <1>10 DEF Sorted
  <2>2. FALSE
    BY <1>3, <1>5, <1>6, <1>7, <1>10, <2>1 DEF NotAfter
  <2>3. QED
    BY <2>2
<1>11. QED
  BY <1>6, <1>8, <1>9, <1>10

\* So recovery gives back every acknowledged write or a newer one.
LEMMA RecoversAll ==
  ASSUME LogTypes, pc \in {"idle", "down"}, NEW k \in Keys
  PROVE  truth[k] <= (IF Replayed(k) # 0 THEN Replayed(k) ELSE sst[k])
<1> USE DEF LogTypes, LogInv
<1>1. truth[k] \in Nat /\ sst[k] \in Nat
  BY DEF IInv, TypeOK
<1>2. Held(k)
  BY DEF CoverInv
<1>3. CASE Replay(k) = {}
  <2>1. ~Copy(log, k, truth[k])
    BY <1>3, ReplayIsAll DEF Copy
  <2>2. QED
    BY <1>2, <1>3, <2>1 DEF Held, Replayed
<1>4. CASE Replay(k) # {}
  <2>1. PICK p : p = LastPlace(Replay(k))
    OBVIOUS
  <2>2. p \in Replay(k) /\ Replayed(k) = At(p).ver
    BY <1>4, <2>1, LastPlaceIn DEF Replay, Replayed, IInv, TypeOK
  <2>3. /\ p[1] \in Ids /\ p[2] \in DOMAIN log[p[1]] /\ At(p) = log[p[1]][p[2]]
        /\ At(p).kind = "put" /\ At(p).key = k
    BY <2>2, ReplayIsAll DEF At
  <2>4. Replayed(k) # 0
    BY <2>2, <2>3 DEF KindsInv
  <2>5. CASE Copy(log, k, truth[k])
    BY <2>4, <2>5, ReplayedIsNewest DEF Copy
  <2>6. CASE NoneOlder(log, k, truth[k])
    BY <2>2, <2>3, <2>4, <2>6 DEF NoneOlder
  <2>7. QED
    BY <1>2, <2>5, <2>6 DEF Held
<1>5. QED
  BY <1>3, <1>4

\* What is left of Next in PlainUse.
LEMMA PlainSteps ==
  ASSUME LogTypes, [Next]_vars
  PROVE  \/ Tick \/ (\E s \in Batches : Write(s)) \/ FlushMemtable \/ Flush \/ Shutdown
         \/ Close \/ (\E i \in Ids : pc = "remove" /\ RemoveFile(i))
         \/ (pc = "remove" /\ Renew) \/ (\E tail \in Tails : pc = "idle" /\ Crash(tail))
         \/ Restart \/ UNCHANGED vars
<1>1. /\ pc \in {"idle", "close", "remove", "down"} /\ ~(errors < MaxErrors)
      /\ ~Cleaner /\ ~Oversize /\ CrashIn \subseteq {"idle"}
  BY DEF LogTypes, LogInv, TailInv, PlainUse, IInv, TypeOK
<1>2. \A s \in Batches : ~RotateFails(s) /\ (\A h : ~WriteHuge(s, h))
                         /\ \A n, t : ~WriteFails(s, n, t)
  BY <1>1 DEF RotateFails, WriteHuge, WriteFails
<1>3. ~TruncateFails /\ ~Clean /\ ~CleanDone /\ ~ForceCleanup /\ \A i : ~SkipFile(i)
  BY <1>1 DEF TruncateFails, Clean, CleanDone, ForceCleanup, SkipFile
<1>4. \A i : RemoveFile(i) => pc = "remove"
  BY <1>1 DEF RemoveFile
<1>5. Renew => pc = "remove"
  BY <1>1 DEF Renew
<1>6. \A tail : Crash(tail) => pc = "idle"
  BY <1>1 DEF Crash
<1>7. QED
  BY <1>2, <1>3, <1>4, <1>5, <1>6 DEF Next

\* Records are appended to the last segment with records, by a write, by the
\* checkpoint of shutdown(), or by a write that a crash interrupts.
Appends(i, recs) ==
  /\ i \in Ids /\ recs \in Seq(RecordType)
  /\ log' = [log EXCEPT ![i] = @ \o recs] /\ now' = now
  /\ \A j \in Ids : log[j] # <<>> => j <= i
  /\ \A n \in DOMAIN log[i] : log[i][n].kind # "torn"
  /\ \A m \in DOMAIN recs :
       /\ recs[m].kind \in {"put", "ckpt", "torn"} /\ recs[m].ts = now
       /\ recs[m].ver <= ver'
       /\ recs[m].kind = "put" => recs[m].ver = ver + 1
       /\ recs[m].kind = "ckpt" => pc' = "close"
       /\ recs[m].kind = "torn" => m = Len(recs) /\ current' = 0

Shrinks == \A i \in Ids : log'[i] \in {log[i], <<>>}

\* What is in the log after records were appended.
LEMMA AppendPlaces ==
  ASSUME IInv, NEW i, NEW recs, Appends(i, recs)
  PROVE  /\ \A j \in Ids : \A n \in DOMAIN log[j] :
              n \in DOMAIN log'[j] /\ log'[j][n] = log[j][n]
         /\ \A m \in DOMAIN recs :
              Len(log[i]) + m \in DOMAIN log'[i] /\ log'[i][Len(log[i]) + m] = recs[m]
         /\ \A j \in Ids : j # i => log'[j] = log[j]
         /\ Len(log'[i]) = Len(log[i]) + Len(recs)
         /\ \A n \in DOMAIN log'[i] : n \in DOMAIN log[i] \/
              \E m \in DOMAIN recs : n = Len(log[i]) + m /\ log'[i][n] = recs[m]
<1>1. log[i] \in Seq(RecordType) /\ recs \in Seq(RecordType) /\ i \in Ids
  BY DEF Appends, IInv, TypeOK
<1>2. log'[i] = log[i] \o recs /\ \A j \in Ids : j # i => log'[j] = log[j]
  BY <1>1 DEF Appends, IInv, TypeOK
<1>3. PICK s : s = log[i]
  OBVIOUS
<1>4. /\ \A n \in DOMAIN s : n \in DOMAIN (s \o recs) /\ (s \o recs)[n] = s[n]
      /\ Len(s \o recs) = Len(s) + Len(recs)
      /\ \A m \in DOMAIN recs :
           Len(s) + m \in DOMAIN (s \o recs) /\ (s \o recs)[Len(s) + m] = recs[m]
  BY <1>1, <1>3
<1>5. ASSUME NEW n \in DOMAIN (s \o recs), n \notin DOMAIN s
      PROVE  \E m \in DOMAIN recs : n = Len(s) + m /\ (s \o recs)[n] = recs[m]
  <2>1. n \in Nat /\ n - Len(s) \in DOMAIN recs /\ n = Len(s) + (n - Len(s))
    BY <1>1, <1>3, <1>5
  <2>2. QED
    BY <1>4, <2>1
<1>6. PICK t : t = s \o recs
  OBVIOUS
<1>7. log'[i] = t
  BY <1>2, <1>3, <1>6
<1>8. \A j \in Ids : \A n \in DOMAIN log[j] :
        n \in DOMAIN log'[j] /\ log'[j][n] = log[j][n]
  BY <1>2, <1>3, <1>4, <1>6, <1>7
<1>9. /\ \A m \in DOMAIN recs : Len(s) + m \in DOMAIN t /\ t[Len(s) + m] = recs[m]
      /\ \A n \in DOMAIN t : n \in DOMAIN s \/
           \E m \in DOMAIN recs : n = Len(s) + m /\ t[n] = recs[m]
      /\ Len(t) = Len(s) + Len(recs)
  BY <1>4, <1>5, <1>6
<1>10. QED
  BY <1>2, <1>3, <1>7, <1>8, <1>9

\* write_entry, batch_write_entries and the checkpoint append in this way.
LEMMA RecordsAppended ==
  ASSUME LogTypes, pc = "idle", current # 0, now' = now, NEW n \in Nat,
         NEW recs \in Seq(RecordType), AppendRecords(recs, n),
         \A m \in DOMAIN recs :
           /\ recs[m].kind \in {"put", "ckpt"} /\ recs[m].ts = now /\ recs[m].ver <= ver'
           /\ recs[m].kind = "put" => recs[m].ver = ver + 1
           /\ recs[m].kind = "ckpt" => pc' = "close"
  PROVE  Appends(current', recs)
<1> USE DEF LogTypes, LogInv
<1>1. CASE Fits(n)
  <2>1. current' = current /\ current \in Ids
    BY <1>1 DEF AppendRecords, Stay, IInv, TypeOK
  <2>2. \A j \in Ids : log[j] # <<>> => j <= current
    BY DEF TailInv, IInv, SegmentsInv
  <2>3. \A m \in DOMAIN log[current] : log[current][m].kind # "torn"
    BY <2>1 DEF KindsInv
  <2>4. QED
    BY <2>1, <2>2, <2>3 DEF AppendRecords, Appends
<1>2. CASE ~Fits(n)
  <2>1. Rotate
    BY <1>2 DEF AppendRecords
  <2>2. current' = counter /\ counter \in Ids /\ log[counter] = <<>>
    BY <2>1, RotateFacts DEF IInv
  <2>3. \A j \in Ids : log[j] # <<>> => j <= counter
    <3>1. \A j \in disk : j < counter
      BY DEF IInv, SegmentsInv
    <3>2. \A j \in Ids : log[j] # <<>> => j \in disk
      BY DEF IInv, SegmentsInv
    <3>3. ASSUME NEW j \in Ids, log[j] # <<>> PROVE j <= counter
      <4>1. j < counter
        BY <3>1, <3>2, <3>3
      <4>2. j \in Nat /\ counter \in Nat
        BY <2>2 DEF Ids
      <4>3. QED
        BY <4>1, <4>2
    <3>4. QED
      BY <3>3
  <2>4. QED
    BY <2>2, <2>3 DEF AppendRecords, Appends
<1>3. QED
  BY <1>1, <1>2

\* The records of a put or a batch.
LEMMA WriteAppends ==
  ASSUME LogTypes, NEW s \in Batches, Write(s)
  PROVE  Appends(current', [i \in DOMAIN s |-> PutRec(s[i])])
<1>1. /\ pc = "idle" /\ current # 0 /\ ver < MaxWrites /\ now' = now /\ ver' = ver + 1
      /\ AppendRecords([i \in DOMAIN s |-> PutRec(s[i])], Len(s))
  BY DEF Write, CanWrite, Acknowledge
<1>2. [i \in DOMAIN s |-> PutRec(s[i])] \in Seq(RecordType) /\ Len(s) \in Nat
  BY <1>1, BatchFacts DEF LogTypes, IInv
<1>3. \A i \in DOMAIN s : /\ PutRec(s[i]).kind = "put" /\ PutRec(s[i]).ts = now
                          /\ PutRec(s[i]).ver = ver + 1
  BY DEF PutRec, Record
<1>4. ver + 1 <= ver'
  BY <1>1 DEF LogTypes, IInv, TypeOK
<1> DEFINE recs == [i \in DOMAIN s |-> PutRec(s[i])]
<1>5. \A m \in DOMAIN recs :
           /\ recs[m].kind \in {"put", "ckpt"} /\ recs[m].ts = now /\ recs[m].ver <= ver'
           /\ recs[m].kind = "put" => recs[m].ver = ver + 1
           /\ recs[m].kind = "ckpt" => pc' = "close"
  BY <1>3, <1>4
<1> HIDE DEF recs
<1>6. recs \in Seq(RecordType) /\ AppendRecords(recs, Len(s))
  BY <1>1, <1>2 DEF recs
<1>7. Appends(current', recs)
  BY <1>1, <1>2, <1>5, <1>6, RecordsAppended
<1>8. QED
  BY <1>7 DEF recs

\* The checkpoint of mark_clean_shutdown.
LEMMA CheckpointAppends ==
  ASSUME LogTypes, Shutdown, current # 0
  PROVE  Appends(current', <<Checkpoint>>)
<1>1. /\ pc = "idle" /\ pc' = "close" /\ now' = now /\ ver' = ver
      /\ AppendRecords(<<Checkpoint>>, 1)
  BY DEF Shutdown
<1>2. <<Checkpoint>> \in Seq(RecordType)
  BY RecordTypes DEF LogTypes, IInv
<1>3. Checkpoint.kind = "ckpt" /\ Checkpoint.ts = now /\ Checkpoint.ver = 0 /\ ver \in Nat
  BY DEF Checkpoint, Record, LogTypes, IInv, TypeOK
<1>4. PICK recs : recs = <<Checkpoint>>
  OBVIOUS
<1>5. \A m \in DOMAIN recs :
           /\ recs[m].kind \in {"put", "ckpt"} /\ recs[m].ts = now /\ recs[m].ver <= ver'
           /\ recs[m].kind = "put" => recs[m].ver = ver + 1
           /\ recs[m].kind = "ckpt" => pc' = "close"
  BY <1>1, <1>3, <1>4
<1>6. QED
  BY <1>1, <1>2, <1>4, <1>5, RecordsAppended

\* The record, or a part of one, that a crash leaves of an interrupted write.
LEMMA CrashAppends ==
  ASSUME LogTypes, NEW tail \in Tails, pc = "idle", Crash(tail), tail # <<>>
  PROVE  Appends(current, tail)
<1> USE DEF LogTypes, LogInv
<1>1. /\ current # 0 /\ ver < MaxWrites /\ ver' = ver + 1 /\ now' = now /\ current' = 0
      /\ log' = [log EXCEPT ![current] = @ \o tail]
  BY DEF Crash, CanWrite
<1>2. current \in Ids /\ ver \in Nat
  BY <1>1 DEF IInv, TypeOK
<1>3. PICK r \in RecordType : /\ tail = <<r>> /\ r.ts = now /\ r.ver <= ver'
                              /\ r.kind \in {"put", "torn"}
                              /\ r.kind = "put" => r.ver = ver + 1
  <2>1. Torn \in RecordType /\ \A k \in Keys : PutRec(k) \in RecordType
    BY <1>1, RecordTypes DEF IInv
  <2>2. CASE tail = <<Torn>>
    BY <1>1, <1>2, <2>1, <2>2 DEF Torn, Record
  <2>3. ASSUME NEW k \in Keys, tail = <<PutRec(k)>>
        PROVE  \E r \in RecordType : /\ tail = <<r>> /\ r.ts = now /\ r.ver <= ver'
                                     /\ r.kind \in {"put", "torn"}
                                     /\ r.kind = "put" => r.ver = ver + 1
    BY <1>1, <1>2, <2>1, <2>3 DEF PutRec, Record
  <2>4. QED
    BY <2>2, <2>3 DEF Tails
<1>4. \A j \in Ids : log[j] # <<>> => j <= current
  BY <1>1 DEF TailInv, IInv, SegmentsInv
<1>5. \A m \in DOMAIN log[current] : log[current][m].kind # "torn"
  BY <1>2 DEF KindsInv
<1>6. tail \in Seq(RecordType) /\ Len(tail) = 1 /\ DOMAIN tail = {1} /\ tail[1] = r
  BY <1>3
<1>7. QED
  BY <1>1, <1>2, <1>3, <1>4, <1>5, <1>6 DEF Appends

\* Every step appends to the log, or leaves each segment as it is or empty.
LEMMA LogSteps ==
  ASSUME LogTypes, [Next]_vars
  PROVE  (\E i, recs : Appends(i, recs)) \/ Shrinks
<1>1. CASE \/ Tick \/ FlushMemtable \/ Flush \/ Close \/ (pc = "remove" /\ Renew)
           \/ Restart \/ UNCHANGED vars
  <2>1. log' = log
    BY <1>1 DEF Tick, FlushMemtable, Flush, Close, Renew, Restart, vars
  <2>2. QED
    BY <2>1 DEF Shrinks
<1>2. ASSUME NEW i \in Ids, RemoveFile(i) PROVE Shrinks
  BY <1>2 DEF RemoveFile, Unlink, Shrinks
<1>3. CASE Shutdown
  BY <1>3, CheckpointAppends DEF Shutdown, Shrinks
<1>4. ASSUME NEW tail \in Tails, pc = "idle", Crash(tail)
      PROVE  (\E i, recs : Appends(i, recs)) \/ Shrinks
  BY <1>4, CrashAppends DEF Crash, Shrinks
<1>5. QED
  BY <1>1, <1>2, <1>3, <1>4, WriteAppends, PlainSteps

\* Versions and the clock grow.
LEMMA VersionsGrow ==
  ASSUME LogTypes, [Next]_vars
  PROVE  ver \in Nat /\ ver' \in Nat /\ now \in Nat /\ now' \in Nat /\ ver <= ver' /\ now <= now'
<1>1. ver \in Nat /\ now \in Nat
  BY DEF LogTypes, IInv, TypeOK
<1>2. ver' \in {ver, ver + 1}
  BY PlainSteps DEF Tick, Write, Acknowledge, FlushMemtable, Flush, Shutdown, Close,
    RemoveFile, Renew, Crash, Restart, vars
<1>3. now' \in {now, now + 1}
  BY PlainSteps DEF Tick, Write, FlushMemtable, Flush, Shutdown, Close,
    RemoveFile, Renew, Crash, Restart, vars
<1>4. QED
  BY <1>1, <1>2, <1>3

\* The order of the log is kept.
LEMMA SortedStep ==
  ASSUME LogTypes, [Next]_vars
  PROVE  Sorted(log')
<1> USE DEF LogTypes, LogInv
<1>1. CASE Shrinks
  <2> SUFFICES ASSUME NEW i \in Ids, NEW j \in Ids, NEW m \in DOMAIN log'[i],
                      NEW n \in DOMAIN log'[j],
                      log'[i][m].kind = "put", log'[j][n].kind = "put",
                      i < j \/ (i = j /\ m < n)
               PROVE  log'[i][m].ver <= log'[j][n].ver /\ log'[i][m].ts <= log'[j][n].ts
    BY DEF Sorted
  <2>1. log'[i] = log[i] /\ log'[j] = log[j]
    BY <1>1 DEF Shrinks
  <2>2. QED
    BY <2>1 DEF Sorted
<1>2. ASSUME NEW a, NEW recs, Appends(a, recs) PROVE Sorted(log')
  <2> SUFFICES ASSUME NEW i \in Ids, NEW j \in Ids, NEW m \in DOMAIN log'[i],
                      NEW n \in DOMAIN log'[j],
                      log'[i][m].kind = "put", log'[j][n].kind = "put",
                      i < j \/ (i = j /\ m < n)
               PROVE  log'[i][m].ver <= log'[j][n].ver /\ log'[i][m].ts <= log'[j][n].ts
    BY DEF Sorted
  <2>1. /\ a \in Ids /\ a \in Nat /\ i \in Nat /\ j \in Nat /\ Len(log[a]) \in Nat
        /\ recs \in Seq(RecordType) /\ ver \in Nat /\ now \in Nat
    <3>1. a \in Ids /\ recs \in Seq(RecordType)
      BY <1>2 DEF Appends
    <3>2. a \in Nat /\ i \in Nat /\ j \in Nat /\ log[a] \in Seq(RecordType)
      BY <3>1, LogFacts
    <3>3. QED
      BY <3>1, <3>2, VersionsGrow
  <2>2. ASSUME NEW b \in Ids, NEW c \in DOMAIN log'[b]
        PROVE  \/ /\ c \in DOMAIN log[b] /\ log'[b][c] = log[b][c]
                  /\ log[b][c].ver <= ver /\ log[b][c].ts <= now /\ b <= a
                  /\ log[b][c].ver \in Nat /\ log[b][c].ts \in Nat
                  /\ c \in Nat /\ c <= Len(log[b])
               \/ /\ b = a /\ c \in Nat /\ c > Len(log[a])
                  /\ \E x \in DOMAIN recs : log'[b][c] = recs[x]
    <3>1. CASE c \in DOMAIN log[b]
      <4>1. log'[b][c] = log[b][c]
        BY <1>2, <3>1, AppendPlaces
      <4>2. log[b][c].ver <= ver /\ log[b][c].ts <= now
        BY <3>1 DEF KindsInv
      <4>3. b <= a
        BY <1>2, <3>1 DEF Appends
      <4>4. QED
        BY <3>1, <4>1, <4>2, <4>3, LogFacts
    <3>2. CASE c \notin DOMAIN log[b]
      <4>1. b = a
        BY <1>2, <3>2, AppendPlaces
      <4>2. PICK x \in DOMAIN recs : c = Len(log[a]) + x /\ log'[a][c] = recs[x]
        BY <1>2, <3>2, <4>1, AppendPlaces
      <4>3. x \in Nat \ {0}
        BY <2>1
      <4>4. QED
        BY <2>1, <4>1, <4>2, <4>3
    <3>3. QED
      BY <3>1, <3>2
  <2>3. \A x \in DOMAIN recs : recs[x].kind = "put" => recs[x].ver = ver + 1 /\ recs[x].ts = now
    BY <1>2 DEF Appends
  <2>4. CASE n \in DOMAIN log[j] /\ log'[j][n] = log[j][n] /\ n \in Nat /\ n <= Len(log[j])
             /\ j <= a
    <3>1. m \in DOMAIN log[i] /\ log'[i][m] = log[i][m]
      BY <2>1, <2>2, <2>4
    <3>2. QED
      BY <2>4, <3>1 DEF Sorted
  <2>5. CASE j = a /\ n > Len(log[a]) /\ \E x \in DOMAIN recs : log'[j][n] = recs[x]
    <3>1. log'[j][n].ver = ver + 1 /\ log'[j][n].ts = now
      BY <2>3, <2>5
    <3>2. log'[i][m].ver \in Nat /\ log'[i][m].ts \in Nat
          /\ log'[i][m].ver <= ver + 1 /\ log'[i][m].ts <= now
      <4>1. CASE /\ log'[i][m] = log[i][m] /\ log[i][m].ver <= ver /\ log[i][m].ts <= now
                 /\ log[i][m].ver \in Nat /\ log[i][m].ts \in Nat
        BY <2>1, <4>1
      <4>2. CASE \E x \in DOMAIN recs : log'[i][m] = recs[x]
        <5>1. log'[i][m].ver = ver + 1 /\ log'[i][m].ts = now
          BY <2>3, <4>2
        <5>2. QED
          BY <2>1, <5>1
      <4>3. QED
        BY <2>2, <4>1, <4>2
    <3>3. QED
      BY <3>1, <3>2
  <2>6. QED
    BY <2>2, <2>4, <2>5
<1>3. QED
  BY <1>1, <1>2, LogSteps

\* What was written before stays in the last place of a segment that is not
\* written to; checkpoints are gone when the truncation is over.
LEMMA KindsStep ==
  ASSUME LogTypes, [Next]_vars
  PROVE  KindsInv'
<1> USE DEF LogTypes, LogInv
<1> DEFINE Good(r) ==
             /\ r.kind \in {"put", "torn", "ckpt"} /\ r.ver <= ver' /\ r.ts <= now'
             /\ r.kind = "put" => r.ver # 0
             /\ r.kind = "ckpt" => pc' \in {"close", "remove"}
<1>1. /\ ver \in Nat /\ ver' \in Nat /\ now \in Nat /\ now' \in Nat
      /\ ver <= ver' /\ now <= now'
  BY VersionsGrow
<1>2. ASSUME pc \in {"close", "remove"}, pc' \notin {"close", "remove"}
      PROVE  \A i \in Ids : log'[i] = <<>>
  <2>1. Renew /\ pc = "remove"
    BY <1>2, PlainSteps DEF Tick, Write, CanWrite, FlushMemtable, Flush, Shutdown, Close,
      RemoveFile, Crash, Restart, vars
  <2>2. pending = {} /\ log' = log
    BY <2>1 DEF Renew
  <2>3. disk = {}
    BY <2>1, <2>2 DEF TailInv
  <2>4. QED
    BY <2>2, <2>3 DEF IInv, SegmentsInv
<1>3. ASSUME NEW i \in Ids, NEW n \in DOMAIN log[i], log'[i] # <<>>
      PROVE  Good(log[i][n])
  <2>1. /\ log[i][n].kind \in {"put", "torn", "ckpt"} /\ log[i][n].ver <= ver
        /\ log[i][n].ts <= now
        /\ log[i][n].kind = "put" => log[i][n].ver # 0
        /\ log[i][n].kind = "ckpt" => pc \in {"close", "remove"}
    BY DEF KindsInv
  <2>2. log[i][n].ver \in Nat /\ log[i][n].ts \in Nat
    BY LogFacts
  <2>3. log[i][n].ver <= ver' /\ log[i][n].ts <= now'
    BY <1>1, <2>1, <2>2
  <2>4. log[i][n].kind = "ckpt" => pc' \in {"close", "remove"}
    BY <1>2, <1>3, <2>1
  <2>5. QED
    BY <2>1, <2>3, <2>4
<1>4. ASSUME NEW i \in Ids, log[i] # <<>>, NEW n \in DOMAIN log[i],
             log[i][n].kind = "torn"
      PROVE  n = Len(log[i]) /\ i # current'
  <2>1. n = Len(log[i]) /\ i # current
    BY <1>4 DEF KindsInv
  <2>2. i # 0
    BY LogFacts
  <2>3. [StartsEmpty]_vars
    BY StepKeeps
  <2>4. current' # current /\ current' # 0 => log[current'] = <<>>
    BY <2>3 DEF StartsEmpty, vars
  <2>5. QED
    BY <1>4, <2>1, <2>2, <2>4
<1>5. CASE Shrinks
  <2> SUFFICES ASSUME NEW i \in Ids, NEW n \in DOMAIN log'[i]
               PROVE  /\ Good(log'[i][n])
                      /\ log'[i][n].kind = "torn" => n = Len(log'[i]) /\ i # current'
    BY DEF KindsInv
  <2>1. log'[i] = log[i] /\ log'[i] # <<>>
    BY <1>5 DEF Shrinks
  <2>2. n \in DOMAIN log[i]
    BY <2>1
  <2>3. Good(log[i][n])
    BY <1>3, <2>1, <2>2
  <2>4. log[i][n].kind = "torn" => n = Len(log[i]) /\ i # current'
    BY <1>4, <2>1, <2>2
  <2>5. QED
    BY <2>1, <2>3, <2>4
<1>6. ASSUME NEW a, NEW recs, Appends(a, recs) PROVE KindsInv'
  <2> SUFFICES ASSUME NEW i \in Ids, NEW n \in DOMAIN log'[i]
               PROVE  /\ Good(log'[i][n])
                      /\ log'[i][n].kind = "torn" => n = Len(log'[i]) /\ i # current'
    BY DEF KindsInv
  <2>1. log'[i] # <<>>
    OBVIOUS
  <2>2. CASE n \in DOMAIN log[i]
    <3>1. log'[i][n] = log[i][n] /\ (i # a => log'[i] = log[i])
      BY <1>6, <2>2, AppendPlaces
    <3>2. Good(log[i][n])
      BY <1>3, <2>1, <2>2
    <3>3. log[i][n].kind = "torn" => i # a
      BY <1>6, <2>2 DEF Appends
    <3>4. log[i][n].kind = "torn" => n = Len(log[i]) /\ i # current'
      BY <1>4, <2>2
    <3> HIDE DEF Good
    <3>5. QED
      BY <3>1, <3>2, <3>3, <3>4
  <2>3. CASE n \notin DOMAIN log[i]
    <3>1. i = a
      BY <1>6, <2>3, AppendPlaces
    <3>2. PICK x \in DOMAIN recs : n = Len(log[a]) + x /\ log'[a][n] = recs[x]
      BY <1>6, <2>3, <3>1, AppendPlaces
    <3>3. Len(log'[a]) = Len(log[a]) + Len(recs)
      BY <1>6, AppendPlaces
    <3>4. now' = now
      BY <1>6 DEF Appends
    <3>5. Good(recs[x]) /\ (recs[x].kind = "torn" => x = Len(recs) /\ current' = 0)
      <4>1. /\ recs[x].kind \in {"put", "ckpt", "torn"} /\ recs[x].ts = now
            /\ recs[x].ver <= ver'
            /\ recs[x].kind = "put" => recs[x].ver = ver + 1
            /\ recs[x].kind = "ckpt" => pc' = "close"
            /\ recs[x].kind = "torn" => x = Len(recs) /\ current' = 0
        BY <1>6, <3>2 DEF Appends
      <4>2. recs[x].ts <= now' /\ ver + 1 # 0
        BY <1>1, <3>4, <4>1
      <4>3. QED
        BY <4>1, <4>2
    <3>6. i # 0
      BY LogFacts
    <3> HIDE DEF Good
    <3>7. QED
      BY <3>1, <3>2, <3>3, <3>5, <3>6
  <2>4. QED
    BY <2>2, <2>3
<1>7. QED
  BY <1>5, <1>6, LogSteps

\* The last segment stays the last, and a truncation has all files to remove.
LEMMA TailStep ==
  ASSUME LogTypes, [Next]_vars
  PROVE  TailInv'
<1> USE DEF LogTypes, LogInv
<1>1. disk \subseteq Nat /\ counter \in Nat /\ \A i \in disk : i < counter
  BY DEF IInv, TypeOK, SegmentsInv, Ids
<1>2. ASSUME Rotate PROVE \A i \in disk' : i <= current'
  BY <1>1, <1>2 DEF Rotate
<1>3. ASSUME NEW s \in Batches, Write(s) PROVE TailInv'
  <2>1. pc = "idle" /\ pc' = pc /\ AppendRecords([i \in DOMAIN s |-> PutRec(s[i])], Len(s))
    BY <1>3 DEF Write, CanWrite
  <2>2. UNCHANGED <<current, disk>> \/ Rotate
    BY <2>1 DEF AppendRecords, Stay
  <2>3. QED
    BY <1>2, <2>1, <2>2 DEF TailInv
<1>4. CASE Shutdown
  <2>1. pc = "idle" /\ pc' = "close" /\ (UNCHANGED <<current, disk>> \/ Rotate)
    BY <1>4 DEF Shutdown, AppendRecords, Stay
  <2>2. QED
    BY <1>2, <2>1 DEF TailInv
<1>5. CASE pc = "remove" /\ Renew
  BY <1>2, <1>5 DEF Renew, TailInv
<1>6. CASE Close
  BY <1>6 DEF Close, TailInv
<1>7. ASSUME NEW i \in Ids, pc = "remove", RemoveFile(i) PROVE TailInv'
  BY <1>7 DEF RemoveFile, Unlink, TailInv
<1>8. CASE Restart
  <2>1. pc' = "idle" /\ ScanNext \in Nat \ {0} /\ \A i \in disk : i < ScanNext
    BY <1>8, ScanFacts DEF Restart, IInv
  <2>2. CASE Reusable
    <3>1. current' = ScanNext - 1 /\ disk' = disk
      BY <1>8, <2>2 DEF Restart
    <3>2. QED
      BY <1>1, <2>1, <3>1 DEF TailInv
  <2>3. CASE ~Reusable
    <3>1. current' = ScanNext /\ disk' = disk \cup {ScanNext}
      BY <1>8, <2>3 DEF Restart
    <3>2. QED
      BY <1>1, <2>1, <3>1 DEF TailInv
  <2>4. QED
    BY <2>2, <2>3
<1>9. ASSUME NEW tail \in Tails, Crash(tail) PROVE TailInv'
  BY <1>9 DEF Crash, TailInv
<1>10. CASE Tick \/ FlushMemtable \/ Flush \/ UNCHANGED vars
  <2>1. UNCHANGED <<current, disk, pending>> /\ (pc' = pc \/ (pc = "idle" /\ pc' = "close"))
    BY <1>10 DEF Tick, FlushMemtable, Flush, vars
  <2>2. QED
    BY <2>1 DEF TailInv
<1>11. QED
  BY <1>3, <1>4, <1>5, <1>6, <1>7, <1>8, <1>9, <1>10, PlainSteps

\* A flush leaves nothing in SSTables that is behind what was acknowledged.
LEMMA MemStep ==
  ASSUME LogTypes, [Next]_vars
  PROVE  MemInv'
<1> USE DEF LogTypes, LogInv
<1>1. /\ mem \in [Keys -> Nat] /\ sst \in [Keys -> Nat] /\ truth \in [Keys -> Nat]
      /\ ver \in Nat /\ ver' \in Nat /\ ver <= ver'
  BY VersionsGrow DEF IInv, TypeOK
<1>2. ASSUME NEW s \in Batches, Write(s) PROVE MemInv'
  <2>1. /\ pc = "idle" /\ pc' = pc /\ sst' = sst /\ ver' = ver + 1
        /\ \A k \in Keys : \/ mem'[k] = ver + 1 /\ truth'[k] = ver + 1
                           \/ mem'[k] = mem[k] /\ truth'[k] = truth[k]
    BY <1>2 DEF Write, CanWrite, Acknowledge
  <2>2. ASSUME NEW k \in Keys
        PROVE  /\ truth'[k] <= ver'
               /\ truth'[k] <= (IF mem'[k] # 0 THEN mem'[k] ELSE sst'[k])
    <3>1. CASE mem'[k] = ver + 1 /\ truth'[k] = ver + 1
      BY <1>1, <2>1, <3>1
    <3>2. CASE mem'[k] = mem[k] /\ truth'[k] = truth[k]
      BY <1>1, <2>1, <3>2 DEF MemInv
    <3>3. QED
      BY <2>1, <3>1, <3>2
  <2>3. QED
    BY <2>1, <2>2 DEF MemInv
<1>3. CASE FlushMemtable \/ Flush \/ Shutdown
  <2>1. pc = "idle" /\ MoveToSst /\ truth' = truth /\ ver' = ver
    BY <1>3 DEF FlushMemtable, Flush, Shutdown
  <2>2. \A k \in Keys : truth'[k] <= sst'[k] /\ mem'[k] = 0
    BY <2>1 DEF MoveToSst, MemInv, NoVersion
  <2>3. QED
    BY <2>1, <2>2 DEF MemInv
<1>4. CASE Restart
  <2>1. /\ pc = "down" /\ pc' = "idle" /\ truth' = truth /\ sst' = sst /\ ver' = ver
        /\ mem' = [k \in Keys |-> Replayed(k)]
    BY <1>4 DEF Restart
  <2>2. \A k \in Keys : truth'[k] <= (IF mem'[k] # 0 THEN mem'[k] ELSE sst'[k])
    BY <2>1, RecoversAll
  <2>3. QED
    BY <2>1, <2>2 DEF MemInv
<1>5. ASSUME NEW tail \in Tails, Crash(tail) PROVE MemInv'
  <2>1. pc' = "down" /\ truth' = truth
    BY <1>5 DEF Crash
  <2>2. \A k \in Keys : truth'[k] <= ver'
    BY <1>1, <2>1 DEF MemInv
  <2>3. QED
    BY <2>1, <2>2 DEF MemInv
<1>6. CASE \/ Tick \/ Close \/ (\E i \in Ids : pc = "remove" /\ RemoveFile(i))
           \/ (pc = "remove" /\ Renew) \/ UNCHANGED vars
  <2>1. /\ UNCHANGED <<mem, sst, truth, ver>>
        /\ pc' = pc \/ (pc \in {"close", "remove"} /\ pc' # "down")
    BY <1>6 DEF Tick, Close, RemoveFile, Renew, vars
  <2>2. QED
    BY <1>6, <2>1 DEF MemInv, Tick, Close, RemoveFile, Renew, vars
<1>7. QED
  BY <1>2, <1>3, <1>4, <1>5, <1>6, PlainSteps

\* What a write logs is a copy, what it appends is newer than all that was
\* acknowledged, and a truncation removes only what SSTables have.
LEMMA CoverStep ==
  ASSUME LogTypes, [Next]_vars
  PROVE  CoverInv'
<1> USE DEF LogTypes, LogInv
<1>1. SUFFICES ASSUME pc' \in {"idle", "down"}, NEW k \in Keys
               PROVE  \/ Copy(log', k, truth'[k])
                      \/ truth'[k] <= sst'[k] /\ NoneOlder(log', k, truth'[k])
  BY DEF CoverInv, Held
<1>2. /\ truth[k] \in Nat /\ sst[k] \in Nat /\ ver \in Nat /\ truth[k] <= ver
  BY DEF IInv, TypeOK, MemInv
<1>3. CASE pc = "remove" /\ Renew
  <2>1. /\ disk = {} /\ log' = log /\ truth' = truth /\ sst' = sst
    BY <1>3 DEF Renew, TailInv
  <2>2. \A i \in Ids : DOMAIN log'[i] = {}
    BY <2>1 DEF IInv, SegmentsInv
  <2>3. truth'[k] <= sst'[k]
    BY <1>3, <2>1 DEF MemInv
  <2>4. QED
    BY <2>2, <2>3 DEF NoneOlder
<1>4. ASSUME pc \in {"idle", "down"}, truth'[k] = truth[k], truth[k] <= sst[k] => truth[k] <= sst'[k],
             log' = log \/ \E a, recs : Appends(a, recs)
      PROVE  \/ Copy(log', k, truth'[k])
             \/ truth'[k] <= sst'[k] /\ NoneOlder(log', k, truth'[k])
  <2>1. CASE log' = log
    BY <1>4, <2>1 DEF CoverInv, Held
  <2>2. ASSUME NEW a, NEW recs, Appends(a, recs)
        PROVE  \/ Copy(log', k, truth'[k])
               \/ truth'[k] <= sst'[k] /\ NoneOlder(log', k, truth'[k])
    <3>1. CASE Copy(log, k, truth[k])
      BY <1>4, <2>2, <3>1, AppendPlaces DEF Copy
    <3>2. CASE truth[k] <= sst[k] /\ NoneOlder(log, k, truth[k])
      <4> SUFFICES ASSUME NEW i \in Ids, NEW n \in DOMAIN log'[i],
                          log'[i][n].kind = "put", log'[i][n].key = k
                   PROVE  truth[k] <= log'[i][n].ver
        BY <1>4, <3>2 DEF NoneOlder
      <4>1. CASE n \in DOMAIN log[i]
        BY <2>2, <3>2, <4>1, AppendPlaces DEF NoneOlder
      <4>2. CASE n \notin DOMAIN log[i]
        <5>1. i = a
          BY <2>2, <4>2, AppendPlaces
        <5>2. PICK x \in DOMAIN recs : log'[a][n] = recs[x]
          BY <2>2, <4>2, <5>1, AppendPlaces
        <5>3. log'[i][n].ver = ver + 1
          BY <2>2, <5>1, <5>2 DEF Appends
        <5>4. QED
          BY <1>2, <5>3
      <4>3. QED
        BY <4>1, <4>2
    <3>3. QED
      BY <1>4, <3>1, <3>2 DEF CoverInv, Held
  <2>3. QED
    BY <1>4, <2>1, <2>2
<1>5. ASSUME NEW s \in Batches, Write(s)
      PROVE  \/ Copy(log', k, truth'[k])
             \/ truth'[k] <= sst'[k] /\ NoneOlder(log', k, truth'[k])
  <2>1. /\ pc = "idle" /\ sst' = sst
        /\ truth'[k] = IF \E m \in DOMAIN s : s[m] = k THEN ver + 1 ELSE truth[k]
    BY <1>5 DEF Write, CanWrite, Acknowledge
  <2>2. PICK a, recs : a = current' /\ recs = [m \in DOMAIN s |-> PutRec(s[m])]
    OBVIOUS
  <2>3. Appends(a, recs)
    BY <1>5, <2>2, WriteAppends
  <2>4. CASE \E m \in DOMAIN s : s[m] = k
    <3>1. PICK m \in DOMAIN s : s[m] = k
      BY <2>4
    <3>2. /\ m \in DOMAIN recs /\ recs[m].kind = "put" /\ recs[m].key = k
          /\ recs[m].ver = ver + 1
      BY <2>2, <3>1 DEF PutRec, Record
    <3>3. /\ Len(log[a]) + m \in DOMAIN log'[a] /\ log'[a][Len(log[a]) + m] = recs[m]
          /\ a \in Ids
      <4>1. a \in Ids
        BY <2>3 DEF Appends
      <4>2. \A x \in DOMAIN recs :
              Len(log[a]) + x \in DOMAIN log'[a] /\ log'[a][Len(log[a]) + x] = recs[x]
        BY <2>3, AppendPlaces
      <4>3. QED
        BY <3>2, <4>1, <4>2
    <3>4. QED
      BY <2>1, <2>4, <3>2, <3>3 DEF Copy
  <2>5. CASE ~\E m \in DOMAIN s : s[m] = k
    BY <1>4, <2>1, <2>3, <2>5
  <2>6. QED
    BY <2>4, <2>5
<1>6. CASE FlushMemtable
  <2>1. pc = "idle" /\ log' = log /\ truth' = truth /\ MoveToSst
    BY <1>6 DEF FlushMemtable
  <2>2. truth[k] <= sst'[k]
    BY <2>1 DEF MoveToSst, MemInv
  <2>3. QED
    BY <1>4, <2>1, <2>2
<1>7. CASE Tick \/ Restart \/ UNCHANGED vars
  <2>1. pc \in {"idle", "down"} /\ log' = log /\ truth' = truth /\ sst' = sst
    BY <1>1, <1>7 DEF Tick, Restart, vars
  <2>2. QED
    BY <1>4, <2>1
<1>8. ASSUME NEW tail \in Tails, pc = "idle", Crash(tail)
      PROVE  \/ Copy(log', k, truth'[k])
             \/ truth'[k] <= sst'[k] /\ NoneOlder(log', k, truth'[k])
  <2>1. truth' = truth /\ sst' = sst /\ (tail = <<>> => log' = log)
    BY <1>8 DEF Crash
  <2>2. log' = log \/ \E a, recs : Appends(a, recs)
    BY <1>8, <2>1, CrashAppends
  <2>3. QED
    BY <1>4, <1>8, <2>1, <2>2
<1>9. CASE Flush \/ Shutdown \/ Close \/ (\E i \in Ids : pc = "remove" /\ RemoveFile(i))
  BY <1>1, <1>9 DEF Flush, Shutdown, Close, RemoveFile
<1>10. QED
  BY <1>3, <1>5, <1>6, <1>7, <1>8, <1>9, PlainSteps

\* An empty log satisfies LogInv.
LEMMA LogInit ==
  ASSUME Init
  PROVE  LogInv
<1>1. /\ disk = {1} /\ current = 1 /\ pc = "idle" /\ ver = 0
      /\ mem = NoVersion /\ sst = NoVersion /\ truth = NoVersion
  BY DEF Init
<1>2. \A i \in Ids : DOMAIN log[i] = {}
  BY DEF Init
<1>3. \A k \in Keys : truth[k] = 0 /\ mem[k] = 0 /\ sst[k] = 0
  BY <1>1 DEF NoVersion
<1>4. KindsInv /\ Sorted(log)
  BY <1>2 DEF KindsInv, Sorted
<1>5. TailInv
  BY <1>1 DEF TailInv
<1>6. CoverInv
  BY <1>2, <1>3 DEF CoverInv, Held, NoneOlder
<1>7. MemInv
  BY <1>1, <1>3 DEF MemInv
<1>8. QED
  BY <1>4, <1>5, <1>6, <1>7 DEF LogInv

\* AckedWritesRecovered holds in every reachable state of PlainUse: through any
\* number of rotations, flushes, truncations, clean shutdowns and crashes with
\* a torn or unacknowledged record, recover_from_wal gives back what
\* write_entry and batch_write_entries acknowledged, or a newer write.
THEOREM AckedWritesReplayed ==
  ASSUME PlainUse
  PROVE  Spec => []AckedWritesRecovered
<1>1. Init => IInv /\ LogInv
  BY InitIInv, LogInit
<1>2. (IInv /\ LogInv) /\ [Next]_vars => (IInv /\ LogInv)'
  <2> SUFFICES ASSUME IInv /\ LogInv, [Next]_vars PROVE (IInv /\ LogInv)'
    OBVIOUS
  <2>1. LogTypes
    BY DEF LogTypes
  <2>2. IInv'
    BY StepKeeps
  <2>3. Sorted(log')
    BY <2>1, SortedStep
  <2>4. LogInv'
    BY <2>1, <2>3, KindsStep, TailStep, CoverStep, MemStep DEF LogInv, Sorted
  <2>5. QED
    BY <2>2, <2>4
<1>3. IInv /\ LogInv => AckedWritesRecovered
  <2> SUFFICES ASSUME IInv, LogInv, pc = "down", NEW k \in Keys
               PROVE  Recovered(k) >= truth[k]
    BY DEF AckedWritesRecovered
  <2>1. truth[k] <= (IF Replayed(k) # 0 THEN Replayed(k) ELSE sst[k])
    BY RecoversAll DEF LogTypes
  <2>2. truth[k] \in Nat /\ sst[k] \in Nat /\ Replayed(k) \in Nat
    BY ReplayedType DEF IInv, TypeOK
  <2>3. QED
    BY <2>1, <2>2 DEF Recovered
<1>4. QED
  BY <1>1, <1>2, <1>3, PTL DEF Spec
=============================================================================
