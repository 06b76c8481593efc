-------------------------- MODULE SstableReadProofs --------------------------
(***************************************************************************)
(* Proofs about SstableRead, for any files, tables, hash functions, tasks, *)
(* calls and errors: pins are balanced, what was written into a file is    *)
(* found by the search in it, a call returns just that whatever runs       *)
(* beside it, and the block cache knows what it holds.                     *)
(***************************************************************************)
EXTENDS SstableRead, SequenceTheorems, FiniteSetTheorems, FunctionTheorems,
        WellFoundedInduction, TLAPS

\* A non-empty set of naturals has a least element.
LEMMA LeastNat ==
  ASSUME NEW S \in SUBSET Nat, S # {}
  PROVE  \E m \in S : \A j \in S : m <= j
<1>1. PICK m \in S : \A j \in S : ~(<<j, m>> \in OpToRel(<, Nat))
  BY NatLessThanWellFounded, WFMin
<1>2. \A j \in S : ~(j < m)
  BY <1>1 DEF OpToRel
<1>3. QED
  BY <1>2

\* It is what Min returns.
LEMMA MinNat ==
  ASSUME NEW S \in SUBSET Nat, S # {}
  PROVE  Min(S) \in S /\ \A x \in S : Min(S) <= x
<1>1. \E x \in S : \A y \in S : x <= y
  BY LeastNat
<1>2. QED
  BY <1>1 DEF Min

\* A relation, as a set of pairs, that is a strict total order on S.
StrictOrder(R, S) ==
  /\ \A x \in S : <<x, x>> \notin R
  /\ \A x, y, z \in S : <<x, y>> \in R /\ <<y, z>> \in R => <<x, z>> \in R
  /\ \A x, y \in S : x # y => <<x, y>> \in R \/ <<y, x>> \in R
Below(R, S, x) == {y \in S : <<y, x>> \in R}

\* Counting the elements below: the rank is below the size of the set, grows
\* with the order, and every rank is somebody's.
LEMMA Ranking ==
  ASSUME NEW S, IsFiniteSet(S), NEW R, StrictOrder(R, S)
  PROVE  /\ \A x \in S : Cardinality(Below(R, S, x)) \in 0..Cardinality(S) - 1
         /\ \A x, y \in S : <<x, y>> \in R =>
              Cardinality(Below(R, S, x)) < Cardinality(Below(R, S, y))
         /\ \A m \in 0..Cardinality(S) - 1 : \E x \in S :
              Cardinality(Below(R, S, x)) = m
<1> DEFINE n == Cardinality(S)
           rank == [x \in S |-> Cardinality(Below(R, S, x))]
<1>1. n \in Nat
  BY FS_CardinalityType
<1>2. ASSUME NEW x \in S
      PROVE  /\ IsFiniteSet(Below(R, S, x))
             /\ Cardinality(Below(R, S, x)) \in 0..n - 1
  <2>1. Below(R, S, x) \in SUBSET S /\ x \notin Below(R, S, x)
    BY DEF Below, StrictOrder
  <2>2. IsFiniteSet(Below(R, S, x)) /\ Cardinality(Below(R, S, x)) <= n
    BY <2>1, FS_Subset
  <2>3. Cardinality(Below(R, S, x)) # n
    BY <2>1, FS_Subset
  <2>4. Cardinality(Below(R, S, x)) \in Nat
    BY <2>2, FS_CardinalityType
  <2>5. QED
    BY <1>1, <2>2, <2>3, <2>4
<1>3. ASSUME NEW x \in S, NEW y \in S, <<x, y>> \in R
      PROVE  Cardinality(Below(R, S, x)) < Cardinality(Below(R, S, y))
  <2>1. /\ Below(R, S, x) \in SUBSET Below(R, S, y)
        /\ x \in Below(R, S, y) /\ x \notin Below(R, S, x)
    BY <1>3 DEF Below, StrictOrder
  <2>2. /\ Cardinality(Below(R, S, x)) <= Cardinality(Below(R, S, y))
        /\ Cardinality(Below(R, S, y)) # Cardinality(Below(R, S, x))
    BY <1>2, <2>1, FS_Subset
  <2>3. QED
    BY <1>2, <2>2
<1>4. rank \in Injection(S, 0..n - 1)
  <2>1. rank \in [S -> 0..n - 1]
    BY <1>2
  <2>2. ASSUME NEW x \in S, NEW y \in S, x # y PROVE rank[x] # rank[y]
    <3>1. rank[x] \in Int /\ rank[y] \in Int
      BY <1>2
    <3>2. CASE <<x, y>> \in R
      BY <1>3, <3>1, <3>2
    <3>3. CASE <<y, x>> \in R
      BY <1>3, <3>1, <3>3
    <3>4. QED
      BY <2>2, <3>2, <3>3 DEF StrictOrder
  <2>3. QED
    BY <2>1, <2>2, Fun_IsInj
<1>5. IsFiniteSet(0..n - 1) /\ Cardinality(0..n - 1) = n
  BY <1>1, FS_Interval
<1>6. rank \in Surjection(S, 0..n - 1)
  BY <1>4, <1>5, FS_Injection
<1>7. \A m \in 0..n - 1 : \E x \in S : Cardinality(Below(R, S, x)) = m
  <2>1. \A m \in 0..n - 1 : \E x \in S : rank[x] = m
    <3> HIDE DEF rank
    <3>1. QED
      BY <1>6 DEF Surjection
  <2>2. QED
    BY <2>1
<1>8. QED
  BY <1>2, <1>3, <1>7

\* The last part of it by itself.
RanksTaken(R, S) ==
  \A m \in 0..Cardinality(S) - 1 : \E x \in S : Cardinality(Below(R, S, x)) = m
LEMMA RankTaken ==
  ASSUME NEW S, IsFiniteSet(S), NEW R, StrictOrder(R, S)
  PROVE  RanksTaken(R, S)
  BY Ranking DEF RanksTaken

USE ReadAssumption
USE DEF handleVars

Steps == {"idle", "clone", "count", "evict", "open", "index", "load",
          "stored", "next", "read", "done"}
CallKinds == {"get", "sync", "warm", "scan", "all"}
CallFields == {"pc", "kind", "file", "asked", "todo", "index", "loaded",
               "block", "pinned", "tries", "victims", "found", "err"}
Shaped(r) == r = [x \in CallFields |-> r[x]]

\* What the argument needs of types.
CallTypes(r) ==
  /\ Shaped(r) /\ r.pc \in Steps /\ r.kind \in CallKinds
  /\ r.file \in Files \cup {None} /\ r.asked \subseteq Keys
  /\ r.todo \subseteq r.asked
  /\ r.index \in BOOLEAN /\ r.loaded \in BOOLEAN /\ r.pinned \in BOOLEAN
  /\ r.err \in BOOLEAN
Types ==
  /\ disk \subseteq Files /\ live \subseteq disk /\ marked \subseteq Files \ live
  /\ readers \in [Files -> Int]
  /\ rd = [p \in Procs |-> rd[p]]
  /\ job \in [pc : {"idle", "mark", "wait", "close", "remove"},
              file : Files \cup {None}]
  /\ loaded \subseteq index
  /\ errors \in Nat /\ mixed \in BOOLEAN

\* The shape of a call: what its step says of its pin, of what it has still
\* to do, and of the place it reads.
CallInv(p) ==
  /\ CallTypes(rd[p])
  /\ rd[p].pc = "idle" <=> rd[p].file = None
  /\ rd[p].pc = "clone" => rd[p].kind = "get" /\ ~rd[p].loaded
  /\ rd[p].pinned <=> rd[p].kind \in Pins /\ rd[p].pc \notin {"idle", "clone"}
  /\ rd[p].pc \in {"next", "read"} => rd[p].todo # {}
  /\ rd[p].pc = "done" => rd[p].todo = {}
  /\ rd[p].err => rd[p].pc = "done"
  /\ rd[p].pc = "read" => InIndex(p)

\* A file that was taken out of the map gets no new pin, so that one that is
\* unlinked has none.
JobInv ==
  /\ job.pc # "idle" => job.file \in Files \ live
  /\ job.pc = "remove" => readers[job.file] = 0
  /\ \A f \in Files \ disk : readers[f] = 0

\* Who holds the lock of the map has a file that is in it; an index that is
\* said to be loaded is there, but for a clone that was taken during a load.
HandleInv(p) ==
  /\ MapReader(p) => rd[p].file \in live
  /\ ~mixed /\ rd[p].loaded => rd[p].index
  /\ rd[p].pc = "stored" => HasIndex(p)
  /\ ~mixed /\ rd[p].pc \in {"next", "read"} => HasIndex(p)

\* What has been found so far, and why a call ended with an error.
There(p) == rd[p].asked \cap DOMAIN Table[rd[p].file]
Covered(p) ==
  There(p) \subseteq rd[p].todo \cup {e[1] : e \in rd[p].found}
Excused(p) ==
  errors > 0 \/ rd[p].kind = "all" \/ rd[p].file \in Legacy \cap marked
ResultInv(p) ==
  ~mixed /\ rd[p].pc # "idle" =>
    /\ rd[p].found \subseteq {<<k, k>> : k \in There(p)}
    /\ IF rd[p].err THEN Excused(p)
       ELSE Covered(p) \/ (rd[p].kind = "scan" /\ errors > 0)

PinInv == Types /\ PinsBalance /\ JobInv
CallsInv == PinInv /\ \A p \in Procs : CallInv(p) /\ HandleInv(p)
ReadInv == CallsInv /\ \A p \in Procs : ResultInv(p)

-----------------------------------------------------------------------------
(* Pins                                                                    *)

Pinners(f) == {p \in Procs : rd[p].file = f /\ rd[p].pinned}

\* A pinned file has a count above zero.
LEMMA PinnedCounts ==
  ASSUME PinsBalance, NEW p \in Procs, rd[p].pinned, rd[p].file \in Files
  PROVE  readers[rd[p].file] > 0
<1> DEFINE f == rd[p].file
<1>1. readers[f] = Cardinality(Pinners(f))
  BY DEF PinsBalance, Pinners
<1>2. p \in Pinners(f) /\ Pinners(f) \in SUBSET Procs
  BY DEF Pinners
<1>3. IsFiniteSet(Pinners(f))
  BY <1>2, FS_Subset
<1>4. Cardinality(Pinners(f)) \in Nat /\ Cardinality(Pinners(f)) # 0
  BY <1>2, <1>3, FS_CardinalityType, FS_EmptySet
<1>5. QED
  BY <1>1, <1>4

\* A step that leaves the pin of each call alone keeps the balance.
LEMMA PinsSame ==
  ASSUME PinsBalance, readers' = readers,
         \A p \in Procs : \/ rd'[p].pinned = rd[p].pinned /\ rd'[p].file = rd[p].file
                          \/ ~rd[p].pinned /\ ~rd'[p].pinned
  PROVE  PinsBalance'
<1>1. ASSUME NEW f \in Files PROVE Pinners(f)' = Pinners(f)
  BY DEF Pinners
<1>2. QED
  BY <1>1 DEF PinsBalance, Pinners

\* A call takes a pin and counts it.
LEMMA PinTaken ==
  ASSUME PinsBalance, NEW p \in Procs, NEW f \in Files,
         ~rd[p].pinned, rd'[p].pinned, rd'[p].file = f,
         \A q \in Procs : q # p => rd'[q] = rd[q],
         readers \in [Files -> Int],
         readers' = [readers EXCEPT ![f] = @ + 1]
  PROVE  PinsBalance'
<1>1. ASSUME NEW g \in Files
      PROVE  readers'[g] = Cardinality(Pinners(g)')
  <2>1. readers[g] = Cardinality(Pinners(g))
    BY DEF PinsBalance, Pinners
  <2>2. CASE g = f
    <3>1. Pinners(f)' = Pinners(f) \cup {p} /\ p \notin Pinners(f)
      BY DEF Pinners
    <3>2. IsFiniteSet(Pinners(f))
      BY FS_Subset DEF Pinners
    <3>3. Cardinality(Pinners(f)') = Cardinality(Pinners(f)) + 1
      BY <3>1, <3>2, FS_AddElement
    <3>4. readers'[f] = readers[f] + 1
      OBVIOUS
    <3>5. QED
      BY <2>1, <2>2, <3>3, <3>4
  <2>3. CASE g # f
    <3>1. Pinners(g)' = Pinners(g)
      BY <2>3 DEF Pinners
    <3>2. QED
      BY <2>1, <2>3, <3>1
  <2>4. QED
    BY <2>2, <2>3
<1>2. QED
  BY <1>1 DEF PinsBalance, Pinners

\* A call gives its pin back.
LEMMA PinDropped ==
  ASSUME PinsBalance, NEW p \in Procs, NEW f \in Files,
         rd[p].pinned, rd[p].file = f, ~rd'[p].pinned,
         \A q \in Procs : q # p => rd'[q] = rd[q],
         readers \in [Files -> Int],
         readers' = [readers EXCEPT ![f] = @ - 1]
  PROVE  PinsBalance'
<1>1. ASSUME NEW g \in Files
      PROVE  readers'[g] = Cardinality(Pinners(g)')
  <2>1. readers[g] = Cardinality(Pinners(g))
    BY DEF PinsBalance, Pinners
  <2>2. CASE g = f
    <3>1. Pinners(f)' = Pinners(f) \ {p} /\ p \in Pinners(f)
      BY DEF Pinners
    <3>2. IsFiniteSet(Pinners(f))
      BY FS_Subset DEF Pinners
    <3>3. Cardinality(Pinners(f)') = Cardinality(Pinners(f)) - 1
      <4> DEFINE S == Pinners(f)
      <4>1. IsFiniteSet(S) /\ p \in S
        BY <3>1, <3>2
      <4> HIDE DEF S
      <4>2. Cardinality(S \ {p}) = Cardinality(S) - 1
        BY <4>1, FS_RemoveElement
      <4>3. QED
        BY <3>1, <4>2 DEF S
    <3>4. readers'[f] = readers[f] - 1
      OBVIOUS
    <3>5. QED
      BY <2>1, <2>2, <3>3, <3>4
  <2>3. CASE g # f
    <3>1. Pinners(g)' = Pinners(g)
      BY <2>3 DEF Pinners
    <3>2. QED
      BY <2>1, <2>3, <3>1
  <2>4. QED
    BY <2>2, <2>3
<1>2. QED
  BY <1>1 DEF PinsBalance, Pinners

-----------------------------------------------------------------------------
(* Steps of a call                                                         *)

\* What a step of another task may do beside a call.
LEMMA OtherCalls ==
  ASSUME NEW q \in Procs, CallInv(q), HandleInv(q), rd'[q] = rd[q],
         index \subseteq index', mixed => mixed',
         MapReader(q) => rd[q].file \in live'
  PROVE  CallInv(q)' /\ HandleInv(q)'
<1>1. MapReader(q)' = MapReader(q) /\ Cloned(q)' = Cloned(q)
  BY DEF MapReader, Cloned
<1>2. HasIndex(q) => HasIndex(q)'
  BY <1>1 DEF HasIndex
<1>3. InIndex(q) => InIndex(q)'
  BY <1>2 DEF InIndex, Hit
<1>4. CallInv(q)'
  BY <1>3 DEF CallInv, CallTypes, Shaped
<1>5. HandleInv(q)'
  BY <1>1, <1>2 DEF HandleInv
<1>6. QED
  BY <1>4, <1>5

LEMMA OtherResults ==
  ASSUME NEW q \in Procs, ResultInv(q), rd'[q] = rd[q], mixed => mixed',
         marked \subseteq marked', errors > 0 => errors' > 0
  PROVE  ResultInv(q)'
<1>1. There(q)' = There(q) /\ Covered(q)' = Covered(q)
  BY DEF There, Covered
<1>2. Excused(q) => Excused(q)'
  BY DEF Excused
<1>3. QED
  BY <1>1, <1>2 DEF ResultInv

\* A step of p that changes neither files nor pins.
Alone(p) ==
  /\ rd' = [q \in Procs |-> rd'[q]]
  /\ \A q \in Procs : q # p => rd'[q] = rd[q]
Quiet(p) ==
  /\ Alone(p) /\ rd'[p].pinned = rd[p].pinned /\ rd'[p].file = rd[p].file
  /\ UNCHANGED <<disk, live, marked, readers, job, mixed>>
  /\ index \subseteq index' /\ loaded' \subseteq index'
  /\ errors' \in Nat /\ errors' >= errors

LEMMA OwnStep ==
  ASSUME CallsInv, NEW p \in Procs, Quiet(p), CallInv(p)', HandleInv(p)'
  PROVE  CallsInv'
<1>1. Types'
  BY DEF CallsInv, PinInv, Types, Quiet, Alone
<1>2. PinsBalance'
  BY PinsSame DEF CallsInv, PinInv, Quiet, Alone
<1>3. JobInv'
  BY DEF CallsInv, PinInv, JobInv, Quiet
<1>4. ASSUME NEW q \in Procs PROVE CallInv(q)' /\ HandleInv(q)'
  <2>1. CASE q = p
    BY <2>1
  <2>2. CASE q # p
    <3>1. CallInv(q) /\ HandleInv(q) /\ rd'[q] = rd[q]
      BY <2>2 DEF CallsInv, Quiet, Alone
    <3>2. MapReader(q) => rd[q].file \in live'
      BY <3>1 DEF HandleInv, Quiet
    <3>3. QED
      BY <3>1, <3>2, OtherCalls DEF Quiet
  <2>3. QED
    BY <2>1, <2>2
<1>5. QED
  BY <1>1, <1>2, <1>3, <1>4 DEF CallsInv, PinInv

LEMMA OwnResult ==
  ASSUME ReadInv, NEW p \in Procs, Quiet(p), CallsInv', ResultInv(p)'
  PROVE  ReadInv'
<1>1. errors \in Nat /\ (errors > 0 => errors' > 0)
  BY DEF ReadInv, CallsInv, PinInv, Types, Quiet
<1>2. ASSUME NEW q \in Procs, q # p PROVE ResultInv(q)'
  BY <1>1, <1>2, OtherResults DEF ReadInv, Quiet, Alone
<1>3. QED
  BY <1>2 DEF ReadInv

\* A step that changes neither what is found nor what is left keeps the result.
LEMMA SameResult ==
  ASSUME ReadInv, NEW p \in Procs, Quiet(p), CallsInv', rd[p].pc # "idle",
         rd'[p].kind = rd[p].kind, rd'[p].asked = rd[p].asked,
         rd'[p].todo = rd[p].todo, rd'[p].found = rd[p].found,
         rd'[p].err = rd[p].err
  PROVE  ReadInv'
<1>1. ResultInv(p) /\ rd'[p].file = rd[p].file
  BY DEF ReadInv, Quiet
<1>2. There(p)' = There(p) /\ Covered(p)' = Covered(p)
  BY <1>1 DEF There, Covered
<1>3. errors \in Nat /\ (errors > 0 => errors' > 0)
  BY DEF ReadInv, CallsInv, PinInv, Types, Quiet
<1>4. Excused(p) => Excused(p)'
  BY <1>1, <1>3 DEF Excused, Quiet
<1>5. ResultInv(p)'
  BY <1>1, <1>2, <1>3, <1>4 DEF ResultInv, Quiet
<1>6. QED
  BY <1>5, OwnResult

\* A step that only moves a call on, before it has an index to use.
SameCall(r, s) ==
  /\ s.kind = r.kind /\ s.file = r.file /\ s.asked = r.asked
  /\ s.todo = r.todo /\ s.index = r.index /\ s.loaded = r.loaded
  /\ s.pinned = r.pinned /\ s.found = r.found /\ s.err = r.err

LEMMA Moved ==
  ASSUME CallsInv, NEW p \in Procs, Quiet(p),
         rd[p].pc \in Steps \ {"idle", "clone", "done"},
         Shaped(rd'[p]), SameCall(rd[p], rd'[p]),
         rd'[p].pc \in {"evict", "open", "index", "load"}
  PROVE  CallsInv' /\ (ReadInv => ReadInv')
<1>1. CallInv(p) /\ HandleInv(p)
  BY DEF CallsInv
<1>2. CallInv(p)'
  BY <1>1 DEF CallInv, CallTypes, SameCall, Steps
<1>3. MapReader(p)' => MapReader(p)
  BY DEF MapReader, SameCall
<1>4. HandleInv(p)'
  BY <1>1, <1>3 DEF HandleInv, SameCall, Quiet
<1>5. CallsInv'
  BY <1>2, <1>4, OwnStep
<1>6. ASSUME ReadInv PROVE ReadInv'
  BY <1>5, <1>6, SameResult DEF SameCall
<1>7. QED
  BY <1>5, <1>6

\* What each step of a call preserves.
Keeps == CallsInv' /\ (ReadInv /\ RoundTrips => ReadInv')

\* A step that replaces the call of p.
LEMMA Replaced ==
  ASSUME CallsInv, NEW p \in Procs, NEW r, rd' = [rd EXCEPT ![p] = r]
  PROVE  Alone(p) /\ rd'[p] = r
  BY DEF CallsInv, PinInv, Types, Alone

LEMMA CallOf ==
  ASSUME CallsInv, NEW p \in Procs
  PROVE  Shaped(rd[p]) /\ CallInv(p) /\ HandleInv(p) /\ errors \in Nat
  BY DEF CallsInv, PinInv, Types, CallInv, CallTypes

LEMMA GotoKeeps ==
  ASSUME CallsInv, NEW p \in Procs, NEW s, Goto(p, s),
         UNCHANGED <<disk, live, marked, readers, job, mixed, errors>>,
         index' = index, loaded' = loaded
  PROVE  /\ Quiet(p) /\ Shaped(rd'[p]) /\ SameCall(rd[p], rd'[p])
         /\ rd'[p].pc = s
<1>1. rd'[p] = [rd[p] EXCEPT !.pc = s] /\ Alone(p)
  BY DEF CallsInv, PinInv, Types, Alone, Goto
<1>2. Shaped(rd'[p]) /\ SameCall(rd[p], rd'[p]) /\ rd'[p].pc = s
  <2>1. Shaped(rd[p])
    BY CallOf
  <2>2. Shaped(rd'[p]) /\ rd'[p].pc = s
    BY <1>1, <2>1 DEF Shaped, CallFields
  <2>3. SameCall(rd[p], rd'[p])
    BY <1>1, <2>1 DEF Shaped, CallFields, SameCall
  <2>4. QED
    BY <2>2, <2>3
<1>3. QED
  BY <1>1, <1>2, CallOf DEF Quiet, SameCall, CallsInv, PinInv, Types

LEMMA CountKeeps ==
  ASSUME CallsInv, NEW p \in Procs, Count(p)
  PROVE  Keeps
<1> DEFINE open == live \cap fd
           many == IF Cardinality(open) < MaxOpen THEN 0
                   ELSE Cardinality(open) - MaxOpen + 1
           s == IF many = 0 THEN "open" ELSE "evict"
<1>1. PICK V : rd' = [rd EXCEPT ![p].victims = V, ![p].pc = s]
  BY DEF Count
<1> HIDE DEF many
<1>2. rd'[p] = [rd[p] EXCEPT !.victims = V, !.pc = s] /\ Alone(p)
  BY <1>1 DEF CallsInv, PinInv, Types, Alone
<1>3. Shaped(rd'[p]) /\ SameCall(rd[p], rd'[p]) /\ rd'[p].pc = s
  <2>1. Shaped(rd[p])
    BY CallOf
  <2>2. Shaped(rd'[p]) /\ rd'[p].pc = s
    BY <1>2, <2>1 DEF Shaped, CallFields
  <2>3. SameCall(rd[p], rd'[p])
    BY <1>2, <2>1 DEF Shaped, CallFields, SameCall
  <2>4. QED
    BY <2>2, <2>3
<1>4. Quiet(p)
  BY <1>2, <1>3, CallOf DEF Count, Quiet, SameCall, CallsInv, PinInv, Types
<1>5. rd[p].pc \in Steps \ {"idle", "clone", "done"} /\ s \in {"open", "evict"}
  BY DEF Count, Steps
<1>6. QED
  BY <1>3, <1>4, <1>5, Moved DEF Keeps

LEMMA EvictKeeps ==
  ASSUME CallsInv, NEW p \in Procs, Evict(p)
  PROVE  Keeps
<1>1. rd' = [rd EXCEPT ![p].victims = {}, ![p].pc = "open"]
  BY DEF Evict
<1>2. rd'[p] = [rd[p] EXCEPT !.victims = {}, !.pc = "open"] /\ Alone(p)
  BY <1>1 DEF CallsInv, PinInv, Types, Alone
<1>3. Shaped(rd'[p]) /\ SameCall(rd[p], rd'[p]) /\ rd'[p].pc = "open"
  <2>1. Shaped(rd[p])
    BY CallOf
  <2>2. Shaped(rd'[p]) /\ rd'[p].pc = "open"
    BY <1>2, <2>1 DEF Shaped, CallFields
  <2>3. SameCall(rd[p], rd'[p])
    BY <1>2, <2>1 DEF Shaped, CallFields, SameCall
  <2>4. QED
    BY <2>2, <2>3
<1>4. Quiet(p)
  BY <1>2, <1>3, CallOf DEF Evict, Quiet, SameCall, CallsInv, PinInv, Types
<1>5. rd[p].pc \in Steps \ {"idle", "clone", "done"}
  BY DEF Evict, Steps
<1>6. QED
  BY <1>3, <1>4, <1>5, Moved DEF Keeps

LEMMA OpenKeeps ==
  ASSUME CallsInv, NEW p \in Procs, Open(p)
  PROVE  Keeps
<1>1. /\ Goto(p, "index") /\ index' = index /\ loaded' = loaded
      /\ UNCHANGED <<disk, live, marked, readers, job, mixed, errors>>
  BY DEF Open
<1>2. rd[p].pc \in Steps \ {"idle", "clone", "done"}
  BY DEF Open, Steps
<1>3. QED
  BY <1>1, <1>2, GotoKeeps, Moved DEF Keeps

LEMMA LockIndexKeeps ==
  ASSUME CallsInv, NEW p \in Procs, LockIndex(p)
  PROVE  Keeps
<1>1. /\ Goto(p, "load") /\ index' = index /\ loaded' = loaded
      /\ UNCHANGED <<disk, live, marked, readers, job, mixed, errors>>
  BY DEF LockIndex
<1>2. rd[p].pc \in Steps \ {"idle", "clone", "done"}
  BY DEF LockIndex, Steps
<1>3. QED
  BY <1>1, <1>2, GotoKeeps, Moved DEF Keeps

\* Proceed decides by what is left.
LEMMA ProceedFields ==
  ASSUME NEW r, Shaped(r)
  PROVE  /\ Shaped(Proceed(r)) /\ SameCall(r, Proceed(r))
         /\ Proceed(r).pc = IF r.todo = {} THEN "done" ELSE "next"
<1>1. Shaped(Proceed(r))
  BY DEF Shaped, CallFields, Proceed
<1>2. SameCall(r, Proceed(r))
  BY DEF Shaped, CallFields, Proceed, SameCall
<1>3. Proceed(r).pc = IF r.todo = {} THEN "done" ELSE "next"
  BY DEF Shaped, CallFields, Proceed
<1>4. QED
  BY <1>1, <1>2, <1>3

\* A call goes on with its next key, or is done.
LEMMA Progress ==
  ASSUME CallsInv, NEW p \in Procs, Quiet(p),
         rd[p].pc \in Steps \ {"idle", "clone", "done"},
         Shaped(rd'[p]), rd'[p].kind = rd[p].kind, rd'[p].asked = rd[p].asked,
         rd'[p].todo \subseteq rd[p].todo, rd'[p].index \in BOOLEAN,
         rd'[p].loaded \in BOOLEAN, rd'[p].err \in BOOLEAN,
         rd'[p].pc \in {"next", "done"}, rd'[p].pc = "done" <=> rd'[p].todo = {},
         rd'[p].err => rd'[p].pc = "done",
         ~mixed /\ rd'[p].loaded => rd'[p].index,
         ~mixed /\ rd'[p].pc = "next" => HasIndex(p)'
  PROVE  CallsInv'
<1>1. CallInv(p) /\ HandleInv(p)
  BY CallOf
<1>2. CallTypes(rd[p])'
  BY <1>1 DEF CallInv, CallTypes, Steps, Quiet
<1>3. CallInv(p)'
  BY <1>1, <1>2 DEF CallInv, Quiet
<1>4. MapReader(p)' => MapReader(p)
  BY DEF MapReader
<1>5. HandleInv(p)'
  BY <1>1, <1>4 DEF HandleInv, Quiet
<1>6. QED
  BY <1>3, <1>5, OwnStep

\* The call ends with an error.
LEMMA Fails ==
  ASSUME CallsInv, NEW p \in Procs, Quiet(p),
         rd[p].pc \in Steps \ {"idle", "clone", "done"},
         rd'[p] = Err(p) \/ \E b : rd'[p] = [Err(p) EXCEPT !.block = b]
  PROVE  /\ CallsInv'
         /\ \/ mixed \/ errors' > 0 \/ rd[p].kind = "all"
            \/ rd[p].file \in Legacy \cap marked
            => (ReadInv => ReadInv')
<1>1. Shaped(rd[p]) /\ CallInv(p) /\ HandleInv(p) /\ errors \in Nat
  BY CallOf
<1>2. PICK b : rd'[p] = [Err(p) EXCEPT !.block = b]
  <2>1. CASE rd'[p] = Err(p)
    <3>1. Err(p) = [Err(p) EXCEPT !.block = rd[p].block]
      BY <1>1 DEF Shaped, CallFields, Err
    <3>2. QED
      BY <2>1, <3>1
  <2>2. QED
    BY <2>1
<1>3. Shaped(rd'[p])
  BY <1>1, <1>2 DEF Shaped, CallFields, Err
<1>4. /\ rd'[p].pc = "done" /\ rd'[p].err = TRUE /\ rd'[p].todo = {}
      /\ rd'[p].kind = rd[p].kind /\ rd'[p].asked = rd[p].asked
  BY <1>1, <1>2 DEF Shaped, CallFields, Err
<1>5. /\ rd'[p].index = rd[p].index /\ rd'[p].loaded = rd[p].loaded
      /\ rd'[p].found = rd[p].found /\ rd'[p].file = rd[p].file
  BY <1>1, <1>2 DEF Shaped, CallFields, Err
<1>6. /\ rd[p].index \in BOOLEAN /\ rd[p].loaded \in BOOLEAN
      /\ (~mixed /\ rd[p].loaded => rd[p].index)
  BY <1>1 DEF CallInv, CallTypes, HandleInv
<1>7. CallsInv'
  BY <1>3, <1>4, <1>5, <1>6, Progress
<1>8. ASSUME ReadInv,
             \/ mixed \/ errors' > 0 \/ rd[p].kind = "all"
             \/ rd[p].file \in Legacy \cap marked
      PROVE  ReadInv'
  <2>1. There(p)' = There(p)
    BY <1>4, <1>5 DEF There
  <2>2. ~mixed' => Excused(p)'
    BY <1>4, <1>5, <1>8 DEF Excused, Quiet
  <2>3. ResultInv(p) /\ (rd[p].pc # "idle")
    BY <1>8 DEF ReadInv
  <2>4. ResultInv(p)'
    BY <1>4, <1>5, <2>1, <2>2, <2>3 DEF ResultInv, Quiet
  <2>5. QED
    BY <1>7, <1>8, <2>4, OwnResult
<1>9. QED
  BY <1>7, <1>8

LEMMA UseIndexKeeps ==
  ASSUME CallsInv, NEW p \in Procs, UseIndex(p)
  PROVE  Keeps
<1>1. Shaped(rd[p]) /\ CallInv(p) /\ HandleInv(p) /\ errors \in Nat
  BY CallOf
<1>2. rd'[p] = Proceed(rd[p]) /\ Alone(p)
  BY DEF UseIndex, CallsInv, PinInv, Types, Alone
<1>3. /\ Shaped(rd'[p]) /\ SameCall(rd[p], rd'[p])
      /\ rd'[p].pc = IF rd[p].todo = {} THEN "done" ELSE "next"
  BY <1>1, <1>2, ProceedFields
<1>4. Quiet(p)
  BY <1>1, <1>2, <1>3 DEF UseIndex, Quiet, SameCall, CallsInv, PinInv, Types
<1>5. ~mixed => HasIndex(p)'
  <2>1. Loaded(p) /\ loaded \subseteq index /\ index' = index
    BY DEF UseIndex, CallsInv, PinInv, Types
  <2>2. ~mixed => HasIndex(p)
    BY <1>1, <2>1 DEF Loaded, HasIndex, HandleInv
  <2>3. HasIndex(p)' = HasIndex(p)
    BY <1>3, <2>1 DEF HasIndex, Cloned, SameCall
  <2>4. QED
    BY <2>2, <2>3
<1>6. rd[p].pc = "index" /\ rd[p].pc \in Steps \ {"idle", "clone", "done"}
  BY DEF UseIndex, Steps
<1>7. CallsInv'
  <2>1. /\ rd[p].index \in BOOLEAN /\ rd[p].loaded \in BOOLEAN /\ rd[p].err = FALSE
        /\ (~mixed /\ rd[p].loaded => rd[p].index)
    BY <1>1, <1>6 DEF CallInv, CallTypes, HandleInv
  <2>2. QED
    BY <1>3, <1>4, <1>5, <1>6, <2>1, Progress DEF SameCall
<1>8. ASSUME ReadInv PROVE ReadInv'
  BY <1>3, <1>4, <1>6, <1>7, <1>8, SameResult DEF SameCall
<1>9. QED
  BY <1>7, <1>8 DEF Keeps

LEMMA LoadKeeps ==
  ASSUME CallsInv, NEW p \in Procs, Load(p)
  PROVE  Keeps
<1>1. Shaped(rd[p]) /\ CallInv(p) /\ HandleInv(p) /\ errors \in Nat
  BY CallOf
<1>2. rd[p].pc = "load" /\ rd[p].pc # "idle" /\ rd[p].err = FALSE
  BY <1>1 DEF Load, CallInv, CallTypes
<1>3. /\ Alone(p) /\ Shaped(rd'[p]) /\ rd'[p].pc = "stored"
      /\ rd'[p].index = IF Cloned(p) THEN TRUE ELSE rd[p].index
      /\ index' = IF Cloned(p) THEN index ELSE index \cup {rd[p].file}
      /\ rd'[p].kind = rd[p].kind /\ rd'[p].asked = rd[p].asked
      /\ rd'[p].todo = rd[p].todo /\ rd'[p].found = rd[p].found
      /\ rd'[p].err = rd[p].err /\ rd'[p].file = rd[p].file
      /\ rd'[p].pinned = rd[p].pinned /\ rd'[p].loaded = rd[p].loaded
  <2>1. CASE Cloned(p)
    <3>1. rd' = [rd EXCEPT ![p].index = TRUE, ![p].pc = "stored"] /\ index' = index
      BY <2>1 DEF Load
    <3>2. Alone(p) /\ rd'[p] = [rd[p] EXCEPT !.index = TRUE, !.pc = "stored"]
      BY <3>1 DEF CallsInv, PinInv, Types, Alone
    <3>3. /\ Shaped(rd'[p]) /\ rd'[p].pc = "stored" /\ rd'[p].index = TRUE
      BY <1>1, <3>2 DEF Shaped, CallFields
    <3>4. /\ rd'[p].kind = rd[p].kind /\ rd'[p].asked = rd[p].asked
          /\ rd'[p].todo = rd[p].todo /\ rd'[p].found = rd[p].found
          /\ rd'[p].err = rd[p].err /\ rd'[p].file = rd[p].file
          /\ rd'[p].pinned = rd[p].pinned /\ rd'[p].loaded = rd[p].loaded
      BY <1>1, <3>2 DEF Shaped, CallFields
    <3>5. QED
      BY <2>1, <3>1, <3>2, <3>3, <3>4
  <2>2. CASE ~Cloned(p)
    <3>1. Goto(p, "stored") /\ index' = index \cup {rd[p].file}
      BY <2>2 DEF Load
    <3>2. Alone(p) /\ rd'[p] = [rd[p] EXCEPT !.pc = "stored"]
      BY <3>1 DEF Goto, CallsInv, PinInv, Types, Alone
    <3>3. Shaped(rd'[p]) /\ rd'[p].pc = "stored" /\ rd'[p].index = rd[p].index
      BY <1>1, <3>2 DEF Shaped, CallFields
    <3>4. QED
      BY <1>1, <2>2, <3>1, <3>2, <3>3 DEF Shaped, CallFields
  <2>3. QED
    BY <2>1, <2>2
<1>4. Quiet(p)
  <2>1. /\ UNCHANGED <<disk, live, marked, readers, job, mixed>>
        /\ loaded' = loaded /\ errors' = errors
    BY DEF Load
  <2>2. loaded \subseteq index
    BY DEF CallsInv, PinInv, Types
  <2>3. QED
    BY <1>1, <1>3, <2>1, <2>2 DEF Quiet
<1>5. HasIndex(p)'
  BY <1>3 DEF HasIndex, Cloned
<1>6. CallInv(p)'
  <2>1. CallTypes(rd[p])'
    BY <1>1, <1>3 DEF CallInv, CallTypes, Steps
  <2>2. QED
    BY <1>1, <1>2, <1>3, <2>1 DEF CallInv
<1>7. HandleInv(p)'
  <2>1. MapReader(p)' => MapReader(p)
    BY <1>2, <1>3 DEF MapReader
  <2>2. QED
    BY <1>1, <1>3, <1>4, <1>5, <2>1 DEF HandleInv, Quiet
<1>8. CallsInv'
  BY <1>4, <1>6, <1>7, OwnStep
<1>9. QED
  BY <1>2, <1>3, <1>4, <1>8, SameResult DEF Keeps

LEMMA SetLoadedKeeps ==
  ASSUME CallsInv, NEW p \in Procs, SetLoaded(p)
  PROVE  Keeps
<1>1. Shaped(rd[p]) /\ CallInv(p) /\ HandleInv(p) /\ errors \in Nat
  BY CallOf
<1>2. rd[p].pc = "stored" /\ rd[p].pc # "idle" /\ rd[p].err = FALSE
  BY <1>1 DEF SetLoaded, CallInv, CallTypes
<1> DEFINE r == IF Cloned(p) THEN [rd[p] EXCEPT !.loaded = TRUE] ELSE rd[p]
<1>3. /\ Shaped(r) /\ r.loaded = IF Cloned(p) THEN TRUE ELSE rd[p].loaded
      /\ r.kind = rd[p].kind /\ r.asked = rd[p].asked /\ r.todo = rd[p].todo
      /\ r.found = rd[p].found /\ r.err = rd[p].err /\ r.file = rd[p].file
      /\ r.pinned = rd[p].pinned /\ r.index = rd[p].index
  BY <1>1 DEF Shaped, CallFields
<1>4. Alone(p) /\ rd'[p] = Proceed(r)
  BY Replaced DEF SetLoaded
<1> HIDE DEF r
<1>5. /\ Shaped(rd'[p]) /\ SameCall(r, rd'[p])
      /\ rd'[p].pc = IF rd[p].todo = {} THEN "done" ELSE "next"
  BY <1>3, <1>4, ProceedFields
<1>6. HasIndex(p)
  BY <1>1, <1>2 DEF HandleInv
<1>7. Quiet(p)
  <2>1. /\ UNCHANGED <<disk, live, marked, readers, job, mixed>>
        /\ index' = index /\ errors' = errors
        /\ loaded' = IF Cloned(p) THEN loaded ELSE loaded \cup {rd[p].file}
    BY DEF SetLoaded
  <2>2. loaded \subseteq index
    BY DEF CallsInv, PinInv, Types
  <2>3. ~Cloned(p) => rd[p].file \in index
    BY <1>6 DEF HasIndex
  <2>4. QED
    BY <1>1, <1>3, <1>4, <1>5, <2>1, <2>2, <2>3 DEF Quiet, SameCall
<1>8. HasIndex(p)'
  BY <1>3, <1>5, <1>6, <1>7 DEF HasIndex, Cloned, SameCall, Quiet
<1>9. CallsInv'
  <2>1. /\ rd[p].index \in BOOLEAN /\ rd[p].loaded \in BOOLEAN
        /\ (~mixed /\ rd[p].loaded => rd[p].index)
    BY <1>1 DEF CallInv, CallTypes, HandleInv
  <2>2. Cloned(p) => rd[p].index
    BY <1>6 DEF HasIndex
  <2>3. /\ rd'[p].kind = rd[p].kind /\ rd'[p].asked = rd[p].asked
        /\ rd'[p].todo = rd[p].todo /\ rd'[p].index = rd[p].index
        /\ rd'[p].loaded \in BOOLEAN /\ rd'[p].err = FALSE
        /\ (~mixed /\ rd'[p].loaded => rd'[p].index)
    BY <1>2, <1>3, <1>5, <2>1, <2>2 DEF SameCall
  <2>4. rd[p].pc \in Steps \ {"idle", "clone", "done"}
    BY <1>2 DEF Steps
  <2>5. QED
    BY <1>5, <1>7, <1>8, <2>1, <2>3, <2>4, Progress
<1>10. QED
  BY <1>2, <1>3, <1>5, <1>7, <1>9, SameResult DEF Keeps, SameCall

\* A call other than the read of a compaction has a file that can be read:
\* it holds the lock of the map, or it has pinned the file.
LEMMA FileIsThere ==
  ASSUME CallsInv, NEW p \in Procs, rd[p].pc \notin {"idle"}, rd[p].kind # "all"
  PROVE  rd[p].file \in disk
<1>1. CallInv(p) /\ HandleInv(p) /\ Types /\ PinsBalance /\ JobInv
  BY CallOf DEF CallsInv, PinInv
<1>2. rd[p].file \in Files /\ rd[p].kind \in CallKinds
  BY <1>1 DEF CallInv, CallTypes
<1>3. CASE MapReader(p)
  BY <1>1, <1>3 DEF HandleInv, Types
<1>4. CASE ~MapReader(p)
  <2>1. rd[p].pinned
    BY <1>1, <1>2, <1>4 DEF MapReader, CallInv, Clones, CallKinds, Pins
  <2>2. readers[rd[p].file] > 0 /\ readers[rd[p].file] \in Int
    BY <1>1, <1>2, <2>1, PinnedCounts DEF Types
  <2>3. QED
    BY <1>1, <1>2, <2>2 DEF JobInv
<1>5. QED
  BY <1>3, <1>4

LEMMA LoadFailsKeeps ==
  ASSUME CallsInv, NEW p \in Procs, LoadFails(p)
  PROVE  Keeps
<1>1. Shaped(rd[p]) /\ CallInv(p) /\ HandleInv(p) /\ errors \in Nat
  BY CallOf
<1>2. Alone(p) /\ rd'[p] = Err(p)
  BY Replaced DEF LoadFails
<1>3. rd'[p].file = rd[p].file /\ rd'[p].pinned = rd[p].pinned
  BY <1>1, <1>2 DEF Err, Shaped, CallFields
<1>4. errors' \in Nat /\ errors' >= errors /\ (CanRead(rd[p].file) => errors' > 0)
  BY <1>1 DEF LoadFails
<1>5. Quiet(p)
  BY <1>2, <1>3, <1>4 DEF LoadFails, Quiet, CallsInv, PinInv, Types
<1>6. rd[p].pc = "load" /\ rd[p].pc \in Steps \ {"idle", "clone", "done"}
  BY DEF LoadFails, Steps
<1>7. rd[p].kind = "all" \/ errors' > 0
  <2>1. rd[p].kind # "all" => rd[p].file \in disk
    BY <1>6, FileIsThere
  <2>2. QED
    BY <1>4, <2>1 DEF CanRead
<1>8. QED
  BY <1>2, <1>5, <1>6, <1>7, Fails DEF Keeps

\* The next key.
LEMMA NextKey ==
  ASSUME CallsInv, NEW p \in Procs, rd[p].pc \in {"next", "read"}
  PROVE  /\ Min(rd[p].todo) \in rd[p].todo /\ Min(rd[p].todo) \in rd[p].asked
         /\ Min(rd[p].todo) \in Keys /\ Min(rd[p].todo) # 0
         /\ rd[p].file \in Files
<1>1. rd[p].todo # {} /\ rd[p].todo \subseteq rd[p].asked /\ rd[p].asked \subseteq Keys
  BY CallOf DEF CallInv, CallTypes
<1>2. rd[p].todo \in SUBSET Nat
  BY <1>1
<1>3. Min(rd[p].todo) \in rd[p].todo
  BY <1>1, <1>2, MinNat
<1>4. rd[p].file \in Files
  BY CallOf DEF CallInv, CallTypes
<1>5. QED
  BY <1>1, <1>3, <1>4

\* A key is skipped by a scan, or because it is not in the index: then it is
\* not in the file.
LEMMA SkippedKey ==
  ASSUME CallsInv, NEW p \in Procs, Quiet(p), rd[p].pc \in {"next", "read"},
         rd'[p] = Proceed([rd[p] EXCEPT !.todo = @ \ {Min(@)}]),
         index' = index
  PROVE  /\ CallsInv'
         /\ \/ ~mixed => Min(rd[p].todo) \notin DOMAIN Table[rd[p].file]
            \/ rd[p].kind = "scan" /\ errors' > 0
            => (ReadInv => ReadInv')
<1> DEFINE m == Min(rd[p].todo)
           r == [rd[p] EXCEPT !.todo = @ \ {m}]
<1>1. Shaped(rd[p]) /\ CallInv(p) /\ HandleInv(p) /\ errors \in Nat
  BY CallOf
<1>2. /\ Shaped(r) /\ r.todo = rd[p].todo \ {m} /\ r.kind = rd[p].kind
      /\ r.asked = rd[p].asked /\ r.found = rd[p].found /\ r.err = rd[p].err
      /\ r.file = rd[p].file /\ r.index = rd[p].index /\ r.loaded = rd[p].loaded
  BY <1>1 DEF Shaped, CallFields
<1>3. rd'[p] = Proceed(r)
  OBVIOUS
<1> HIDE DEF r
<1>4. /\ Shaped(rd'[p]) /\ SameCall(r, rd'[p])
      /\ rd'[p].pc = IF r.todo = {} THEN "done" ELSE "next"
  BY <1>2, <1>3, ProceedFields
<1>5. /\ rd'[p].kind = rd[p].kind /\ rd'[p].asked = rd[p].asked
      /\ rd'[p].todo = rd[p].todo \ {m} /\ rd'[p].found = rd[p].found
      /\ rd'[p].index = rd[p].index /\ rd'[p].loaded = rd[p].loaded
      /\ rd'[p].err = FALSE /\ rd'[p].file = rd[p].file
  BY <1>1, <1>2, <1>4 DEF SameCall, CallInv, CallTypes
<1>6. ~mixed => HasIndex(p)'
  BY <1>1, <1>5 DEF HandleInv, HasIndex, Cloned
<1>7. CallsInv'
  <2>1. /\ rd[p].index \in BOOLEAN /\ rd[p].loaded \in BOOLEAN
        /\ (~mixed /\ rd[p].loaded => rd[p].index)
    BY <1>1 DEF CallInv, CallTypes, HandleInv
  <2>2. rd[p].pc \in Steps \ {"idle", "clone", "done"}
    BY DEF Steps
  <2>3. rd'[p].pc \in {"next", "done"} /\ (rd'[p].pc = "done" <=> rd'[p].todo = {})
    BY <1>4 DEF SameCall
  <2>4. QED
    BY <1>4, <1>5, <1>6, <2>1, <2>2, <2>3, Progress
<1>8. ASSUME ReadInv,
             \/ ~mixed => m \notin DOMAIN Table[rd[p].file]
             \/ rd[p].kind = "scan" /\ errors' > 0
      PROVE  ReadInv'
  <2>1. ResultInv(p) /\ rd[p].err = FALSE
    BY <1>1, <1>8 DEF ReadInv, CallInv, CallTypes
  <2>2. There(p)' = There(p)
    BY <1>5 DEF There
  <2>3. ASSUME ~mixed, Covered(p), m \notin DOMAIN Table[rd[p].file]
        PROVE  Covered(p)'
    BY <1>5, <2>2, <2>3 DEF Covered, There
  <2>4. errors > 0 => errors' > 0
    BY <1>1 DEF Quiet
  <2>5. ResultInv(p)'
    BY <1>5, <1>8, <2>1, <2>2, <2>3, <2>4 DEF ResultInv, Quiet
  <2>6. QED
    BY <1>7, <1>8, <2>5, OwnResult
<1>9. QED
  BY <1>7, <1>8

LEMMA SkipKeeps ==
  ASSUME CallsInv, NEW p \in Procs, Skip(p)
  PROVE  Keeps
<1>1. Shaped(rd[p]) /\ CallInv(p) /\ HandleInv(p) /\ errors \in Nat
  BY CallOf
<1>2. rd[p].pc = "next" /\ rd[p].pc \in Steps \ {"idle", "clone", "done"}
  BY DEF Skip, Steps
<1>3. /\ UNCHANGED <<disk, live, marked, readers, job, mixed, errors>>
      /\ index' = index /\ loaded' = loaded /\ loaded \subseteq index
  BY DEF Skip, CallsInv, PinInv, Types
<1>4. CASE Stops(p)
  <2>1. Alone(p) /\ rd'[p] = Err(p)
    BY <1>4, Replaced DEF Skip
  <2>2. rd'[p].file = rd[p].file /\ rd'[p].pinned = rd[p].pinned
    BY <1>1, <2>1 DEF Err, Shaped, CallFields
  <2>3. Quiet(p)
    BY <1>1, <1>3, <2>1, <2>2 DEF Quiet
  <2>4. rd[p].kind = "all"
    BY <1>4 DEF Stops
  <2>5. QED
    BY <1>2, <2>1, <2>3, <2>4, Fails DEF Keeps
<1>5. CASE ~Stops(p)
  <2> DEFINE r == [rd[p] EXCEPT !.todo = @ \ {Min(@)}]
  <2>1. Alone(p) /\ rd'[p] = Proceed(r)
    <3>1. rd' = [rd EXCEPT ![p] = IF Stops(p) THEN Err(p) ELSE Proceed(r)]
      BY DEF Skip
    <3> HIDE DEF r
    <3>2. QED
      BY <1>5, <3>1, Replaced
  <2>2. Shaped(r) /\ r.file = rd[p].file /\ r.pinned = rd[p].pinned
    BY <1>1 DEF Shaped, CallFields
  <2>3. rd'[p].file = rd[p].file /\ rd'[p].pinned = rd[p].pinned
    <3> HIDE DEF r
    <3>1. QED
      BY <2>1, <2>2, ProceedFields DEF SameCall
  <2>4. Quiet(p)
    BY <1>1, <1>3, <2>1, <2>3 DEF Quiet
  <2>5. ASSUME RoundTrips, ~mixed
        PROVE  Min(rd[p].todo) \notin DOMAIN Table[rd[p].file]
    <3>1. Hit(p) = {} /\ HasIndex(p)
      BY <1>1, <1>2, <1>5, <2>5 DEF Skip, InIndex, HandleInv
    <3>2. Hits[rd[p].file][Min(rd[p].todo)] = {}
      BY <3>1 DEF Hit
    <3>3. QED
      BY <1>2, <2>5, <3>2, NextKey DEF RoundTrips
  <2>6. QED
    BY <1>2, <1>3, <2>1, <2>4, <2>5, SkippedKey DEF Keeps
<1>6. QED
  BY <1>4, <1>5

\* What is found at the place of the next key is the entry of that key.
LEMMA PlaceHoldsKey ==
  ASSUME CallsInv, RoundTrips, NEW p \in Procs,
         rd[p].pc \in {"next", "read"}, InIndex(p)
  PROVE  /\ Min(rd[p].todo) \in DOMAIN Table[rd[p].file]
         /\ EntryOf[rd[p].file][Place(p)] = Min(rd[p].todo)
<1> DEFINE m == Min(rd[p].todo)
<1>1. m \in Keys /\ rd[p].file \in Files
  BY NextKey
<1>2. Hit(p) = Hits[rd[p].file][m] /\ Hit(p) # {}
  BY DEF InIndex, Hit
<1>3. m \in DOMAIN Table[rd[p].file]
  BY <1>1, <1>2 DEF RoundTrips
<1>4. PICK r \in Hit(p) : Place(p) = r.at
  <2>1. (CHOOSE r \in Hit(p) : TRUE) \in Hit(p)
    BY <1>2
  <2>2. QED
    BY <2>1 DEF Place
<1>5. \A x \in Hits[rd[p].file][m] : EntryOf[rd[p].file][x.at] = m
  BY <1>1, <1>3 DEF RoundTrips
<1>6. QED
  BY <1>2, <1>3, <1>4, <1>5

\* The entry is added to the result.
LEMMA DeliverKeeps ==
  ASSUME CallsInv, NEW p \in Procs, rd[p].pc \in {"next", "read"}, InIndex(p),
         Deliver(p), index' = index, loaded' = loaded,
         UNCHANGED <<disk, live, marked, readers, job, mixed, errors>>
  PROVE  Keeps
<1> DEFINE f == rd[p].file
           m == Min(rd[p].todo)
           e == EntryOf[f][Place(p)]
           t == [rd[p] EXCEPT !.todo = @ \ {Min(@)}, !.tries = 0,
                              !.found = @ \cup {<<m, e>>}]
           r == IF e = 0 THEN Err(p) ELSE Proceed(t)
<1>1. Shaped(rd[p]) /\ CallInv(p) /\ HandleInv(p) /\ errors \in Nat
  BY CallOf
<1>2. /\ Alone(p)
      /\ rd'[p] = r \/ \E b : rd'[p] = [r EXCEPT !.block = b]
  <2>1. rd' = [rd EXCEPT ![p] = r] \/ \E b : rd' = [rd EXCEPT ![p] = [r EXCEPT !.block = b]]
    BY DEF Deliver
  <2> HIDE DEF r
  <2>2. QED
    BY <2>1, Replaced
<1>3. loaded \subseteq index
  BY DEF CallsInv, PinInv, Types
<1>4. rd[p].pc \in Steps \ {"idle", "clone", "done"}
  BY DEF Steps
<1>5. CASE e = 0
  <2>1. rd'[p] = Err(p) \/ \E b : rd'[p] = [Err(p) EXCEPT !.block = b]
    BY <1>2, <1>5
  <2>2. rd'[p].file = rd[p].file /\ rd'[p].pinned = rd[p].pinned
    BY <1>1, <2>1 DEF Err, Shaped, CallFields
  <2>3. Quiet(p)
    BY <1>1, <1>2, <1>3, <2>2 DEF Quiet
  <2>4. ~RoundTrips
    BY <1>5, PlaceHoldsKey, NextKey
  <2>5. QED
    BY <1>4, <2>1, <2>3, <2>4, Fails DEF Keeps
<1>6. CASE e # 0
  <2>1. /\ Shaped(t) /\ t.todo = rd[p].todo \ {m}
        /\ t.found = rd[p].found \cup {<<m, e>>}
    BY <1>1 DEF Shaped, CallFields
  <2>2. /\ t.kind = rd[p].kind /\ t.asked = rd[p].asked /\ t.file = rd[p].file
        /\ t.index = rd[p].index /\ t.loaded = rd[p].loaded
        /\ t.pinned = rd[p].pinned /\ t.err = rd[p].err
    BY <1>1 DEF Shaped, CallFields
  <2>3. r = Proceed(t)
    BY <1>6
  <2> HIDE DEF t, r
  <2>4. /\ Shaped(r) /\ SameCall(t, r)
        /\ r.pc = IF t.todo = {} THEN "done" ELSE "next"
    BY <2>1, <2>3, ProceedFields
  <2>5. /\ Shaped(rd'[p]) /\ SameCall(r, rd'[p]) /\ rd'[p].pc = r.pc
    <3>1. CASE rd'[p] = r
      BY <2>4, <3>1 DEF SameCall
    <3>2. ASSUME NEW b, rd'[p] = [r EXCEPT !.block = b]
          PROVE  Shaped(rd'[p]) /\ SameCall(r, rd'[p]) /\ rd'[p].pc = r.pc
      <4>1. Shaped(rd'[p]) /\ rd'[p].pc = r.pc
        BY <2>4, <3>2 DEF Shaped, CallFields
      <4>2. SameCall(r, rd'[p])
        BY <2>4, <3>2 DEF Shaped, CallFields, SameCall
      <4>3. QED
        BY <4>1, <4>2
    <3>3. QED
      BY <1>2, <3>1, <3>2
  <2>6. /\ rd'[p].kind = rd[p].kind /\ rd'[p].asked = rd[p].asked
        /\ rd'[p].todo = rd[p].todo \ {m}
        /\ rd'[p].found = rd[p].found \cup {<<m, e>>}
        /\ rd'[p].index = rd[p].index /\ rd'[p].loaded = rd[p].loaded
        /\ rd'[p].err = rd[p].err /\ rd'[p].file = rd[p].file
        /\ rd'[p].pinned = rd[p].pinned
    BY <2>1, <2>2, <2>4, <2>5 DEF SameCall
  <2>7. Quiet(p)
    BY <1>1, <1>2, <1>3, <2>6 DEF Quiet
  <2>8. CallsInv'
    <3>1. /\ rd[p].index \in BOOLEAN /\ rd[p].loaded \in BOOLEAN
          /\ (~mixed /\ rd[p].loaded => rd[p].index) /\ rd[p].err = FALSE
      BY <1>1, <1>4 DEF CallInv, CallTypes, HandleInv
    <3>2. ~mixed => HasIndex(p)'
      BY <1>1, <2>6 DEF HandleInv, HasIndex, Cloned
    <3>3. rd'[p].pc \in {"next", "done"} /\ (rd'[p].pc = "done" <=> rd'[p].todo = {})
      BY <2>1, <2>4, <2>5, <2>6
    <3>4. QED
      BY <1>4, <2>5, <2>6, <2>7, <3>1, <3>2, <3>3, Progress
  <2>9. ASSUME ReadInv, RoundTrips PROVE ReadInv'
    <3>1. ResultInv(p) /\ rd[p].err = FALSE
      BY <1>1, <1>4, <2>9 DEF ReadInv, CallInv, CallTypes
    <3>2. There(p)' = There(p) /\ m \in There(p) /\ e = m
      BY <2>6, <2>9, PlaceHoldsKey, NextKey DEF There
    <3>3. Covered(p) => Covered(p)'
      <4>1. SUFFICES ASSUME Covered(p), NEW k \in There(p)
                     PROVE  k \in rd'[p].todo \cup {x[1] : x \in rd'[p].found}
        BY <3>2 DEF Covered
      <4>2. CASE k = m
        <5>1. <<m, e>> \in rd'[p].found /\ <<m, e>>[1] = m
          BY <2>6
        <5>2. QED
          BY <4>2, <5>1
      <4>3. CASE k # m
        BY <2>6, <4>1, <4>3 DEF Covered
      <4>4. QED
        BY <4>2, <4>3
    <3>4. ResultInv(p)'
      BY <2>6, <3>1, <3>2, <3>3 DEF ResultInv
    <3>5. QED
      BY <2>7, <2>8, <2>9, <3>4, OwnResult
  <2>10. QED
    BY <2>8, <2>9 DEF Keeps
<1>7. QED
  BY <1>5, <1>6

LEMMA FromLastBlockKeeps ==
  ASSUME CallsInv, NEW p \in Procs, FromLastBlock(p)
  PROVE  Keeps
<1>1. rd[p].pc \in {"next", "read"} /\ InIndex(p)
  BY DEF FromLastBlock, Looking
<1>2. /\ Deliver(p) /\ index' = index /\ loaded' = loaded
      /\ UNCHANGED <<disk, live, marked, readers, job, mixed, errors>>
  BY DEF FromLastBlock
<1>3. QED
  BY <1>1, <1>2, DeliverKeeps

LEMMA FromCacheKeeps ==
  ASSUME CallsInv, NEW p \in Procs, FromCache(p)
  PROVE  Keeps
<1>1. rd[p].pc = "next" /\ InIndex(p)
  BY DEF FromCache, Looking
<1>2. /\ index' = index /\ loaded' = loaded
      /\ UNCHANGED <<disk, live, marked, readers, job, mixed, errors>>
  BY DEF FromCache
<1>3. CASE Cached(p)
  <2>1. Deliver(p)
    BY <1>3 DEF FromCache
  <2>2. QED
    BY <1>1, <1>2, <2>1, DeliverKeeps
<1>4. CASE ~Cached(p)
  <2>1. Goto(p, "read")
    BY <1>4 DEF FromCache
  <2>2. /\ Quiet(p) /\ Shaped(rd'[p]) /\ SameCall(rd[p], rd'[p])
        /\ rd'[p].pc = "read"
    BY <1>2, <2>1, GotoKeeps
  <2>3. CallInv(p) /\ HandleInv(p)
    BY CallOf
  <2>4. HasIndex(p)' = HasIndex(p)
    BY <1>2, <2>2 DEF HasIndex, Cloned, SameCall
  <2>5. InIndex(p)'
    BY <1>1, <2>2, <2>4 DEF InIndex, Hit, SameCall
  <2>6. CallInv(p)'
    <3>1. CallTypes(rd[p])'
      BY <2>2, <2>3 DEF CallInv, CallTypes, SameCall, Steps
    <3>2. QED
      BY <1>1, <2>2, <2>3, <2>5, <3>1 DEF CallInv, SameCall
  <2>7. HandleInv(p)'
    <3>1. MapReader(p)' => MapReader(p)
      BY <1>1, <2>2 DEF MapReader, SameCall
    <3>2. QED
      BY <1>1, <1>2, <2>2, <2>3, <2>4, <3>1 DEF HandleInv, SameCall
  <2>8. CallsInv'
    BY <2>2, <2>6, <2>7, OwnStep
  <2>9. QED
    BY <1>1, <2>2, <2>8, SameResult DEF Keeps, SameCall
<1>5. QED
  BY <1>3, <1>4

LEMMA FromFileKeeps ==
  ASSUME CallsInv, NEW p \in Procs, FromFile(p)
  PROVE  Keeps
<1>1. rd[p].pc = "read" /\ InIndex(p)
  BY CallOf DEF FromFile, CallInv
<1>2. /\ Deliver(p) /\ index' = index /\ loaded' = loaded
      /\ UNCHANGED <<disk, live, marked, readers, job, mixed, errors>>
  BY DEF FromFile
<1>3. QED
  BY <1>1, <1>2, DeliverKeeps

\* A read that fails for another reason than an I/O error is one of a file
\* that a compaction reads unpinned, or of the older format and marked: but
\* the scans hold the lock of the map, and what is in the map is not marked.
LEMMA ReadFailsKeeps ==
  ASSUME CallsInv, NEW p \in Procs, ReadFails(p)
  PROVE  Keeps
<1>1. Shaped(rd[p]) /\ CallInv(p) /\ HandleInv(p) /\ errors \in Nat
  BY CallOf
<1>2. rd[p].pc = "read" /\ rd[p].pc \in Steps \ {"idle", "clone", "done"}
  BY DEF ReadFails, Steps
<1>3. /\ UNCHANGED <<disk, live, marked, readers, job, mixed>>
      /\ index' = index /\ loaded' = loaded /\ loaded \subseteq index
  BY DEF ReadFails, CallsInv, PinInv, Types
<1>4. /\ errors' \in Nat /\ errors' >= errors
      /\ CanReadEntry(rd[p].file) => errors' > 0
  BY <1>1 DEF ReadFails
<1>5. Alone(p) /\ rd'[p] = Retry(p)
  BY Replaced DEF ReadFails
<1>6. \/ errors' > 0 \/ rd[p].kind = "all"
      \/ rd[p].file \in Legacy \cap marked /\ rd[p].kind # "scan"
  <2>1. rd[p].kind = "all" \/ rd[p].file \in disk
    BY <1>2, FileIsThere
  <2>2. rd[p].kind = "scan" => rd[p].file \notin marked
    <3>1. rd[p].kind = "scan" => MapReader(p)
      BY <1>2 DEF MapReader, Clones
    <3>2. marked \subseteq Files \ live
      BY DEF CallsInv, PinInv, Types
    <3>3. QED
      BY <1>1, <3>1, <3>2 DEF HandleInv
  <2>3. QED
    BY <1>4, <2>1, <2>2 DEF CanReadEntry, CanRead
<1>7. CASE rd[p].kind = "get" /\ rd[p].tries + 1 < Attempts
  <2>1. rd'[p] = [rd[p] EXCEPT !.tries = @ + 1, !.pc = "next"]
    BY <1>5, <1>7 DEF Retry
  <2>2. Shaped(rd'[p]) /\ rd'[p].pc = "next"
    BY <1>1, <2>1 DEF Shaped, CallFields
  <2>3. SameCall(rd[p], rd'[p])
    BY <1>1, <2>1 DEF Shaped, CallFields, SameCall
  <2>4. Quiet(p)
    BY <1>3, <1>4, <1>5, <2>3 DEF Quiet, SameCall
  <2>5. ~mixed => HasIndex(p)'
    BY <1>1, <1>2, <1>3, <2>3 DEF HandleInv, HasIndex, Cloned, SameCall
  <2>6. CallsInv'
    <3>1. /\ rd[p].index \in BOOLEAN /\ rd[p].loaded \in BOOLEAN
          /\ (~mixed /\ rd[p].loaded => rd[p].index)
          /\ rd[p].err = FALSE /\ rd[p].todo # {}
      BY <1>1, <1>2 DEF CallInv, CallTypes, HandleInv
    <3>2. QED
      BY <1>2, <2>2, <2>3, <2>4, <2>5, <3>1, Progress DEF SameCall
  <2>7. QED
    BY <1>2, <2>3, <2>4, <2>6, SameResult DEF Keeps, SameCall
<1>8. CASE rd[p].kind = "scan"
  <2> DEFINE r == [rd[p] EXCEPT !.todo = @ \ {Min(@)}]
  <2>1. rd'[p] = Proceed(r)
    BY <1>5, <1>8 DEF Retry
  <2>2. Shaped(r) /\ r.file = rd[p].file /\ r.pinned = rd[p].pinned
    BY <1>1 DEF Shaped, CallFields
  <2>3. rd'[p].file = rd[p].file /\ rd'[p].pinned = rd[p].pinned
    <3> HIDE DEF r
    <3>1. QED
      BY <2>1, <2>2, ProceedFields DEF SameCall
  <2>4. Quiet(p)
    BY <1>3, <1>4, <1>5, <2>3 DEF Quiet
  <2>5. errors' > 0
    BY <1>6, <1>8
  <2>6. QED
    BY <1>2, <1>3, <1>8, <2>1, <2>4, <2>5, SkippedKey DEF Keeps
<1>9. CASE /\ rd[p].kind # "scan"
           /\ ~(rd[p].kind = "get" /\ rd[p].tries + 1 < Attempts)
  <2>1. rd'[p] = Err(p)
    BY <1>5, <1>9 DEF Retry
  <2>2. rd'[p].file = rd[p].file /\ rd'[p].pinned = rd[p].pinned
    BY <1>1, <2>1 DEF Err, Shaped, CallFields
  <2>3. Quiet(p)
    BY <1>3, <1>4, <1>5, <2>2 DEF Quiet
  <2>4. QED
    BY <1>2, <1>6, <2>1, <2>3, Fails DEF Keeps
<1>10. QED
  BY <1>7, <1>8, <1>9

-----------------------------------------------------------------------------
(* Steps that take or drop a pin                                           *)

LEMMA OthersStay ==
  ASSUME CallsInv, NEW p \in Procs, Alone(p), index' = index, live' = live,
         marked' = marked, errors' = errors, mixed => mixed'
  PROVE  /\ \A q \in Procs : q # p => CallInv(q)' /\ HandleInv(q)'
         /\ ReadInv => \A q \in Procs : q # p => ResultInv(q)'
<1>1. ASSUME NEW q \in Procs, q # p PROVE CallInv(q)' /\ HandleInv(q)'
  <2>1. CallInv(q) /\ HandleInv(q) /\ rd'[q] = rd[q]
    BY <1>1 DEF CallsInv, Alone
  <2>2. MapReader(q) => rd[q].file \in live'
    BY <2>1 DEF HandleInv
  <2>3. QED
    BY <2>1, <2>2, OtherCalls
<1>2. ASSUME ReadInv, NEW q \in Procs, q # p PROVE ResultInv(q)'
  <2>1. ResultInv(q) /\ rd'[q] = rd[q]
    BY <1>2 DEF ReadInv, Alone
  <2>2. QED
    BY <2>1, OtherResults
<1>3. QED
  BY <1>1, <1>2

\* A pin on a file that is in the map disturbs no reclaim.
LEMMA PinOnLive ==
  ASSUME Types, JobInv, NEW f \in live, live' = live, disk' = disk, job' = job,
         readers' = [readers EXCEPT ![f] = @ + 1]
  PROVE  JobInv' /\ readers' \in [Files -> Int]
<1>1. f \in Files /\ f \in disk /\ (job.pc # "idle" => job.file # f)
  BY DEF Types, JobInv
<1>2. QED
  BY <1>1 DEF Types, JobInv

\* A call begins.
Fresh(r) ==
  /\ Shaped(r) /\ r.pc \in {"clone", "index", "open"} /\ r.kind \in CallKinds
  /\ r.asked \subseteq Keys /\ r.todo = r.asked /\ r.found = {} /\ r.err = FALSE
  /\ r.index \in BOOLEAN /\ r.loaded \in BOOLEAN /\ (r.loaded => r.index)
  /\ r.pc = "clone" => r.kind = "get" /\ r.loaded = FALSE
  /\ r.pinned = (r.kind \in Pins /\ r.pc # "clone")

LEMMA BeginKeeps ==
  ASSUME CallsInv, NEW p \in Procs, NEW r, Begin(p, r), Fresh(r),
         readers' = IF r.pinned THEN [readers EXCEPT ![r.file] = @ + 1] ELSE readers
  PROVE  Keeps
<1>1. CallInv(p) /\ Types /\ PinsBalance /\ JobInv
  BY CallOf DEF CallsInv, PinInv
<1>2. /\ rd[p].pc = "idle" /\ r.file \in live
      /\ UNCHANGED <<disk, live, marked, job, mixed, errors, index, loaded>>
  BY DEF Begin
<1>3. Alone(p) /\ rd'[p] = r
  BY Replaced DEF Begin
<1>4. r.file \in Files /\ r.file # None /\ rd[p].pinned = FALSE /\ r.pinned \in BOOLEAN
  BY <1>1, <1>2 DEF Types, CallInv, CallTypes, Fresh
<1>5. PinsBalance' /\ JobInv' /\ readers' \in [Files -> Int]
  <2>1. CASE r.pinned
    <3>1. readers' = [readers EXCEPT ![r.file] = @ + 1]
      BY <2>1
    <3>2. PinsBalance'
      BY <1>1, <1>3, <1>4, <2>1, <3>1, PinTaken DEF Types, Alone
    <3>3. QED
      BY <1>1, <1>2, <3>1, <3>2, PinOnLive
  <2>2. CASE ~r.pinned
    <3>1. readers' = readers
      BY <2>2
    <3>2. PinsBalance'
      BY <1>1, <1>3, <1>4, <2>2, <3>1, PinsSame DEF Alone
    <3>3. QED
      BY <1>1, <1>2, <3>1, <3>2 DEF JobInv, Types
  <2>3. QED
    BY <2>1, <2>2
<1>6. Types'
  BY <1>1, <1>2, <1>3, <1>5 DEF Types, Alone
<1>7. CallInv(p)'
  <2>1. CallTypes(rd[p])'
    BY <1>3, <1>4 DEF CallTypes, Fresh, Steps
  <2>2. QED
    BY <1>3, <1>4, <2>1 DEF CallInv, Fresh
<1>8. HandleInv(p)'
  BY <1>2, <1>3 DEF HandleInv, Fresh
<1>9. CallsInv'
  BY <1>2, <1>3, <1>5, <1>6, <1>7, <1>8, OthersStay DEF CallsInv, PinInv
<1>10. ResultInv(p)'
  <2>1. There(p)' \subseteq r.todo
    BY <1>3 DEF There, Fresh
  <2>2. Covered(p)'
    BY <1>3, <2>1 DEF Covered
  <2>3. QED
    BY <1>3, <2>2 DEF ResultInv, Fresh
<1>11. ReadInv => ReadInv'
  BY <1>2, <1>3, <1>9, <1>10, OthersStay DEF ReadInv
<1>12. QED
  BY <1>9, <1>11 DEF Keeps

\* A call that has not begun.
LEMMA NoCallFields ==
  /\ CallTypes(NoCall) /\ NoCall.pc = "idle" /\ NoCall.kind = "get"
  /\ NoCall.file = None /\ NoCall.loaded = FALSE /\ NoCall.pinned = FALSE
  /\ NoCall.err = FALSE
<1>1. Shaped(NoCall)
  BY DEF NoCall, Shaped, CallFields
<1>2. /\ NoCall.pc = "idle" /\ NoCall.kind = "get"
      /\ NoCall.file = None /\ NoCall.asked = {} /\ NoCall.todo = {}
      /\ NoCall.index = FALSE /\ NoCall.loaded = FALSE /\ NoCall.pinned = FALSE
      /\ NoCall.err = FALSE
  BY DEF NoCall
<1>3. QED
  BY <1>1, <1>2 DEF CallTypes, Steps, CallKinds

LEMMA BeginGetKeeps ==
  ASSUME CallsInv, NEW p \in Procs, NEW f \in Files, NEW k \in Lookups,
         BeginGet(p, f, k)
  PROVE  Keeps
<1> DEFINE c == Call("get", f, {k})
           r == [c EXCEPT !.pc = "clone", !.index = f \in index]
<1>1. /\ Shaped(c) /\ c.kind = "get" /\ c.file = f /\ c.asked = {k}
      /\ c.todo = {k} /\ c.found = {} /\ c.err = FALSE
      /\ c.index = FALSE /\ c.loaded = FALSE /\ c.pinned = FALSE
  <2>1. Shaped(c)
    BY NoCallFields DEF Call, CallTypes, Shaped, CallFields
  <2>2. QED
    BY <2>1 DEF Call, NoCall
<1> HIDE DEF c
<1>2. /\ Shaped(r) /\ r.pc = "clone" /\ r.index = (f \in index)
  BY <1>1 DEF Shaped, CallFields
<1>3. /\ r.kind = c.kind /\ r.file = c.file /\ r.asked = c.asked
      /\ r.todo = c.todo /\ r.found = c.found /\ r.err = c.err
      /\ r.loaded = c.loaded /\ r.pinned = c.pinned
  BY <1>1 DEF Shaped, CallFields
<1>4. Begin(p, r) /\ readers' = readers
  BY DEF BeginGet, c
<1> HIDE DEF r
<1>5. Fresh(r) /\ r.pinned = FALSE
  <2>1. {k} \subseteq Keys
    OBVIOUS
  <2>2. r.index \in BOOLEAN
    BY <1>2
  <2>3. QED
    BY <1>1, <1>2, <1>3, <2>1, <2>2 DEF Fresh, CallKinds
<1>6. QED
  BY <1>4, <1>5, BeginKeeps

LEMMA BeginLiveKeeps ==
  ASSUME CallsInv, NEW p \in Procs, NEW kind \in {"sync", "warm", "scan"},
         NEW f \in Files, NEW keys \in SUBSET Keys, BeginLive(p, kind, f, keys)
  PROVE  Keeps
<1> DEFINE c == Call(kind, f, keys)
           s == IF kind = "scan" THEN "open" ELSE "index"
           r == [c EXCEPT !.pc = s, !.pinned = kind \in Pins]
<1>1. /\ Shaped(c) /\ c.kind = kind /\ c.file = f /\ c.asked = keys
      /\ c.todo = keys /\ c.found = {} /\ c.err = FALSE
      /\ c.index = FALSE /\ c.loaded = FALSE /\ c.pinned = FALSE
  <2>1. Shaped(c)
    BY NoCallFields DEF Call, CallTypes, Shaped, CallFields
  <2>2. QED
    BY <2>1 DEF Call, NoCall
<1> HIDE DEF c
<1>2. /\ Shaped(r) /\ r.pc = s /\ r.pinned = (kind \in Pins)
  BY <1>1 DEF Shaped, CallFields
<1>3. /\ r.kind = c.kind /\ r.file = c.file /\ r.asked = c.asked
      /\ r.todo = c.todo /\ r.found = c.found /\ r.err = c.err
      /\ r.loaded = c.loaded /\ r.index = c.index
  BY <1>1 DEF Shaped, CallFields
<1>4. Begin(p, r)
  BY DEF BeginLive, c
<1>5. readers' = IF r.pinned THEN [readers EXCEPT ![r.file] = @ + 1] ELSE readers
  BY <1>1, <1>2, <1>3 DEF BeginLive
<1> HIDE DEF r
<1>6. Fresh(r)
  <2>1. r.pc \in {"index", "open"} /\ r.kind \in CallKinds
    BY <1>1, <1>2, <1>3 DEF CallKinds
  <2>2. r.pinned = (r.kind \in Pins /\ r.pc # "clone")
    BY <1>1, <1>2, <1>3, <2>1
  <2>3. QED
    BY <1>1, <1>2, <1>3, <2>1, <2>2 DEF Fresh
<1>7. QED
  BY <1>4, <1>5, <1>6, BeginKeeps

LEMMA BeginAllKeeps ==
  ASSUME CallsInv, NEW p \in Procs, NEW f \in Files, BeginAll(p, f)
  PROVE  Keeps
<1> DEFINE c == Call("all", f, DOMAIN Table[f])
           s == IF f \in fd THEN "index" ELSE "open"
           r == [c EXCEPT !.pc = s, !.index = f \in index, !.loaded = f \in loaded]
<1>1. /\ Shaped(c) /\ c.kind = "all" /\ c.file = f /\ c.asked = DOMAIN Table[f]
      /\ c.todo = DOMAIN Table[f] /\ c.found = {} /\ c.err = FALSE
      /\ c.index = FALSE /\ c.loaded = FALSE /\ c.pinned = FALSE
  <2>1. Shaped(c)
    BY NoCallFields DEF Call, CallTypes, Shaped, CallFields
  <2>2. QED
    BY <2>1 DEF Call, NoCall
<1> HIDE DEF c
<1>2. /\ Shaped(r) /\ r.pc = s /\ r.index = (f \in index)
      /\ r.loaded = (f \in loaded)
  BY <1>1 DEF Shaped, CallFields
<1>3. /\ r.kind = c.kind /\ r.file = c.file /\ r.asked = c.asked
      /\ r.todo = c.todo /\ r.found = c.found /\ r.err = c.err
      /\ r.pinned = c.pinned
  BY <1>1 DEF Shaped, CallFields
<1>4. Begin(p, r) /\ readers' = readers
  BY DEF BeginAll, c
<1> HIDE DEF r
<1>5. Fresh(r) /\ r.pinned = FALSE
  <2>1. loaded \subseteq index
    BY DEF CallsInv, PinInv, Types
  <2>2. r.index \in BOOLEAN /\ r.loaded \in BOOLEAN
    BY <1>2
  <2>3. r.loaded => r.index
    BY <1>2, <2>1
  <2>4. DOMAIN Table[f] \subseteq Keys
    OBVIOUS
  <2>5. r.pinned = FALSE /\ r.kind = "all" /\ r.pc \in {"index", "open"}
    BY <1>1, <1>2, <1>3
  <2>6. r.pinned = (r.kind \in Pins /\ r.pc # "clone")
    BY <2>5 DEF Pins
  <2>7. QED
    BY <1>1, <1>2, <1>3, <2>2, <2>3, <2>4, <2>5, <2>6 DEF Fresh, CallKinds
<1>6. QED
  BY <1>4, <1>5, BeginKeeps

LEMMA BeginCallKeeps ==
  ASSUME CallsInv, NEW p \in Procs, BeginCall(p)
  PROVE  Keeps
<1>1. PICK f \in Files :
        \/ \E k \in Lookups : BeginGet(p, f, k) \/ BeginSync(p, f, k)
        \/ BeginWarm(p, f) \/ BeginScan(p, f) \/ BeginAll(p, f)
  BY DEF BeginCall
<1>2. ASSUME NEW k \in Lookups, BeginGet(p, f, k) PROVE Keeps
  BY <1>2, BeginGetKeeps
<1>3. ASSUME NEW k \in Lookups, BeginSync(p, f, k) PROVE Keeps
  <2>1. {k} \in SUBSET Keys
    OBVIOUS
  <2>2. QED
    BY <1>3, <2>1, BeginLiveKeeps DEF BeginSync
<1>4. CASE BeginWarm(p, f)
  BY <1>4, BeginLiveKeeps DEF BeginWarm
<1>5. CASE BeginScan(p, f)
  BY <1>5, BeginLiveKeeps DEF BeginScan
<1>6. CASE BeginAll(p, f)
  BY <1>6, BeginAllKeeps
<1>7. QED
  BY <1>1, <1>2, <1>3, <1>4, <1>5, <1>6

\* pin_sstable_clone takes the pin under the lock of the map.
LEMMA CloneFlagKeeps ==
  ASSUME CallsInv, NEW p \in Procs, CloneFlag(p)
  PROVE  Keeps
<1> DEFINE f == rd[p].file
           s == IF f \in fd THEN "index" ELSE "count"
<1>1. Shaped(rd[p]) /\ CallInv(p) /\ HandleInv(p) /\ Types /\ PinsBalance /\ JobInv
  BY CallOf DEF CallsInv, PinInv
<1>2. rd[p].pc = "clone"
  BY DEF CloneFlag
<1>3. f \in live /\ f \in Files /\ rd[p].pinned = FALSE /\ rd[p].kind = "get"
  BY <1>1, <1>2 DEF HandleInv, MapReader, Types, CallInv, CallTypes
<1>4. /\ rd' = [rd EXCEPT ![p].loaded = f \in loaded, ![p].pinned = TRUE,
                          ![p].pc = s]
      /\ readers' = [readers EXCEPT ![f] = @ + 1]
      /\ mixed' = (mixed \/ (f \in loaded /\ ~rd[p].index))
      /\ UNCHANGED <<disk, live, marked, job, errors, index, loaded>>
  BY DEF CloneFlag
<1>5. /\ Alone(p)
      /\ rd'[p] = [rd[p] EXCEPT !.loaded = f \in loaded, !.pinned = TRUE, !.pc = s]
  BY <1>1, <1>4 DEF Types, Alone
<1>6. /\ Shaped(rd'[p]) /\ rd'[p].pc = s /\ rd'[p].pinned = TRUE
      /\ rd'[p].loaded = (f \in loaded)
  BY <1>1, <1>5 DEF Shaped, CallFields
<1>7. /\ rd'[p].kind = rd[p].kind /\ rd'[p].file = f /\ rd'[p].asked = rd[p].asked
      /\ rd'[p].todo = rd[p].todo /\ rd'[p].found = rd[p].found
      /\ rd'[p].err = rd[p].err /\ rd'[p].index = rd[p].index
  BY <1>1, <1>5 DEF Shaped, CallFields
<1>8. JobInv' /\ readers' \in [Files -> Int]
  BY <1>1, <1>3, <1>4, PinOnLive
<1>9. PinsBalance'
  BY <1>1, <1>3, <1>4, <1>5, <1>6, <1>7, PinTaken DEF Types, Alone
<1>10. Types'
  BY <1>1, <1>4, <1>5, <1>8 DEF Types, Alone
<1>11. CallInv(p)'
  <2>1. CallTypes(rd[p])'
    <3>1. rd'[p].loaded \in BOOLEAN
      BY <1>6
    <3>2. QED
      BY <1>1, <1>6, <1>7, <3>1 DEF CallInv, CallTypes, Steps
  <2>2. s \in {"index", "count"} /\ rd[p].err = FALSE
    BY <1>1, <1>2 DEF CallInv, CallTypes
  <2>3. QED
    BY <1>3, <1>6, <1>7, <2>1, <2>2 DEF CallInv, Pins
<1>12. HandleInv(p)'
  <2>1. ~MapReader(p)'
    BY <1>3, <1>6, <1>7 DEF MapReader, Clones
  <2>2. ~mixed' /\ rd'[p].loaded => rd'[p].index
    BY <1>4, <1>6, <1>7
  <2>3. QED
    BY <1>6, <2>1, <2>2 DEF HandleInv
<1>13. CallsInv'
  BY <1>4, <1>5, <1>8, <1>9, <1>10, <1>11, <1>12, OthersStay DEF CallsInv, PinInv
<1>14. ASSUME ReadInv PROVE ReadInv'
  <2>1. ResultInv(p) /\ rd[p].pc # "idle" /\ (mixed => mixed')
    BY <1>2, <1>4, <1>14 DEF ReadInv
  <2>2. There(p)' = There(p) /\ Covered(p)' = Covered(p) /\ Excused(p)' = Excused(p)
    BY <1>4, <1>7 DEF There, Covered, Excused
  <2>3. ResultInv(p)'
    BY <1>4, <1>7, <2>1, <2>2 DEF ResultInv
  <2>4. QED
    BY <1>4, <1>5, <1>13, <1>14, <2>1, <2>3, OthersStay DEF ReadInv
<1>15. QED
  BY <1>13, <1>14 DEF Keeps

\* The pin is given back, after an error too.
LEMMA ReturnKeeps ==
  ASSUME CallsInv, NEW p \in Procs, Return(p)
  PROVE  Keeps
<1> DEFINE f == rd[p].file
<1>1. CallInv(p) /\ Types /\ PinsBalance /\ JobInv
  BY CallOf DEF CallsInv, PinInv
<1>2. /\ rd[p].pc = "done" /\ readers' = Unpin(p)
      /\ UNCHANGED <<disk, live, marked, job, mixed, errors, index, loaded>>
  BY DEF Return
<1>3. Alone(p) /\ rd'[p] = NoCall
  BY Replaced DEF Return
<1>4. rd'[p].pinned = FALSE /\ f \in Files /\ rd[p].pinned \in BOOLEAN
  BY <1>1, <1>2, <1>3 DEF CallInv, CallTypes, NoCall
<1>5. PinsBalance' /\ JobInv' /\ readers' \in [Files -> Int]
  <2>1. CASE rd[p].pinned
    <3>1. readers' = [readers EXCEPT ![f] = @ - 1]
      BY <1>2, <2>1 DEF Unpin
    <3>2. PinsBalance'
      BY <1>1, <1>3, <1>4, <2>1, <3>1, PinDropped DEF Types, Alone
    <3>3. readers[f] > 0
      BY <1>1, <1>4, <2>1, PinnedCounts
    <3>4. f \in disk /\ ~(job.pc = "remove" /\ job.file = f)
      BY <1>1, <1>4, <3>3 DEF JobInv, Types
    <3>5. JobInv'
      BY <1>1, <1>2, <1>4, <3>1, <3>4 DEF JobInv, Types
    <3>6. QED
      BY <1>1, <1>4, <3>1, <3>2, <3>5 DEF Types
  <2>2. CASE ~rd[p].pinned
    <3>1. readers' = readers
      BY <1>2, <2>2 DEF Unpin
    <3>2. PinsBalance'
      BY <1>1, <1>3, <1>4, <2>2, <3>1, PinsSame DEF Alone
    <3>3. QED
      BY <1>1, <1>2, <3>1, <3>2 DEF JobInv, Types
  <2>3. QED
    BY <2>1, <2>2
<1>6. Types'
  BY <1>1, <1>2, <1>3, <1>5 DEF Types, Alone
<1>7. CallInv(p)' /\ HandleInv(p)' /\ ResultInv(p)'
  <2>1. CallInv(p)'
    BY <1>3, NoCallFields DEF CallInv
  <2>2. HandleInv(p)'
    BY <1>3, NoCallFields DEF HandleInv, MapReader, Clones
  <2>3. ResultInv(p)'
    BY <1>3, NoCallFields DEF ResultInv
  <2>4. QED
    BY <2>1, <2>2, <2>3
<1>8. CallsInv'
  BY <1>2, <1>3, <1>5, <1>6, <1>7, OthersStay DEF CallsInv, PinInv
<1>9. ReadInv => ReadInv'
  BY <1>2, <1>3, <1>7, <1>8, OthersStay DEF ReadInv
<1>10. QED
  BY <1>8, <1>9 DEF Keeps

LEMMA ReadStepKeeps ==
  ASSUME CallsInv, NEW p \in Procs, ReadStep(p)
  PROVE  Keeps
  BY CloneFlagKeeps, CountKeeps, EvictKeeps, OpenKeeps, UseIndexKeeps,
     LockIndexKeeps, LoadKeeps, SetLoadedKeeps, LoadFailsKeeps, SkipKeeps,
     FromLastBlockKeeps, FromCacheKeeps, FromFileKeeps, ReadFailsKeeps,
     ReturnKeeps DEF ReadStep

-----------------------------------------------------------------------------
(* The compaction                                                          *)

\* A step that leaves the calls alone: no reader of the map loses its file.
LEMMA CallsStay ==
  ASSUME CallsInv, Types', JobInv', UNCHANGED <<rd, readers, mixed, errors>>,
         index' = index, marked \subseteq marked',
         live' = live \/ \A p \in Procs : ~MapReader(p)
  PROVE  Keeps
<1>1. PinsBalance'
  BY DEF CallsInv, PinInv, PinsBalance
<1>2. ASSUME NEW q \in Procs PROVE CallInv(q)' /\ HandleInv(q)'
  <2>1. CallInv(q) /\ HandleInv(q) /\ (MapReader(q) => rd[q].file \in live')
    BY DEF CallsInv, HandleInv
  <2>2. QED
    BY <2>1, OtherCalls
<1>3. ASSUME ReadInv, NEW q \in Procs PROVE ResultInv(q)'
  <2>1. ResultInv(q)
    BY <1>3 DEF ReadInv
  <2>2. QED
    BY <2>1, OtherResults
<1>4. QED
  BY <1>1, <1>2, <1>3 DEF Keeps, ReadInv, CallsInv, PinInv

LEMMA CompactionKeeps ==
  ASSUME CallsInv, (\E f \in Files : Install(f)) \/ Reclaim
  PROVE  Keeps
<1>1. Types /\ JobInv
  BY DEF CallsInv, PinInv
<1>2. ASSUME NEW f \in Files, Install(f) PROVE Keeps
  <2>1. Types'
    BY <1>1, <1>2 DEF Install, JobStep, Types
  <2>2. JobInv'
    BY <1>1, <1>2 DEF Install, JobStep, JobInv
  <2>3. QED
    BY <1>2, <2>1, <2>2, CallsStay DEF Install
<1>3. CASE Mark
  <2>1. Types'
    BY <1>1, <1>3 DEF Mark, JobStep, Types, JobInv
  <2>2. JobInv'
    BY <1>1, <1>3 DEF Mark, JobStep, JobInv
  <2>3. QED
    BY <1>3, <2>1, <2>2, CallsStay DEF Mark
<1>4. CASE Wait
  <2>1. Types'
    BY <1>1, <1>4 DEF Wait, JobStep, Types
  <2>2. JobInv'
    BY <1>1, <1>4 DEF Wait, JobStep, JobInv
  <2>3. QED
    BY <1>4, <2>1, <2>2, CallsStay DEF Wait
<1>5. CASE Close
  <2>1. Types'
    BY <1>1, <1>5 DEF Close, JobStep, Types
  <2>2. JobInv'
    BY <1>1, <1>5 DEF Close, JobStep, JobInv, CanDelete
  <2>3. QED
    BY <1>5, <2>1, <2>2, CallsStay DEF Close
<1>6. CASE RemoveFile
  <2>1. Types'
    BY <1>1, <1>6 DEF RemoveFile, JobStep, Types, JobInv
  <2>2. JobInv'
    BY <1>1, <1>6 DEF RemoveFile, JobStep, JobInv
  <2>3. QED
    BY <1>6, <2>1, <2>2, CallsStay DEF RemoveFile
<1>7. QED
  BY <1>2, <1>3, <1>4, <1>5, <1>6 DEF Reclaim

-----------------------------------------------------------------------------
(* The block cache                                                         *)

Sized(S, sizes) == IsFiniteSet(S) /\ \A b \in S : sizes[b] \in Nat

\* Finitely many blocks of finite sizes have finitely many bytes.
LEMMA BytesFinite ==
  ASSUME NEW S, NEW sizes, Sized(S, sizes)
  PROVE  IsFiniteSet(Bytes(S, sizes)) /\ Total(S, sizes) \in Nat
<1> DEFINE part == [b \in S |-> {b} \X (1..sizes[b])]
           parts == {{b} \X (1..sizes[b]) : b \in S}
<1>1. IsFiniteSet(parts)
  <2>1. part \in Surjection(S, parts)
    <3>1. part \in [S -> parts]
      OBVIOUS
    <3>2. \A x \in parts : \E b \in S : part[b] = x
      OBVIOUS
    <3>3. QED
      BY <3>1, <3>2, Fun_IsSurj
  <2>2. QED
    BY <2>1, FS_Surjection DEF Sized
<1>2. ASSUME NEW x \in parts PROVE IsFiniteSet(x)
  <2>1. PICK b \in S : x = {b} \X (1..sizes[b])
    OBVIOUS
  <2>2. IsFiniteSet({b})
    BY FS_Singleton
  <2>3. sizes[b] \in Int
    BY DEF Sized
  <2>4. IsFiniteSet(1..sizes[b])
    BY <2>3, FS_Interval
  <2>5. QED
    BY <2>1, <2>2, <2>4, FS_Product
<1>3. IsFiniteSet(Bytes(S, sizes))
  BY <1>1, <1>2, FS_UNION DEF Bytes
<1>4. QED
  BY <1>3, FS_CardinalityType DEF Total

\* Taking blocks out takes their bytes out.
LEMMA TotalWithout ==
  ASSUME NEW S, NEW sizes, Sized(S, sizes), NEW T \in SUBSET S
  PROVE  /\ Sized(S \ T, sizes) /\ Sized(T, sizes)
         /\ Total(S, sizes) = Total(S \ T, sizes) + Total(T, sizes)
<1>1. Sized(S \ T, sizes) /\ Sized(T, sizes)
  BY FS_Subset, FS_Difference DEF Sized
<1>2. /\ Bytes(S, sizes) = Bytes(S \ T, sizes) \cup Bytes(T, sizes)
      /\ Bytes(S \ T, sizes) \cap Bytes(T, sizes) = {}
  BY DEF Bytes
<1>3. /\ IsFiniteSet(Bytes(S \ T, sizes)) /\ Total(S \ T, sizes) \in Nat
      /\ IsFiniteSet(Bytes(T, sizes)) /\ Total(T, sizes) \in Nat
  BY <1>1, BytesFinite
<1>4. Cardinality(Bytes(S, sizes))
        = Cardinality(Bytes(S \ T, sizes)) + Cardinality(Bytes(T, sizes))
            - Cardinality({})
  BY <1>2, <1>3, FS_Union
<1>5. QED
  BY <1>1, <1>3, <1>4, FS_EmptySet DEF Total

\* A block that comes in adds its size, or nothing if it was there.
LEMMA TotalWith ==
  ASSUME NEW S, NEW sizes, Sized(S, sizes), NEW b, sizes[b] \in Nat
  PROVE  /\ Sized(S \cup {b}, sizes)
         /\ Total(S \cup {b}, sizes) <= Total(S, sizes) + sizes[b]
         /\ b \notin S => Total(S \cup {b}, sizes) = Total(S, sizes) + sizes[b]
<1>1. Sized(S \cup {b}, sizes) /\ Total(S, sizes) \in Nat
  BY FS_AddElement, BytesFinite DEF Sized
<1>2. CASE b \in S
  <2>1. S \cup {b} = S
    BY <1>2
  <2>2. Total(S \cup {b}, sizes) = Total(S, sizes)
    BY <2>1, Zenon
  <2>3. QED
    BY <1>1, <1>2, <2>2
<1>3. CASE b \notin S
  <2>1. (S \cup {b}) \ {b} = S /\ {b} \in SUBSET (S \cup {b})
    BY <1>3
  <2>2. Total(S \cup {b}, sizes) = Total(S, sizes) + Total({b}, sizes)
    BY <1>1, <2>1, TotalWithout
  <2>3. Total({b}, sizes) = sizes[b]
    <3>1. Bytes({b}, sizes) = {b} \X (1..sizes[b])
      BY DEF Bytes
    <3>2. IsFiniteSet({b}) /\ Cardinality({b}) = 1
      BY FS_Singleton
    <3>3. sizes[b] \in Nat /\ sizes[b] \in Int /\ 1 \in Int
      OBVIOUS
    <3>4. IsFiniteSet(1..sizes[b]) /\ Cardinality(1..sizes[b]) = sizes[b]
      <4>1. /\ IsFiniteSet(1..sizes[b])
            /\ Cardinality(1..sizes[b])
                 = IF 1 > sizes[b] THEN 0 ELSE sizes[b] - 1 + 1
        BY <3>3, FS_Interval
      <4>2. QED
        BY <3>3, <4>1
    <3>5. Cardinality({b} \X (1..sizes[b])) = 1 * sizes[b]
      BY <3>2, <3>4, FS_Product
    <3>6. Total({b}, sizes) = Cardinality({b} \X (1..sizes[b]))
      BY <3>1, Zenon DEF Total
    <3>7. QED
      BY <3>3, <3>5, <3>6
  <2>4. QED
    BY <1>1, <2>2, <2>3
<1>4. QED
  BY <1>2, <1>3

\* Every block of every file has a size.
LEMMA SizesAreNat == \A b \in Blocks : SizeOf[b] \in Nat
<1>1. SUFFICES ASSUME NEW b \in Blocks PROVE Total(Within(b), Table[b[1]]) \in Nat
  BY DEF SizeOf
<1>2. b[1] \in Files
  BY DEF Blocks
<1>3. Sized(Within(b), Table[b[1]])
  <2>1. Within(b) \in SUBSET DOMAIN Table[b[1]]
    BY DEF Within, BlockKeys
  <2>2. IsFiniteSet(Within(b))
    BY <1>2, <2>1, FS_Subset
  <2>3. QED
    BY <1>2, <2>1, <2>2 DEF Sized
<1>4. QED
  BY <1>3, BytesFinite

\* The cache as its operations keep it: what is cached is in access_order, and
\* current_size covers it.
CacheTypes(c) ==
  /\ c = [blocks |-> c.blocks, order |-> c.order, size |-> c.size]
  /\ c.order \in Seq(Blocks) /\ c.size \in Nat
CacheInv(c) == CacheTypes(c) /\ CacheConsistent(c, SizeOf)

\* What is cached is finite, and each block of it has a size.
LEMMA CachedSized ==
  ASSUME NEW c, CacheInv(c)
  PROVE  /\ c.blocks \subseteq Blocks /\ Sized(c.blocks, SizeOf)
         /\ Total(c.blocks, SizeOf) \in Nat
<1>1. c.order \in [1..Len(c.order) -> Range(c.order)] /\ Len(c.order) \in Nat
  BY DEF CacheInv, CacheTypes, Range
<1>2. c.order \in Surjection(1..Len(c.order), Range(c.order))
  <2>1. \A x \in Range(c.order) : \E i \in 1..Len(c.order) : c.order[i] = x
    BY DEF CacheInv, CacheTypes, Range
  <2>2. QED
    BY <1>1, <2>1, Fun_IsSurj
<1>3. IsFiniteSet(Range(c.order))
  BY <1>1, <1>2, FS_Interval, FS_Surjection
<1>4. Range(c.order) \subseteq Blocks
  BY DEF CacheInv, CacheTypes, Range
<1>5. IsFiniteSet(c.blocks) /\ c.blocks \subseteq Blocks
  BY <1>3, <1>4, FS_Subset DEF CacheInv, CacheConsistent
<1>6. QED
  BY <1>5, SizesAreNat, BytesFinite DEF Sized

\* The first occurrence of an element is removed, the others stay.
LEMMA FirstRemoved ==
  ASSUME NEW S, NEW s \in Seq(S), NEW e
  PROVE  /\ RemoveFirst(s, e) \in Seq(S)
         /\ \A x \in Range(s) : x # e => x \in Range(RemoveFirst(s, e))
<1>1. CASE ~\E i \in 1..Len(s) : s[i] = e
  BY <1>1 DEF RemoveFirst
<1>2. CASE \E i \in 1..Len(s) : s[i] = e
  <2> DEFINE I == {i \in 1..Len(s) : s[i] = e}
             m == Min(I)
             a == SubSeq(s, 1, m - 1)
             z == SubSeq(s, m + 1, Len(s))
  <2>1. I \in SUBSET Nat /\ I # {}
    BY <1>2
  <2>2. m \in I
    <3> HIDE DEF I
    <3>1. QED
      BY <2>1, MinNat
  <2>3. m \in 1..Len(s) /\ s[m] = e /\ Len(s) \in Nat
    BY <2>2
  <2>4. RemoveFirst(s, e) = a \o z
    BY <1>2, <2>1 DEF RemoveFirst, RemoveAt, SelectInSeq
  <2> HIDE DEF m
  <2>5. /\ a \in Seq(S) /\ Len(a) = m - 1
        /\ \A i \in 1..(m - 1) : a[i] = s[i]
    BY <2>3
  <2>6. /\ z \in Seq(S) /\ Len(z) = Len(s) - m
        /\ \A i \in 1..(Len(s) - m) : z[i] = s[i + m]
    BY <2>3
  <2> HIDE DEF a, z
  <2>7. a \o z \in Seq(S) /\ Len(a \o z) = Len(s) - 1
    <3>1. a \o z \in Seq(S) /\ Len(a \o z) = Len(a) + Len(z)
      BY <2>5, <2>6, ConcatProperties
    <3>2. QED
      BY <2>3, <2>5, <2>6, <3>1
  <2>8. ASSUME NEW x \in Range(s), x # e PROVE x \in Range(a \o z)
    <3>1. PICK i \in 1..Len(s) : s[i] = x
      BY DEF Range
    <3>2. i # m
      BY <2>3, <2>8, <3>1
    <3>3. CASE i < m
      <4>1. i \in 1..Len(a) /\ a[i] = x
        BY <2>3, <2>5, <3>1, <3>3
      <4>2. (a \o z)[i] = x /\ i \in 1..Len(a \o z)
        BY <2>3, <2>5, <2>6, <2>7, <4>1
      <4>3. QED
        BY <2>7, <4>2 DEF Range
    <3>4. CASE i > m
      <4>1. i - m \in 1..Len(z) /\ z[i - m] = x
        BY <2>3, <2>6, <3>1, <3>4
      <4>2. (a \o z)[i - 1] = x /\ i - 1 \in 1..Len(a \o z)
        BY <2>3, <2>5, <2>6, <2>7, <3>4, <4>1
      <4>3. QED
        BY <2>7, <4>2 DEF Range
    <3>5. QED
      BY <2>3, <3>2, <3>3, <3>4
  <2>9. QED
    BY <2>4, <2>7, <2>8
<1>3. QED
  BY <1>1, <1>2

\* An element is put at the end, the others stay.
LEMMA LastAdded ==
  ASSUME NEW S, NEW s \in Seq(S), NEW e \in S
  PROVE  /\ Append(s, e) \in Seq(S)
         /\ \A x \in Range(s) \cup {e} : x \in Range(Append(s, e))
<1>1. /\ Append(s, e) \in Seq(S) /\ Len(Append(s, e)) = Len(s) + 1
      /\ DOMAIN Append(s, e) = 1..(Len(s) + 1) /\ Len(s) \in Nat
      /\ \A i \in 1..Len(s) : Append(s, e)[i] = s[i]
      /\ Append(s, e)[Len(s) + 1] = e
  OBVIOUS
<1>2. ASSUME NEW x \in Range(s) PROVE x \in Range(Append(s, e))
  <2>1. PICK i \in 1..Len(s) : s[i] = x
    BY DEF Range
  <2>2. i \in DOMAIN Append(s, e) /\ Append(s, e)[i] = x
    BY <1>1, <2>1
  <2>3. QED
    BY <2>2 DEF Range
<1>3. Len(s) + 1 \in DOMAIN Append(s, e)
  BY <1>1
<1>4. e \in Range(Append(s, e))
  BY <1>1, <1>3 DEF Range
<1>5. QED
  BY <1>1, <1>2, <1>4

\* A hit moves its key.
LEMMA TouchKeeps ==
  ASSUME NEW c, CacheInv(c), NEW b \in c.blocks
  PROVE  CacheInv(Touch(c, b))
<1> DEFINE r == RemoveFirst(c.order, b)
<1>1. /\ c.order \in Seq(Blocks) /\ c.size \in Nat /\ b \in Blocks
      /\ c = [blocks |-> c.blocks, order |-> c.order, size |-> c.size]
      /\ c.blocks \subseteq Range(c.order) /\ c.size >= Total(c.blocks, SizeOf)
  BY CachedSized DEF CacheInv, CacheTypes, CacheConsistent
<1>2. r \in Seq(Blocks) /\ \A x \in c.blocks : x # b => x \in Range(r)
  BY <1>1, FirstRemoved
<1> HIDE DEF r
<1>3. /\ Append(r, b) \in Seq(Blocks)
      /\ \A x \in Range(r) \cup {b} : x \in Range(Append(r, b))
  BY <1>1, <1>2, LastAdded
<1>4. Touch(c, b) = [blocks |-> c.blocks, order |-> Append(r, b), size |-> c.size]
  <2>1. Touch(c, b) = [c EXCEPT !.order = Append(r, b)]
    BY Zenon DEF Touch, r
  <2>2. QED
    BY <1>1, <2>1
<1>5. QED
  BY <1>1, <1>2, <1>3, <1>4 DEF CacheInv, CacheTypes, CacheConsistent

\* An eviction subtracts no more than has been added.
LEMMA LruKeeps ==
  ASSUME NEW c, CacheInv(c), NEW n \in 0..Len(c.order)
  PROVE  CacheInv(EvictLru(c, n, SizeOf))
<1> DEFINE a == SubSeq(c.order, 1, n)
           z == SubSeq(c.order, n + 1, Len(c.order))
           gone == c.blocks \cap Range(a)
<1>1. /\ c.order \in Seq(Blocks) /\ c.size \in Nat /\ Len(c.order) \in Nat
      /\ c.blocks \subseteq Range(c.order) /\ c.size >= Total(c.blocks, SizeOf)
  BY DEF CacheInv, CacheTypes, CacheConsistent
<1>2. z \in Seq(Blocks) /\ c.blocks \ gone \subseteq Range(z)
  <2>1. /\ a \in Seq(Blocks) /\ Len(a) = n /\ \A i \in 1..n : a[i] = c.order[i]
        /\ z \in Seq(Blocks) /\ Len(z) = Len(c.order) - n
        /\ \A i \in 1..(Len(c.order) - n) : z[i] = c.order[i + n]
    BY <1>1
  <2>2. ASSUME NEW x \in c.blocks, x \notin Range(a) PROVE x \in Range(z)
    <3>1. PICK i \in 1..Len(c.order) : c.order[i] = x
      BY <1>1 DEF Range
    <3>2. i > n
      <4>1. SUFFICES ASSUME i <= n PROVE FALSE
        BY <1>1, <3>1
      <4>2. i \in DOMAIN a /\ a[i] = x
        BY <1>1, <2>1, <3>1, <4>1
      <4>3. QED
        BY <2>2, <4>2 DEF Range
    <3>3. i - n \in DOMAIN z /\ z[i - n] = x
      BY <1>1, <2>1, <3>1, <3>2
    <3>4. QED
      BY <3>3 DEF Range
  <2>3. QED
    BY <2>1, <2>2
<1>3. /\ Total(c.blocks, SizeOf) = Total(c.blocks \ gone, SizeOf) + Total(gone, SizeOf)
      /\ Total(c.blocks \ gone, SizeOf) \in Nat /\ Total(gone, SizeOf) \in Nat
  BY CachedSized, TotalWithout, BytesFinite
<1>4. c.size - Total(gone, SizeOf) \in Nat
      /\ c.size - Total(gone, SizeOf) >= Total(c.blocks \ gone, SizeOf)
  BY <1>1, <1>3
<1>5. EvictLru(c, n, SizeOf)
        = [blocks |-> c.blocks \ gone, order |-> z, size |-> c.size - Total(gone, SizeOf)]
  BY DEF EvictLru
<1> HIDE DEF a, z, gone
<1>6. QED
  BY <1>2, <1>4, <1>5 DEF CacheInv, CacheTypes, CacheConsistent

\* The loop of put ends: with all of access_order evicted nothing is cached.
LEMMA EvictionEnds ==
  ASSUME NEW c, CacheInv(c)
  PROVE  EvictLru(c, Len(c.order), SizeOf).blocks = {}
<1>1. c.order \in Seq(Blocks) /\ c.blocks \subseteq Range(c.order)
  BY DEF CacheInv, CacheTypes, CacheConsistent
<1>2. SubSeq(c.order, 1, Len(c.order)) = c.order
  BY <1>1
<1>3. QED
  BY <1>1, <1>2 DEF EvictLru

\* A block is put into what the eviction leaves.
LEMMA PutKeeps ==
  ASSUME NEW c, CacheInv(c), NEW b \in Blocks
  PROVE  CacheInv(Put(c, b, SizeOf))
<1> DEFINE evict == {n \in 0..Len(c.order) :
                       LET d == EvictLru(c, n, SizeOf)
                       IN  d.blocks = {} \/ d.size + SizeOf[b] <= CacheMax}
           d == EvictLru(c, Min(evict), SizeOf)
<1>1. Len(c.order) \in evict /\ evict \in SUBSET Nat
  <2>1. EvictLru(c, Len(c.order), SizeOf).blocks = {} /\ Len(c.order) \in Nat
    <3>1. Len(c.order) \in Nat
      BY DEF CacheInv, CacheTypes
    <3>2. EvictLru(c, Len(c.order), SizeOf).blocks = {}
      BY EvictionEnds, Zenon
    <3>3. QED
      BY <3>1, <3>2
  <2>2. QED
    BY <2>1
<1>2. Min(evict) \in 0..Len(c.order)
  <2>1. Min(evict) \in evict
    <3> HIDE DEF evict
    <3>1. QED
      BY <1>1, MinNat
  <2>2. QED
    BY <2>1
<1>3. CacheInv(d)
  BY <1>2, LruKeeps
<1>4. Put(c, b, SizeOf) = [blocks |-> d.blocks \cup {b}, order |-> Append(d.order, b),
                           size |-> d.size + SizeOf[b]]
  <2>1. evict # {}
    BY <1>1
  <2>2. QED
    BY <2>1 DEF Put
<1> HIDE DEF d
<1>5. /\ d.order \in Seq(Blocks) /\ d.size \in Nat /\ d.blocks \subseteq Range(d.order)
      /\ d.size >= Total(d.blocks, SizeOf) /\ Total(d.blocks, SizeOf) \in Nat
      /\ SizeOf[b] \in Nat
  BY <1>3, SizesAreNat, CachedSized DEF CacheInv, CacheTypes, CacheConsistent
<1>6. /\ Append(d.order, b) \in Seq(Blocks)
      /\ d.blocks \cup {b} \subseteq Range(Append(d.order, b))
  BY <1>5, LastAdded
<1>7. /\ Total(d.blocks \cup {b}, SizeOf) <= Total(d.blocks, SizeOf) + SizeOf[b]
      /\ Total(d.blocks \cup {b}, SizeOf) \in Nat
  BY <1>3, <1>5, CachedSized, TotalWith, BytesFinite
<1>8. /\ d.size + SizeOf[b] >= Total(d.blocks \cup {b}, SizeOf)
      /\ d.size + SizeOf[b] \in Nat
  BY <1>5, <1>7
<1>9. QED
  BY <1>4, <1>6, <1>8 DEF CacheInv, CacheTypes, CacheConsistent

\* The block that a call reads is one of its file.
LEMMA BlockIsThere ==
  ASSUME CallsInv, NEW p \in Procs, rd[p].pc = "read"
  PROVE  BlockKey(p) \in Blocks
<1>1. /\ CallInv(p) /\ CallTypes(rd[p]) /\ InIndex(p)
  BY CallOf DEF CallInv
<1>2. rd[p].file \in Files /\ rd[p].todo # {} /\ rd[p].todo \subseteq Keys
  BY <1>1 DEF CallInv, CallTypes
<1>3. Min(rd[p].todo) \in Keys
  BY <1>2, MinNat
<1>4. Hit(p) # {} /\ Hit(p) \subseteq IndexGet(Index[rd[p].file], Min(rd[p].todo))
  BY <1>1, <1>2, <1>3 DEF InIndex, Hit, Hits
<1>5. Hit(p) \subseteq Range(Index[rd[p].file])
  BY <1>4 DEF IndexGet, Range
<1>6. PICK r \in Hit(p) : Place(p) = r.at
  BY <1>4 DEF Place
<1>7. QED
  BY <1>2, <1>5, <1>6 DEF BlockKey, Blocks

\* Only a hit and the put after a read change the cache.
LEMMA CacheKept ==
  ASSUME CallsInv, CacheInv(cache), [Next]_vars
  PROVE  CacheInv(cache)'
<1>1. ASSUME NEW p \in Procs, FromCache(p) PROVE CacheInv(cache')
  <2>1. cache' = cache \/ (cache' = Touch(cache, BlockKey(p)) /\ BlockKey(p) \in cache.blocks)
    BY <1>1 DEF FromCache, Cached
  <2>2. QED
    BY <2>1, TouchKeeps
<1>2. ASSUME NEW p \in Procs, FromFile(p) PROVE CacheInv(cache')
  <2>1. cache' = cache \/ cache' = Put(cache, BlockKey(p), SizeOf)
    BY <1>2 DEF FromFile
  <2>2. BlockKey(p) \in Blocks
    BY <1>2, BlockIsThere DEF FromFile
  <2>3. QED
    BY <2>1, <2>2, PutKeeps
<1>3. ASSUME NEW p \in Procs, BeginCall(p) PROVE cache' = cache
  BY <1>3 DEF BeginCall, BeginGet, BeginSync, BeginWarm, BeginScan, BeginAll, Begin,
     BeginLive
<1>4. ASSUME NEW p \in Procs, ReadStep(p), ~FromCache(p), ~FromFile(p)
      PROVE  cache' = cache
  BY <1>4 DEF ReadStep, CloneFlag, Count, Evict, Open, UseIndex, LockIndex, Load,
     SetLoaded, LoadFails, Skip, FromLastBlock, ReadFails, Return
<1>5. ASSUME (\E f \in Files : Install(f)) \/ Reclaim PROVE cache' = cache
  BY <1>5 DEF Install, Reclaim, Mark, Wait, Close, RemoveFile
<1>6. CASE UNCHANGED vars
  BY <1>6 DEF vars
<1>7. CacheInv(cache')
  BY <1>1, <1>2, <1>3, <1>4, <1>5, <1>6 DEF Next
<1>8. QED
  BY <1>7 DEF CacheInv, CacheTypes, CacheConsistent

-----------------------------------------------------------------------------
(* The format: what write_entries puts into a file is found again.         *)

Well(t) ==
  /\ DOMAIN t \subseteq Nat /\ DOMAIN t # {} /\ IsFiniteSet(DOMAIN t)
  /\ t \in [DOMAIN t -> Nat \ {0}]
NumKeys(t) == Cardinality(DOMAIN t)

\* KeySeq lists every key once, in order.
LEMMA KeySeqFacts ==
  ASSUME NEW t, Well(t)
  PROVE  /\ NumKeys(t) \in Nat
         /\ KeySeq(t) \in [1..NumKeys(t) -> DOMAIN t]
         /\ \A x \in DOMAIN t : \E n \in 1..NumKeys(t) : KeySeq(t)[n] = x
         /\ \A m, n \in 1..NumKeys(t) : m < n => KeySeq(t)[m] < KeySeq(t)[n]
<1> DEFINE S == DOMAIN t
           R == {p \in S \X S : p[1] < p[2]}
           c == Cardinality(S)
           a == KeySeq(t)
           rank == [x \in S |-> Cardinality({y \in S : y < x})]
<1>0. S \subseteq Nat /\ IsFiniteSet(S)
  BY DEF Well
<1>1. c \in Nat
  BY <1>0, FS_CardinalityType
<1>2. \A x, y \in S : <<x, y>> \in R <=> x < y
  OBVIOUS
<1>3. \A x \in S : rank[x] = Cardinality(Below(R, S, x))
  BY DEF Below
<1>4. \A n \in 1..c : a[n] = CHOOSE x \in S : rank[x] = n - 1
  BY DEF KeySeq
<1>5. a = [n \in 1..c |-> a[n]]
  <2> DEFINE e(n) == CHOOSE x \in S : Cardinality({y \in S : y < x}) = n - 1
  <2>1. a = [n \in 1..c |-> e(n)]
    BY DEF KeySeq
  <2> HIDE DEF e, a
  <2>2. QED
    BY <2>1
<1> HIDE DEF S, R, a, c, rank
<1>6. StrictOrder(R, S)
  BY <1>0, <1>2 DEF StrictOrder
<1>7. \A x, y \in S : <<x, y>> \in R =>
        Cardinality(Below(R, S, x)) < Cardinality(Below(R, S, y))
  BY <1>0, <1>6, Ranking
<1>8. \A x \in S : rank[x] \in 0..c - 1
  BY <1>0, <1>3, <1>6, Ranking DEF c
<1>9. ASSUME NEW x \in S, NEW y \in S PROVE x < y <=> rank[x] < rank[y]
  <2>1. rank[x] \in Int /\ rank[y] \in Int /\ x \in Int /\ y \in Int
    BY <1>0, <1>8
  <2>2. ASSUME x < y PROVE rank[x] < rank[y]
    <3>1. <<x, y>> \in R
      BY <1>2, <2>2
    <3>2. QED
      BY <1>3, <1>7, <3>1
  <2>3. ASSUME y < x PROVE rank[y] < rank[x]
    <3>1. <<y, x>> \in R
      BY <1>2, <2>3
    <3>2. QED
      BY <1>3, <1>7, <3>1
  <2>4. CASE x = y
    BY <2>1, <2>4
  <2>5. QED
    BY <2>1, <2>2, <2>3, <2>4
<1>10. \A m \in 0..c - 1 : \E x \in S : rank[x] = m
  <2>1. RanksTaken(R, S)
    BY <1>0, <1>6, RankTaken
  <2>2. \A m \in 0..c - 1 : \E x \in S : Cardinality(Below(R, S, x)) = m
    BY <2>1 DEF RanksTaken, c
  <2>3. QED
    BY <1>3, <2>2
<1>11. ASSUME NEW n \in 1..c PROVE a[n] \in S /\ rank[a[n]] = n - 1
  <2>1. n - 1 \in 0..c - 1
    BY <1>1
  <2>2. \E x \in S : rank[x] = n - 1
    BY <1>10, <2>1
  <2>3. QED
    BY <1>4, <2>2
<1>12. a \in [1..c -> S]
  BY <1>5, <1>11
<1>13. ASSUME NEW x \in S PROVE \E n \in 1..c : a[n] = x
  <2>1. rank[x] \in Int /\ rank[x] + 1 \in 1..c
    BY <1>1, <1>8
  <2>2. PICK n \in 1..c : n = rank[x] + 1
    BY <2>1
  <2>3. a[n] \in S /\ rank[a[n]] = rank[x]
    BY <1>11, <2>1, <2>2
  <2>4. ~(a[n] < x) /\ ~(x < a[n])
    <3>1. ~(rank[a[n]] < rank[x]) /\ ~(rank[x] < rank[a[n]])
      BY <2>1, <2>3
    <3>2. QED
      BY <1>9, <2>3, <3>1
  <2>5. a[n] \in Nat /\ x \in Nat
    BY <1>0, <2>3
  <2>6. QED
    BY <2>4, <2>5
<1>14. ASSUME NEW m \in 1..c, NEW n \in 1..c, m < n PROVE a[m] < a[n]
  <2>1. a[m] \in S /\ rank[a[m]] = m - 1 /\ a[n] \in S /\ rank[a[n]] = n - 1
    BY <1>11
  <2>2. rank[a[m]] < rank[a[n]]
    BY <1>14, <2>1
  <2>3. QED
    BY <1>9, <2>1, <2>2
<1>15. QED
  BY <1>1, <1>12, <1>13, <1>14 DEF a, c, S, NumKeys

\* What holds for zero and goes on from each number to the next holds up to any
\* limit: of the numbers at which it fails there would be a least one.
LEMMA UpTo ==
  ASSUME NEW c \in Nat, NEW P \in SUBSET Nat, 0 \in P,
         \A m \in Nat : m < c /\ m \in P => m + 1 \in P
  PROVE  \A m \in 0..c : m \in P
<1> DEFINE F == {m \in 0..c : m \notin P}
<1>1. SUFFICES ASSUME F # {} PROVE FALSE
  OBVIOUS
<1>2. F \in SUBSET Nat
  OBVIOUS
<1>3. PICK m \in F : \A j \in F : m <= j
  <2> HIDE DEF F
  <2>1. QED
    BY <1>1, <1>2, LeastNat
<1>4. m \in Nat /\ m # 0 /\ m <= c
  OBVIOUS
<1>5. m - 1 \in Nat /\ m - 1 < c /\ m - 1 \notin F
  BY <1>3, <1>4
<1>6. QED
  BY <1>4, <1>5

\* The place of the n-th key, from that of the key before it.
NextPlace(g, n, t, target) ==
  IF n = 1 THEN [block |-> 1, off |-> 0]
  ELSE IF g[n - 1].off + t[KeySeq(t)[n - 1]] >= target
       THEN [block |-> g[n - 1].block + 1, off |-> 0]
       ELSE [block |-> g[n - 1].block,
             off |-> g[n - 1].off + t[KeySeq(t)[n - 1]]]

\* The places are those that this gives.
LEMMA PlacesExist ==
  ASSUME NEW t, NEW target, Well(t)
  PROVE  Places(t, target)
           = [n \in 1..NumKeys(t) |-> NextPlace(Places(t, target), n, t, target)]
<1> DEFINE c == NumKeys(t)
           Upto(m, g) == g = [n \in 1..m |-> NextPlace(g, n, t, target)]
           P == {m \in Nat : \E g : Upto(m, g)}
<1>1. c \in Nat
  BY KeySeqFacts
<1>2. 0 \in P
  <2> DEFINE g == [n \in 1..0 |-> 0]
  <2>1. g = [n \in 1..0 |-> NextPlace(g, n, t, target)]
    OBVIOUS
  <2>2. QED
    BY <2>1
<1>3. ASSUME NEW m \in Nat, m \in P PROVE m + 1 \in P
  <2>1. PICK g : Upto(m, g)
    BY <1>3
  <2> DEFINE h == [n \in 1..(m + 1) |-> IF n = m + 1 THEN NextPlace(g, n, t, target)
                                         ELSE g[n]]
  <2>2. ASSUME NEW n \in 1..(m + 1)
        PROVE  h[n] = NextPlace(h, n, t, target)
    <3>1. NextPlace(h, n, t, target) = NextPlace(g, n, t, target)
      <4>1. n # 1 => h[n - 1] = g[n - 1]
        OBVIOUS
      <4>2. QED
        BY <4>1 DEF NextPlace
    <3>2. n # m + 1 => g[n] = NextPlace(g, n, t, target)
      <4>1. n # m + 1 => n \in 1..m
        OBVIOUS
      <4>2. QED
        BY <2>1, <4>1
    <3>3. QED
      BY <3>1, <3>2
  <2>3. h = [n \in 1..(m + 1) |-> NextPlace(h, n, t, target)]
    <3>1. h = [n \in 1..(m + 1) |-> h[n]]
      OBVIOUS
    <3> HIDE DEF h
    <3>2. QED
      BY <2>2, <3>1
  <2>4. \E k : Upto(m + 1, k)
    <3> HIDE DEF h
    <3>1. QED
      BY <2>3
  <2>5. QED
    BY <2>4
<1>4. c \in P
  <2>1. P \in SUBSET Nat
    OBVIOUS
  <2>2. \A m \in Nat : m < c /\ m \in P => m + 1 \in P
    BY <1>3
  <2> HIDE DEF P
  <2>3. QED
    BY <1>1, <1>2, <2>1, <2>2, UpTo
<1>5. \E g : Upto(c, g)
  BY <1>4
<1>6. Places(t, target) = CHOOSE g : Upto(c, g)
  BY DEF Places, NextPlace, NumKeys
<1>7. QED
  BY <1>5, <1>6

\* Keys stand in the sequence as they are ordered.
LEMMA KeyOrder ==
  ASSUME NEW t, Well(t), NEW m \in 1..NumKeys(t), NEW n \in 1..NumKeys(t)
  PROVE  /\ KeySeq(t)[m] \in Nat /\ KeySeq(t)[m] \in DOMAIN t
         /\ KeySeq(t)[m] < KeySeq(t)[n] <=> m < n
         /\ KeySeq(t)[m] = KeySeq(t)[n] <=> m = n
<1> DEFINE K == KeySeq(t)
<1>1. K[m] \in DOMAIN t /\ K[n] \in DOMAIN t
  BY KeySeqFacts
<1>2. K[m] \in Nat /\ K[n] \in Nat /\ m \in Int /\ n \in Int
  BY <1>1 DEF Well
<1>3. (m < n => K[m] < K[n]) /\ (n < m => K[n] < K[m])
  BY KeySeqFacts
<1> HIDE DEF K
<1>4. QED
  BY <1>1, <1>2, <1>3 DEF K

\* The first key is at the start of the first block; each other one is at the
\* start of a new block or after the key before it.
LEMMA PlaceSteps ==
  ASSUME NEW t, NEW target, Well(t)
  PROVE  /\ Places(t, target)[1] = [block |-> 1, off |-> 0]
         /\ \A n \in 1..NumKeys(t) : n + 1 \in 1..NumKeys(t) =>
              \/ Places(t, target)[n + 1] =
                   [block |-> Places(t, target)[n].block + 1, off |-> 0]
              \/ Places(t, target)[n + 1] =
                   [block |-> Places(t, target)[n].block,
                    off |-> Places(t, target)[n].off + t[KeySeq(t)[n]]]
<1> DEFINE P == Places(t, target)
           c == NumKeys(t)
<1>1. c \in Nat /\ c # 0
  <2>1. c \in Nat
    BY KeySeqFacts
  <2>2. QED
    BY <2>1, FS_EmptySet DEF Well, NumKeys
<1>2. P = [n \in 1..c |-> NextPlace(P, n, t, target)]
  BY PlacesExist
<1> HIDE DEF P, c
<1>3. \A n \in 1..c : P[n] = NextPlace(P, n, t, target)
  BY <1>2
<1>4. P[1] = [block |-> 1, off |-> 0]
  <2>1. 1 \in 1..c
    BY <1>1
  <2>2. P[1] = NextPlace(P, 1, t, target)
    BY <1>3, <2>1
  <2>3. QED
    BY <2>2 DEF NextPlace
<1>5. ASSUME NEW n \in 1..c, n + 1 \in 1..c
      PROVE  \/ P[n + 1] = [block |-> P[n].block + 1, off |-> 0]
             \/ P[n + 1] = [block |-> P[n].block, off |-> P[n].off + t[KeySeq(t)[n]]]
  <2>1. P[n + 1] = NextPlace(P, n + 1, t, target)
    BY <1>3, <1>5
  <2>2. n + 1 # 1 /\ (n + 1) - 1 = n
    BY <1>1
  <2>3. QED
    BY <2>1, <2>2 DEF NextPlace
<1>6. QED
  BY <1>4, <1>5 DEF P, c

\* The keys that are before k in its block.
Before(t, target, b, k) == {j \in BlockKeys(t, target, b) : j < k}

\* Blocks are filled one after the other, and an entry is where those before it
\* in its block end.
PlaceInv(t, target, n) ==
  LET P == Places(t, target) IN
  /\ P[n].block \in Nat /\ P[n].off \in Nat
  /\ \A m \in 1..n : P[m].block \in Nat /\ P[m].block <= P[n].block
  /\ P[n].off = Total(Before(t, target, P[n].block, KeySeq(t)[n]), t)

\* Keys of a table are sized.
LEMMA KeysSized ==
  ASSUME NEW t, Well(t), NEW S \in SUBSET DOMAIN t
  PROVE  Sized(S, t) /\ Total(S, t) \in Nat
<1>1. Sized(S, t)
  BY FS_Subset DEF Sized, Well
<1>2. QED
  BY <1>1, BytesFinite

LEMMA NoneTotal == ASSUME NEW t PROVE Total({}, t) = 0
<1>1. Bytes({}, t) = {}
  BY DEF Bytes
<1>2. QED
  BY <1>1, FS_EmptySet DEF Total

LEMMA FirstPlace ==
  ASSUME NEW t, NEW target, Well(t), 1 \in 1..NumKeys(t)
  PROVE  PlaceInv(t, target, 1)
<1> DEFINE P == Places(t, target)
           K == KeySeq(t)
<1>1. P[1] = [block |-> 1, off |-> 0]
  BY PlaceSteps
<1>2. Before(t, target, 1, K[1]) = {}
  <2>1. SUFFICES ASSUME NEW i \in 1..NumKeys(t), K[i] < K[1] PROVE FALSE
    BY DEF Before, BlockKeys, NumKeys
  <2>2. i < 1 /\ i \in 1..NumKeys(t)
    BY <2>1, KeyOrder
  <2>3. QED
    BY <2>2, KeySeqFacts
<1>3. Total(Before(t, target, 1, K[1]), t) = 0
  BY <1>2, NoneTotal
<1>4. P[1].block = 1 /\ P[1].off = 0
  BY <1>1
<1>5. \A m \in 1..1 : P[m].block \in Nat /\ P[m].block <= P[1].block
  <2>1. \A m \in 1..1 : m = 1
    OBVIOUS
  <2>2. QED
    BY <1>4, <2>1
<1> HIDE DEF P, K
<1>6. QED
  BY <1>3, <1>4, <1>5 DEF PlaceInv, P, K

LEMMA LaterPlace ==
  ASSUME NEW t, NEW target, Well(t), NEW n \in 1..NumKeys(t),
         n + 1 \in 1..NumKeys(t), PlaceInv(t, target, n)
  PROVE  PlaceInv(t, target, n + 1)
<1> DEFINE P == Places(t, target)
           K == KeySeq(t)
           c == NumKeys(t)
           b == P[n].block
<1>1. c \in Nat /\ n \in Nat /\ n < c
  BY KeySeqFacts
<1>2. /\ b \in Nat /\ P[n].off \in Nat
      /\ \A m \in 1..n : P[m].block \in Nat /\ P[m].block <= b
      /\ P[n].off = Total(Before(t, target, b, K[n]), t)
  BY DEF PlaceInv
<1>3. ASSUME NEW i \in 1..c, K[i] < K[n + 1] PROVE i \in 1..n
  BY <1>1, <1>3, KeyOrder
<1>4. /\ \A d : BlockKeys(t, target, d) = {k \in DOMAIN t : \E i \in 1..c : K[i] = k /\ P[i].block = d}
      /\ \A d, k : Before(t, target, d, k) = {j \in BlockKeys(t, target, d) : j < k}
  BY DEF BlockKeys, Before, NumKeys
<1>5. /\ K[n] \in DOMAIN t /\ K[n] \in Nat /\ K[n] < K[n + 1] /\ t[K[n]] \in Nat
      /\ ~(K[n] < K[n])
  <2>1. K[n] \in DOMAIN t /\ K[n] \in Nat /\ K[n] < K[n + 1]
    BY <1>1, KeyOrder
  <2>2. QED
    BY <2>1 DEF Well
<1>6. P[n + 1] = [block |-> b + 1, off |-> 0]
      \/ P[n + 1] = [block |-> b, off |-> P[n].off + t[K[n]]]
  BY PlaceSteps
<1>7. CASE P[n + 1] = [block |-> b + 1, off |-> 0]
  <2>1. P[n + 1].block = b + 1 /\ P[n + 1].off = 0
    BY <1>7
  <2>2. Before(t, target, b + 1, K[n + 1]) = {}
    <3>1. SUFFICES ASSUME NEW i \in 1..c, K[i] < K[n + 1], P[i].block = b + 1 PROVE FALSE
      BY <1>4
    <3>2. P[i].block <= b
      BY <1>2, <1>3, <3>1
    <3>3. QED
      BY <1>2, <3>1, <3>2
  <2>3. Total(Before(t, target, b + 1, K[n + 1]), t) = 0
    BY <2>2, NoneTotal
  <2>4. \A m \in 1..(n + 1) : P[m].block \in Nat /\ P[m].block <= P[n + 1].block
    <3>1. ASSUME NEW m \in 1..n PROVE P[m].block \in Nat /\ P[m].block <= b + 1
      BY <1>2
    <3>2. \A m \in 1..(n + 1) : m \in 1..n \/ m = n + 1
      BY <1>1
    <3>3. QED
      BY <1>2, <2>1, <3>1, <3>2
  <2> HIDE DEF P, K
  <2>5. QED
    BY <1>2, <2>1, <2>3, <2>4 DEF PlaceInv, P, K
<1>8. CASE P[n + 1] = [block |-> b, off |-> P[n].off + t[K[n]]]
  <2> DEFINE old == Before(t, target, b, K[n])
  <2>1. P[n + 1].block = b /\ P[n + 1].off = P[n].off + t[K[n]]
    BY <1>8
  <2>2. Before(t, target, b, K[n + 1]) = old \cup {K[n]}
    <3>1. ASSUME NEW j \in Before(t, target, b, K[n + 1]) PROVE j \in old \cup {K[n]}
      <4>1. PICK i \in 1..c : K[i] = j /\ P[i].block = b /\ K[i] < K[n + 1] /\ j \in DOMAIN t
        BY <1>4
      <4>2. i \in 1..n
        BY <1>3, <4>1
      <4>3. CASE i = n
        BY <4>1, <4>3
      <4>4. CASE i # n
        <5>1. i < n
          BY <4>2, <4>4
        <5>2. K[i] < K[n]
          BY <5>1, KeyOrder
        <5>3. QED
          BY <1>4, <4>1, <5>2
      <4>5. QED
        BY <4>3, <4>4
    <3>2. ASSUME NEW j \in old PROVE j \in Before(t, target, b, K[n + 1])
      <4>1. j \in DOMAIN t /\ j < K[n] /\ j \in BlockKeys(t, target, b)
        BY <1>4
      <4>2. j \in Nat /\ K[n + 1] \in Nat
        BY <4>1, KeyOrder DEF Well
      <4>3. j < K[n + 1]
        BY <1>5, <4>1, <4>2
      <4>4. QED
        BY <1>4, <4>1, <4>3
    <3>3. K[n] \in Before(t, target, b, K[n + 1])
      BY <1>4, <1>5
    <3>4. QED
      BY <3>1, <3>2, <3>3
  <2>3. old \in SUBSET DOMAIN t /\ K[n] \notin old
    BY <1>4, <1>5
  <2>4. Sized(old, t)
    BY <2>3, KeysSized
  <2>5. Total(old \cup {K[n]}, t) = Total(old, t) + t[K[n]]
    <3> HIDE DEF old, K
    <3>1. QED
      BY <1>5, <2>3, <2>4, TotalWith
  <2>6. P[n + 1].off = Total(Before(t, target, b, K[n + 1]), t)
    BY <1>2, <2>1, <2>2, <2>5
  <2>7. P[n + 1].off \in Nat
    BY <1>2, <1>5, <2>1
  <2>8. \A m \in 1..(n + 1) : P[m].block \in Nat /\ P[m].block <= P[n + 1].block
    <3>1. \A m \in 1..(n + 1) : m \in 1..n \/ m = n + 1
      BY <1>1
    <3>2. QED
      BY <1>2, <2>1, <3>1
  <2> HIDE DEF P, K
  <2>9. QED
    BY <1>2, <2>1, <2>6, <2>7, <2>8 DEF PlaceInv, P, K
<1>9. QED
  BY <1>6, <1>7, <1>8

LEMMA PlacesHold ==
  ASSUME NEW t, NEW target, Well(t), NEW n \in 1..NumKeys(t)
  PROVE  PlaceInv(t, target, n)
<1> DEFINE c == NumKeys(t)
           Q == {m \in Nat : m \in 1..c => PlaceInv(t, target, m)}
<1>1. c \in Nat
  BY KeySeqFacts
<1>2. 0 \in Q
  OBVIOUS
<1>3. ASSUME NEW m \in Nat, m < c, m \in Q PROVE m + 1 \in Q
  <2>1. m + 1 \in 1..c
    BY <1>1, <1>3
  <2>2. CASE m = 0
    <3>1. PlaceInv(t, target, 1)
      BY <2>1, <2>2, FirstPlace
    <3>2. QED
      BY <2>2, <3>1
  <2>3. CASE m # 0
    <3>1. m \in 1..c
      BY <1>1, <1>3, <2>3
    <3>2. PlaceInv(t, target, m)
      BY <1>3, <3>1
    <3>3. QED
      BY <2>1, <3>1, <3>2, LaterPlace
  <2>4. QED
    BY <2>2, <2>3
<1>4. Q \in SUBSET Nat
  OBVIOUS
<1>5. \A m \in 0..c : m \in Q
  <2> HIDE DEF Q
  <2>1. QED
    BY <1>1, <1>2, <1>3, <1>4, UpTo
<1>6. n \in Q
  BY <1>1, <1>5
<1>7. QED
  BY <1>6

\* A proper part of some keys takes less room.
LEMMA FewerTakeLess ==
  ASSUME NEW t, Well(t), NEW T \in SUBSET DOMAIN t, NEW S \in SUBSET T,
         NEW k \in T, k \notin S
  PROVE  Total(S, t) < Total(T, t)
<1>1. t[k] \in Nat /\ t[k] # 0
  BY DEF Well
<1>2. Total(S \cup {k}, t) = Total(S, t) + t[k] /\ Total(S, t) \in Nat
  BY <1>1, KeysSized, TotalWith
<1>3. Sized(T, t) /\ S \cup {k} \in SUBSET T
  BY KeysSized
<1>4. /\ Total(T, t) = Total(T \ (S \cup {k}), t) + Total(S \cup {k}, t)
      /\ Total(T \ (S \cup {k}), t) \in Nat
  BY <1>3, TotalWithout, KeysSized
<1>5. QED
  BY <1>1, <1>2, <1>4

\* At the place of a key there is its entry.
LEMMA EntryFound ==
  ASSUME NEW t, NEW target, Well(t), NEW n \in 1..NumKeys(t)
  PROVE  EntryAt(t, target, Places(t, target)[n].block, Places(t, target)[n].off)
           = KeySeq(t)[n]
<1> DEFINE k == KeySeq(t)[n]
           b == Places(t, target)[n].block
           off == Places(t, target)[n].off
           ks == BlockKeys(t, target, b)
           here == {j \in ks : Total({i \in ks : i < j}, t) = off}
<1>1. ks \in SUBSET DOMAIN t /\ k \in ks
  BY KeyOrder DEF BlockKeys, NumKeys
<1>2. off = Total({i \in ks : i < k}, t)
  BY PlacesHold DEF PlaceInv, Before
<1>3. k \in here
  BY <1>1, <1>2
<1>4. ASSUME NEW j \in here, j # k PROVE FALSE
  <2> HIDE DEF ks, k
  <2>1. j \in Nat /\ k \in Nat /\ j \in ks /\ \A i \in ks : i \in Nat
    BY <1>1 DEF Well
  <2>2. CASE j < k
    <3>1. /\ {i \in ks : i < j} \in SUBSET {i \in ks : i < k}
          /\ {i \in ks : i < k} \in SUBSET DOMAIN t
          /\ j \in {i \in ks : i < k} /\ j \notin {i \in ks : i < j}
      BY <1>1, <2>1, <2>2
    <3>2. Total({i \in ks : i < j}, t) < Total({i \in ks : i < k}, t)
      BY <3>1, FewerTakeLess
    <3>3. Total({i \in ks : i < k}, t) \in Nat
      BY <3>1, KeysSized
    <3>4. QED
      BY <1>2, <3>2, <3>3
  <2>3. CASE k < j
    <3>1. /\ {i \in ks : i < k} \in SUBSET {i \in ks : i < j}
          /\ {i \in ks : i < j} \in SUBSET DOMAIN t
          /\ k \in {i \in ks : i < j} /\ k \notin {i \in ks : i < k}
      BY <1>1, <2>1, <2>3
    <3>2. Total({i \in ks : i < k}, t) < Total({i \in ks : i < j}, t)
      BY <3>1, FewerTakeLess
    <3>3. Total({i \in ks : i < j}, t) \in Nat
      BY <3>1, KeysSized
    <3>4. QED
      BY <1>2, <3>2, <3>3
  <2>4. QED
    BY <1>4, <2>1, <2>2, <2>3
<1>5. here = {k}
  BY <1>3, <1>4
<1>6. EntryAt(t, target, b, off) = IF here = {} THEN 0 ELSE CHOOSE j \in here : TRUE
  BY DEF EntryAt
<1>7. QED
  BY <1>5, <1>6

\* The index has the place of every key of the table and of no other.
LEMMA IndexFinds ==
  ASSUME NEW t, NEW target, Well(t), NEW k \in Nat
  PROVE  /\ k \notin DOMAIN t => IndexGet(FlatIndex(t, target), k) = {}
         /\ \A n \in 1..NumKeys(t) : k = KeySeq(t)[n] =>
              IndexGet(FlatIndex(t, target), k)
                = {[key |-> k, at |-> Places(t, target)[n]]}
<1> DEFINE c == NumKeys(t)
           idx == FlatIndex(t, target)
           K == KeySeq(t)
           at == Places(t, target)
<1>1. /\ DOMAIN idx = 1..c /\ c \in Nat
      /\ \A m \in 1..c : idx[m] = [key |-> K[m], at |-> at[m]]
  BY KeySeqFacts DEF FlatIndex, NumKeys
<1> HIDE DEF idx, at
<1>2. \A m \in 1..c : idx[m].key = K[m]
  BY <1>1
<1>3. k \notin DOMAIN t => IndexGet(idx, k) = {}
  <2>1. k \notin DOMAIN t => {m \in DOMAIN idx : idx[m].key = k} = {}
    BY <1>1, <1>2, KeyOrder
  <2>2. QED
    BY <2>1 DEF IndexGet
<1>4. ASSUME NEW n \in 1..c, k = K[n]
      PROVE  IndexGet(idx, k) = {[key |-> k, at |-> at[n]]}
  <2>1. {m \in DOMAIN idx : idx[m].key < k} = 1..(n - 1)
    <3>1. \A m \in 1..c : idx[m].key < k <=> m < n
      BY <1>2, <1>4, KeyOrder
    <3>2. QED
      BY <1>1, <3>1
  <2>2. PartitionPoint(idx, k) = n - 1
    <3>1. n \in Int /\ 1 \in Int /\ n - 1 \in Int /\ n >= 1
      BY <1>1
    <3>2. Cardinality(1..(n - 1)) = IF 1 > n - 1 THEN 0 ELSE (n - 1) - 1 + 1
      BY <3>1, FS_Interval
    <3>3. Cardinality(1..(n - 1)) = n - 1
      BY <3>1, <3>2
    <3>4. QED
      BY <2>1, <3>3 DEF PartitionPoint
  <2>3. (n - 1) + 1 = n
    BY <1>1
  <2>4. {PartitionPoint(idx, k) + 1} \cap {m \in DOMAIN idx : idx[m].key = k} = {n}
    BY <1>1, <1>2, <1>4, <2>2, <2>3
  <2>5. IndexGet(idx, k) = {idx[n]}
    BY <2>4, Zenon DEF IndexGet
  <2>6. QED
    BY <1>1, <1>4, <2>5
<1>5. QED
  BY <1>3, <1>4 DEF idx, at

\* The range and the filter of a table let every key of it through.
LEMMA KeysMayExist ==
  ASSUME NEW t, Well(t), NEW k \in DOMAIN t, NEW bloom
  PROVE  KeyMayExist(t, k, bloom)
<1> DEFINE S == DOMAIN t
<1>1. S \in SUBSET Nat /\ S # {} /\ k \in S
  BY DEF Well
<1>2. Min(S) <= k
  <2> HIDE DEF S
  <2>1. QED
    BY <1>1, MinNat
<1>3. k <= Max(S)
  <2> DEFINE c == NumKeys(t)
             last == KeySeq(t)[c]
  <2>1. c \in 1..c
    <3>1. c \in Nat
      BY KeySeqFacts
    <3>2. c # 0
      BY FS_EmptySet DEF Well, NumKeys
    <3>3. QED
      BY <3>1, <3>2
  <2>2. last \in S
    BY <2>1, KeyOrder
  <2>3. ASSUME NEW x \in S PROVE last >= x
    <3>1. PICK n \in 1..c : KeySeq(t)[n] = x
      BY KeySeqFacts
    <3>2. CASE n = c
      BY <1>1, <2>2, <3>1, <3>2
    <3>3. CASE n # c
      <4>1. n < c
        BY <2>1, <3>3
      <4>2. KeySeq(t)[n] < last
        BY <2>1, <4>1, KeyOrder
      <4>3. QED
        BY <1>1, <2>2, <3>1, <4>2
    <3>4. QED
      BY <3>2, <3>3
  <2> HIDE DEF S, last
  <2>4. \E m \in S : \A x \in S : m >= x
    BY <2>2, <2>3
  <2>5. \A x \in S : Max(S) >= x /\ Max(S) \in S
    BY <2>4 DEF Max
  <2>6. QED
    BY <1>1, <2>5
<1>4. MightContain(t, k)
  BY DEF MightContain, BloomBits
<1>5. QED
  BY <1>2, <1>3, <1>4 DEF KeyMayExist

\* What write_entries puts into a file is found again, whatever the keys, the
\* sizes of the entries, the size of a block and the hash functions: the index
\* search returns the place of each key, and for every other key nothing; the
\* entry at that place is that of the key; and neither the range nor the bloom
\* filter turns a key away that is in the file.
THEOREM WrittenIsFound == RoundTrips /\ FilterLetsThrough
<1>1. ASSUME NEW f \in Files
      PROVE  Well(Table[f]) /\ TargetOf(f) \in Nat /\ DOMAIN Table[f] \subseteq Keys
  BY DEF Well, TargetOf
<1>2. ASSUME NEW f \in Files, NEW k \in Keys
      PROVE  IF k \in DOMAIN Table[f]
             THEN Hits[f][k] # {} /\ \A r \in Hits[f][k] : EntryOf[f][r.at] = k
             ELSE Hits[f][k] = {}
  <2> DEFINE t == Table[f]
             target == TargetOf(f)
             P == Places(t, target)
             ix == FlatIndex(t, target)
  <2>1. k \in Nat /\ Hits[f][k] = IndexGet(ix, k)
    BY DEF Hits, Index
  <2>2. CASE k \notin DOMAIN t
    BY <1>1, <2>1, <2>2, IndexFinds
  <2>3. CASE k \in DOMAIN t
    <3>1. PICK n \in 1..NumKeys(t) : KeySeq(t)[n] = k
      BY <1>1, <2>3, KeySeqFacts
    <3>2. Hits[f][k] = {[key |-> k, at |-> P[n]]}
      BY <1>1, <2>1, <3>1, IndexFinds
    <3>3. P[n] \in {r.at : r \in Range(Index[f])}
      <4>1. /\ Index[f] = [m \in 1..NumKeys(t) |-> [key |-> KeySeq(t)[m], at |-> P[m]]]
        BY DEF Index, FlatIndex, NumKeys
      <4>2. Index[f][n].at = P[n] /\ Index[f][n] \in Range(Index[f])
        BY <4>1 DEF Range
      <4>3. QED
        BY <4>2
    <3>4. EntryOf[f][P[n]] = EntryAt(t, target, P[n].block, P[n].off)
      BY <3>3 DEF EntryOf
    <3>5. EntryOf[f][P[n]] = k
      BY <1>1, <3>1, <3>4, EntryFound
    <3>6. QED
      BY <2>3, <3>2, <3>5
  <2>4. QED
    BY <2>2, <2>3
<1>3. ASSUME NEW f \in Files PROVE DOMAIN Table[f] \subseteq MayExist[f]
  BY <1>1, KeysMayExist DEF MayExist
<1>4. QED
  BY <1>2, <1>3 DEF RoundTrips, FilterLetsThrough

-----------------------------------------------------------------------------
LEMMA InitHolds ==
  ASSUME Init
  PROVE  ReadInv
<1>1. Types
  <2>1. rd = [p \in Procs |-> rd[p]] /\ readers \in [Files -> Int]
    BY DEF Init
  <2>2. job \in [pc : {"idle", "mark", "wait", "close", "remove"},
                 file : Files \cup {None}]
    BY DEF Init, NoJob
  <2>3. QED
    BY <2>1, <2>2 DEF Init, Types
<1>2. JobInv
  BY DEF Init, JobInv, NoJob
<1>3. ASSUME NEW p \in Procs
      PROVE  rd[p] = NoCall /\ CallInv(p) /\ HandleInv(p) /\ ResultInv(p)
  <2>1. rd[p] = NoCall
    BY DEF Init
  <2>2. CallInv(p)
    BY <2>1, NoCallFields DEF CallInv
  <2>3. HandleInv(p)
    BY <2>1, NoCallFields DEF HandleInv, MapReader, Clones
  <2>4. ResultInv(p)
    BY <2>1, NoCallFields DEF ResultInv
  <2>5. QED
    BY <2>1, <2>2, <2>3, <2>4
<1>4. PinsBalance
  <2>1. ASSUME NEW f \in Files PROVE readers[f] = Cardinality(Pinners(f))
    <3>1. Pinners(f) = {}
      BY <1>3, NoCallFields DEF Pinners
    <3>2. QED
      BY <3>1, FS_EmptySet DEF Init
  <2>2. QED
    BY <2>1 DEF PinsBalance, Pinners
<1>5. QED
  BY <1>1, <1>2, <1>3, <1>4 DEF ReadInv, CallsInv, PinInv

LEMMA NextHolds ==
  ASSUME CallsInv, [Next]_vars
  PROVE  Keeps
<1>1. ASSUME NEW p \in Procs, BeginCall(p) PROVE Keeps
  BY <1>1, BeginCallKeeps
<1>2. ASSUME NEW p \in Procs, ReadStep(p) PROVE Keeps
  BY <1>2, ReadStepKeeps
<1>3. CASE (\E f \in Files : Install(f)) \/ Reclaim
  BY <1>3, CompactionKeeps
<1>4. CASE UNCHANGED vars
  <2>1. /\ UNCHANGED <<disk, live, marked, readers, rd, job, mixed, errors>>
        /\ index' = index /\ loaded' = loaded
    BY <1>4 DEF vars
  <2>2. Types' /\ JobInv'
    BY <2>1 DEF CallsInv, PinInv, Types, JobInv
  <2>3. QED
    BY <2>1, <2>2, CallsStay
<1>5. QED
  BY <1>1, <1>2, <1>3, <1>4 DEF Next

\* reader_count is the number of pins that are held, for any number of calls
\* of every kind, with I/O errors, eviction of handles and reclaim beside them:
\* each path through get, try_get_sync and their error returns gives back the
\* pin that it took, and no other.
THEOREM PinsAreBalanced == Spec => []PinsBalance
<1>1. Init => CallsInv
  BY InitHolds DEF ReadInv
<1>2. CallsInv /\ [Next]_vars => CallsInv'
  BY NextHolds DEF Keeps
<1>3. CallsInv => PinsBalance
  BY DEF CallsInv, PinInv
<1>4. QED
  BY <1>1, <1>2, <1>3, PTL DEF Spec

\* Every call finds in its file what was written there, beside any number of
\* others, the warm-up, eviction, caching and reclaim, and fails only with a
\* reason; and a get that has pinned its file does not lose it.
THEOREM LookupsAreFaithful == Spec => []LookupIsFaithful
<1>1. Init => ReadInv
  BY InitHolds
<1>2. ReadInv /\ [Next]_vars => ReadInv'
  BY NextHolds, WrittenIsFound DEF Keeps, ReadInv
<1>3. ReadInv => LookupIsFaithful
  <2>1. SUFFICES ASSUME ReadInv, ~mixed, NEW p \in Procs, Done(p)
                 PROVE  Faithful(p)
    BY DEF LookupIsFaithful
  <2>2. ResultInv(p) /\ CallInv(p) /\ rd[p].pc = "done" /\ rd[p].todo = {}
    BY <2>1 DEF ReadInv, CallsInv, CallInv, Done
  <2>3. rd[p].found \subseteq {<<k, k>> : k \in There(p)}
    BY <2>1, <2>2 DEF ResultInv
  <2>4. {e[1] : e \in rd[p].found} \subseteq There(p)
    BY <2>3
  <2>5. Covered(p) => {e[1] : e \in rd[p].found} = There(p)
    BY <2>2, <2>4 DEF Covered
  <2>6. QED
    BY <2>1, <2>2, <2>3, <2>5 DEF Faithful, ResultInv, Excused, There
<1>4. QED
  BY <1>1, <1>2, <1>3, PTL DEF Spec

\* However many calls hit, miss, evict and put, and however often two of them
\* put the block that both missed: what the cache holds is in access_order, so
\* that put can always evict, and current_size covers it, so that evict_lru
\* never subtracts what was not added.
THEOREM CacheAlwaysConsistent == Spec => []CacheStaysConsistent
<1>1. Init => CallsInv /\ CacheInv(cache)
  <2>1. ASSUME Init PROVE CacheInv(cache)
    <3>1. cache = [blocks |-> {}, order |-> <<>>, size |-> 0]
      BY <2>1 DEF Init, EmptyCache
    <3>2. Total({}, SizeOf) = 0
      <4>1. Bytes({}, SizeOf) = {}
        BY DEF Bytes
      <4>2. QED
        BY <4>1, FS_EmptySet DEF Total
    <3>3. QED
      BY <3>1, <3>2 DEF CacheInv, CacheTypes, CacheConsistent
  <2>2. QED
    BY <2>1, InitHolds DEF ReadInv
<1>2. CallsInv /\ CacheInv(cache) /\ [Next]_vars => (CallsInv /\ CacheInv(cache))'
  BY NextHolds, CacheKept DEF Keeps
<1>3. CacheInv(cache) => CacheStaysConsistent
  BY DEF CacheInv, CacheStaysConsistent
<1>4. QED
  BY <1>1, <1>2, <1>3, PTL DEF Spec
=============================================================================
