-------------------------- MODULE CompactionProofs ---------------------------
(***************************************************************************)
(* Proofs about Compaction: which files the live map, the readers and the  *)
(* compactions may rely on, for any number of tasks, readers and files.    *)
(***************************************************************************)
EXTENDS Compaction, SequenceTheorems, FiniteSetTheorems, FunctionTheorems,
        WellFoundedInduction, TLAPS

\* A non-empty set of naturals has a least element.
LEMMA LeastNat ==
  ASSUME NEW S \in SUBSET Nat, S # {}
  PROVE  \E m \in S : \A j \in S : m <= j
<1>1. PICK m \in S : \A j \in S : ~(<<j, m>> \in OpToRel(<, Nat))
  BY NatLessThanWellFounded, WFMin
<1>2. \A j \in S : ~(j < m)
  BY <1>1 DEF OpToRel
<1>3. QED
  BY <1>2

\* It is what Min returns.
LEMMA MinNat ==
  ASSUME NEW S \in SUBSET Nat, S # {}
  PROVE  Min(S) \in S /\ \A x \in S : Min(S) <= x
<1>1. \E x \in S : \A y \in S : x <= y
  BY LeastNat
<1>2. QED
  BY <1>1 DEF Min

\* A bounded non-empty set of naturals has a greatest element, which is what
\* Max returns.
LEMMA MaxNat ==
  ASSUME NEW S \in SUBSET Nat, S # {}, NEW n \in Nat, \A x \in S : x <= n
  PROVE  Max(S) \in S /\ \A x \in S : x <= Max(S)
<1> DEFINE D == {d \in Nat : n - d \in S}
<1>1. D \in SUBSET Nat /\ D # {}
  <2>1. PICK x \in S : TRUE
    OBVIOUS
  <2>2. n - x \in Nat /\ n - (n - x) = x
    BY <2>1
  <2>3. QED
    BY <2>1, <2>2
<1>2. PICK m \in D : \A d \in D : m <= d
  <2> HIDE DEF D
  <2>1. QED
    BY <1>1, LeastNat
<1>3. n - m \in S
  BY <1>2
<1>4. ASSUME NEW x \in S PROVE n - m >= x
  <2>1. n - x \in Nat /\ n - (n - x) = x
    BY <1>4
  <2>2. m <= n - x
    BY <1>2, <1>4, <2>1
  <2>3. QED
    BY <1>1, <1>2, <1>4, <2>1, <2>2
<1>5. \E x \in S : \A y \in S : x >= y
  BY <1>3, <1>4
<1>6. Max(S) \in S /\ \A y \in S : Max(S) >= y
  BY <1>5 DEF Max
<1>7. QED
  BY <1>6

\* A relation, as a set of pairs, that is a strict total order on S.
StrictOrder(R, S) ==
  /\ \A x \in S : <<x, x>> \notin R
  /\ \A x, y, z \in S : <<x, y>> \in R /\ <<y, z>> \in R => <<x, z>> \in R
  /\ \A x, y \in S : x # y => <<x, y>> \in R \/ <<y, x>> \in R
Below(R, S, x) == {y \in S : <<y, x>> \in R}

\* Counting the elements below: the rank is below the size of the set, grows
\* with the order, and every rank is somebody's.
LEMMA Ranking ==
  ASSUME NEW S, IsFiniteSet(S), NEW R, StrictOrder(R, S)
  PROVE  /\ \A x \in S : Cardinality(Below(R, S, x)) \in 0..Cardinality(S) - 1
         /\ \A x, y \in S : <<x, y>> \in R =>
              Cardinality(Below(R, S, x)) < Cardinality(Below(R, S, y))
         /\ \A m \in 0..Cardinality(S) - 1 : \E x \in S :
              Cardinality(Below(R, S, x)) = m
<1> DEFINE n == Cardinality(S)
           rank == [x \in S |-> Cardinality(Below(R, S, x))]
<1>1. n \in Nat
  BY FS_CardinalityType
<1>2. ASSUME NEW x \in S
      PROVE  /\ IsFiniteSet(Below(R, S, x))
             /\ Cardinality(Below(R, S, x)) \in 0..n - 1
  <2>1. Below(R, S, x) \in SUBSET S /\ x \notin Below(R, S, x)
    BY DEF Below, StrictOrder
  <2>2. IsFiniteSet(Below(R, S, x)) /\ Cardinality(Below(R, S, x)) <= n
    BY <2>1, FS_Subset
  <2>3. Cardinality(Below(R, S, x)) # n
    BY <2>1, FS_Subset
  <2>4. Cardinality(Below(R, S, x)) \in Nat
    BY <2>2, FS_CardinalityType
  <2>5. QED
    BY <1>1, <2>2, <2>3, <2>4
<1>3. ASSUME NEW x \in S, NEW y \in S, <<x, y>> \in R
      PROVE  Cardinality(Below(R, S, x)) < Cardinality(Below(R, S, y))
  <2>1. /\ Below(R, S, x) \in SUBSET Below(R, S, y)
        /\ x \in Below(R, S, y) /\ x \notin Below(R, S, x)
    BY <1>3 DEF Below, StrictOrder
  <2>2. /\ Cardinality(Below(R, S, x)) <= Cardinality(Below(R, S, y))
        /\ Cardinality(Below(R, S, y)) # Cardinality(Below(R, S, x))
    BY <1>2, <2>1, FS_Subset
  <2>3. QED
    BY <1>2, <2>2
<1>4. rank \in Injection(S, 0..n - 1)
  <2>1. rank \in [S -> 0..n - 1]
    BY <1>2
  <2>2. ASSUME NEW x \in S, NEW y \in S, x # y PROVE rank[x] # rank[y]
    <3>1. rank[x] \in Int /\ rank[y] \in Int
      BY <1>2
    <3>2. CASE <<x, y>> \in R
      BY <1>3, <3>1, <3>2
    <3>3. CASE <<y, x>> \in R
      BY <1>3, <3>1, <3>3
    <3>4. QED
      BY <2>2, <3>2, <3>3 DEF StrictOrder
  <2>3. QED
    BY <2>1, <2>2, Fun_IsInj
<1>5. IsFiniteSet(0..n - 1) /\ Cardinality(0..n - 1) = n
  BY <1>1, FS_Interval
<1>6. rank \in Surjection(S, 0..n - 1)
  BY <1>4, <1>5, FS_Injection
<1>7. \A m \in 0..n - 1 : \E x \in S : Cardinality(Below(R, S, x)) = m
  <2>1. \A m \in 0..n - 1 : \E x \in S : rank[x] = m
    <3> HIDE DEF rank
    <3>1. QED
      BY <1>6 DEF Surjection
  <2>2. QED
    BY <2>1
<1>8. QED
  BY <1>2, <1>3, <1>7

\* The last part of it by itself.
RanksTaken(R, S) ==
  \A m \in 0..Cardinality(S) - 1 : \E x \in S : Cardinality(Below(R, S, x)) = m
LEMMA RankTaken ==
  ASSUME NEW S, IsFiniteSet(S), NEW R, StrictOrder(R, S)
  PROVE  RanksTaken(R, S)
  BY Ranking DEF RanksTaken

\* Ranking by a leading and a trailing number: the leading one decides.
LEMMA LeadingDecides ==
  ASSUME NEW a \in Nat, NEW b \in Nat, NEW x \in Nat, NEW y \in Nat, NEW n \in Nat,
         a < b, x <= n
  PROVE  a * (n + 1) + x < b * (n + 1) + y
<1>1. PICK d \in Nat : b = a + 1 + d
  <2>1. b - a - 1 \in Nat /\ b = a + 1 + (b - a - 1)
    OBVIOUS
  <2>2. QED
    BY <2>1
<1>2. b * (n + 1) = a * (n + 1) + (n + 1) + d * (n + 1)
  BY <1>1
<1>3. d * (n + 1) \in Nat /\ a * (n + 1) \in Nat /\ b * (n + 1) \in Nat
  OBVIOUS
<1>4. QED
  BY <1>2, <1>3

-----------------------------------------------------------------------------
(* Lists.                                                                  *)

\* Ascending lists every member once, in order.
LEMMA AscendingFacts ==
  ASSUME NEW S \in SUBSET Nat, IsFiniteSet(S)
  PROVE  /\ Cardinality(S) \in Nat
         /\ Ascending(S) \in [1..Cardinality(S) -> S]
         /\ \A x \in S : \E n \in 1..Cardinality(S) : Ascending(S)[n] = x
         /\ \A m, n \in 1..Cardinality(S) : m < n => Ascending(S)[m] < Ascending(S)[n]
<1> DEFINE R == {p \in S \X S : p[1] < p[2]}
           c == Cardinality(S)
           a == Ascending(S)
           rank == [x \in S |-> Cardinality({y \in S : y < x})]
<1>1. c \in Nat
  BY FS_CardinalityType
<1>2. \A x, y \in S : <<x, y>> \in R <=> x < y
  OBVIOUS
<1>3. \A x \in S : rank[x] = Cardinality(Below(R, S, x))
  BY DEF Below
<1>4. \A n \in 1..c : a[n] = CHOOSE x \in S : rank[x] = n - 1
  BY DEF Ascending
<1>5. a = [n \in 1..c |-> a[n]]
  BY SMTT(60) DEF Ascending
<1> HIDE DEF R, a, c, rank
<1>6. StrictOrder(R, S)
  BY <1>2 DEF StrictOrder
<1>7. \A x, y \in S : <<x, y>> \in R =>
        Cardinality(Below(R, S, x)) < Cardinality(Below(R, S, y))
  BY <1>6, Ranking
<1>8. \A x \in S : rank[x] \in 0..c - 1
  BY <1>3, <1>6, Ranking DEF c
<1>9. ASSUME NEW x \in S, NEW y \in S PROVE x < y <=> rank[x] < rank[y]
  <2>1. rank[x] \in Int /\ rank[y] \in Int /\ x \in Int /\ y \in Int
    BY <1>8
  <2>2. ASSUME x < y PROVE rank[x] < rank[y]
    <3>1. <<x, y>> \in R
      BY <1>2, <2>2
    <3>2. QED
      BY <1>3, <1>7, <3>1
  <2>3. ASSUME y < x PROVE rank[y] < rank[x]
    <3>1. <<y, x>> \in R
      BY <1>2, <2>3
    <3>2. QED
      BY <1>3, <1>7, <3>1
  <2>4. CASE x = y
    BY <2>1, <2>4
  <2>5. QED
    BY <2>1, <2>2, <2>3, <2>4
<1>10. \A m \in 0..c - 1 : \E x \in S : rank[x] = m
  <2>1. RanksTaken(R, S)
    BY <1>6, RankTaken
  <2>2. \A m \in 0..c - 1 : \E x \in S : Cardinality(Below(R, S, x)) = m
    BY <2>1 DEF RanksTaken, c
  <2>3. QED
    BY <1>3, <2>2
<1>11. ASSUME NEW n \in 1..c PROVE a[n] \in S /\ rank[a[n]] = n - 1
  <2>1. n - 1 \in 0..c - 1
    BY <1>1
  <2>2. \E x \in S : rank[x] = n - 1
    BY <1>10, <2>1
  <2>3. QED
    BY <1>4, <2>2
<1>12. a \in [1..c -> S]
  BY <1>5, <1>11
<1>13. ASSUME NEW x \in S PROVE \E n \in 1..c : a[n] = x
  <2>1. rank[x] \in Int /\ rank[x] + 1 \in 1..c
    BY <1>1, <1>8
  <2>2. PICK n \in 1..c : n = rank[x] + 1
    BY <2>1
  <2>3. a[n] \in S /\ rank[a[n]] = rank[x]
    BY <1>11, <2>1, <2>2
  <2>4. ~(a[n] < x) /\ ~(x < a[n])
    <3>1. ~(rank[a[n]] < rank[x]) /\ ~(rank[x] < rank[a[n]])
      BY <2>1, <2>3
    <3>2. QED
      BY <1>9, <2>3, <3>1
  <2>5. a[n] \in Nat /\ x \in Nat
    BY <2>3
  <2>6. QED
    BY <2>4, <2>5
<1>14. ASSUME NEW m \in 1..c, NEW n \in 1..c, m < n PROVE a[m] < a[n]
  <2>1. a[m] \in S /\ rank[a[m]] = m - 1 /\ a[n] \in S /\ rank[a[n]] = n - 1
    BY <1>11
  <2>2. rank[a[m]] < rank[a[n]]
    BY <1>14, <2>1
  <2>3. QED
    BY <1>9, <2>1, <2>2
<1>15. QED
  BY <1>1, <1>12, <1>13, <1>14 DEF a, c

\* Pick takes the members at the given places, in their order.
LEMMA PickFacts ==
  ASSUME NEW T, NEW s \in Seq(T), NEW P \in SUBSET DOMAIN s
  PROVE  /\ Pick(s, P) \in Seq(T)
         /\ Range(Pick(s, P)) = {s[n] : n \in P}
<1>1. DOMAIN s = 1..Len(s) /\ Len(s) \in Nat
  OBVIOUS
<1>2. P \in SUBSET Nat /\ IsFiniteSet(P)
  <2>1. IsFiniteSet(1..Len(s))
    BY <1>1, FS_Interval
  <2>2. QED
    BY <1>1, <2>1, FS_Subset
<1> DEFINE c == Cardinality(P)
           a == Ascending(P)
<1>3. /\ c \in Nat /\ a \in [1..c -> P]
      /\ \A x \in P : \E n \in 1..c : a[n] = x
  BY <1>2, AscendingFacts
<1>4. Pick(s, P) = [n \in 1..c |-> s[a[n]]]
  BY DEF Pick
<1> HIDE DEF a, c
<1>5. \A n \in P : s[n] \in T
  BY <1>1
<1>6. [n \in 1..c |-> s[a[n]]] \in [1..c -> T]
  BY <1>3, <1>5
<1>7. Pick(s, P) \in Seq(T)
  BY <1>3, <1>4, <1>6
<1>8. Range(Pick(s, P)) = {s[n] : n \in P}
  <2>1. Range([n \in 1..c |-> s[a[n]]]) = {s[a[n]] : n \in 1..c}
    BY DEF Range
  <2>2. {s[a[n]] : n \in 1..c} = {s[n] : n \in P}
    BY <1>3
  <2>3. QED
    BY <1>4, <2>1, <2>2
<1>9. QED
  BY <1>7, <1>8

\* Without removes the members of a set from a list.
LEMMA WithoutFacts ==
  ASSUME NEW T, NEW s \in Seq(T), NEW S
  PROVE  /\ Without(s, S) \in Seq(T)
         /\ Range(Without(s, S)) = Range(s) \ S
<1> DEFINE P == {n \in DOMAIN s : s[n] \notin S}
<1>1. Without(s, S) = Pick(s, P) /\ P \in SUBSET DOMAIN s
  BY DEF Without
<1>2. {s[n] : n \in P} = Range(s) \ S
  BY DEF Range
<1> HIDE DEF P
<1>3. QED
  BY <1>1, <1>2, PickFacts

\* What lists hold.
LEMMA RangeFacts ==
  ASSUME NEW T, NEW s \in Seq(T)
  PROVE  /\ Range(s) \in SUBSET T /\ Range(<<>>) = {}
         /\ s = <<>> <=> Range(s) = {}
         /\ \A e \in T : Range(Append(s, e)) = Range(s) \cup {e}
         /\ \A u \in Seq(T) : Range(s \o u) = Range(s) \cup Range(u)
         /\ s # <<>> => /\ Head(s) \in T /\ Tail(s) \in Seq(T)
                        /\ Range(s) = {Head(s)} \cup Range(Tail(s))
<1>1. DOMAIN s = 1..Len(s) /\ Len(s) \in Nat
  OBVIOUS
<1>2. Range(s) \in SUBSET T /\ Range(<<>>) = {}
  BY <1>1 DEF Range
<1>3. s = <<>> <=> Range(s) = {}
  <2>1. ASSUME s # <<>> PROVE Range(s) # {}
    <3>1. Len(s) >= 1
      BY <1>1, <2>1, EmptySeq
    <3>2. 1 \in DOMAIN s
      BY <1>1, <3>1
    <3>3. QED
      BY <3>2 DEF Range
  <2>2. QED
    BY <1>2, <2>1
<1>4. ASSUME NEW e \in T PROVE Range(Append(s, e)) = Range(s) \cup {e}
  <2>1. Append(s, e) = s \o <<e>> /\ <<e>> \in Seq(T)
    BY AppendIsConcat
  <2>2. Range(<<e>>) = {e}
    BY DEF Range
  <2>3. Range(s \o <<e>>) = Range(s) \cup Range(<<e>>)
    BY <2>1, RangeConcatenation
  <2>4. QED
    BY <2>1, <2>2, <2>3
<1>5. \A u \in Seq(T) : Range(s \o u) = Range(s) \cup Range(u)
  BY RangeConcatenation
<1>6. ASSUME s # <<>>
      PROVE  /\ Head(s) \in T /\ Tail(s) \in Seq(T)
             /\ Range(s) = {Head(s)} \cup Range(Tail(s))
  <2>1. /\ Head(s) \in T /\ Tail(s) \in Seq(T) /\ Len(Tail(s)) = Len(s) - 1
        /\ \A i \in 1..Len(Tail(s)) : Tail(s)[i] = s[i + 1]
    BY <1>6, HeadTailProperties
  <2>2. Len(s) >= 1 /\ Head(s) = s[1] /\ DOMAIN Tail(s) = 1..Len(s) - 1
    BY <1>6, <2>1
  <2>3. ASSUME NEW n \in DOMAIN s, n # 1 PROVE s[n] \in Range(Tail(s))
    <3>1. n - 1 \in DOMAIN Tail(s) /\ Tail(s)[n - 1] = s[n]
      BY <1>1, <2>1, <2>2, <2>3
    <3>2. QED
      BY <3>1 DEF Range
  <2>4. \A n \in DOMAIN Tail(s) : n + 1 \in DOMAIN s /\ Tail(s)[n] = s[n + 1]
    BY <1>1, <2>1, <2>2
  <2>5. Range(s) \subseteq {Head(s)} \cup Range(Tail(s))
    BY <2>2, <2>3 DEF Range
  <2>6. {Head(s)} \cup Range(Tail(s)) \subseteq Range(s)
    BY <1>1, <2>2, <2>4 DEF Range
  <2>7. QED
    BY <2>1, <2>5, <2>6
<1>7. QED
  BY <1>2, <1>3, <1>4, <1>5, <1>6

\* SetToSeqs lists every member of a finite set.
LEMMA SetToSeqsFacts ==
  ASSUME NEW S, IsFiniteSet(S), NEW s \in SetToSeqs(S)
  PROVE  s \in Seq(S) /\ Range(s) = S
<1> DEFINE n == Cardinality(S)
<1>1. n \in Nat
  BY FS_CardinalityType
<1>2. s \in [1..n -> S] /\ \A i, j \in 1..n : i # j => s[i] # s[j]
  BY DEF SetToSeqs
<1> HIDE DEF n
<1>3. s \in Seq(S)
  BY <1>1, <1>2
<1>4. s \in Injection(1..n, S)
  BY <1>2 DEF Injection, IsInjective
<1>5. IsFiniteSet(1..n) /\ Cardinality(1..n) = n
  BY <1>1, FS_Interval
<1>6. s \in Surjection(1..n, S)
  BY <1>4, <1>5, FS_Injection DEF n
<1>7. QED
  BY <1>2, <1>3, <1>6 DEF Surjection, Range

-----------------------------------------------------------------------------
(* The invariant.                                                          *)

\* The strategies under which reclaim is safe: levelled selection, or no
\* compact_all.  compact_all beside size-tiered selection re-installs files
\* that were reclaimed.
SafeMix == LeveledOnly \/ Manuals = {}

File == [level : {0, 1}, data : Data]
Job == [pc : {"idle", "merge", "install", "mark", "unlink"}, level : {0, 1},
        inputs : Seq(Ids), rest : Seq(Ids), outs : Seq(Ids)]
Get == [pc : {"idle", "probe", "read", "done"}, key : Keys, level : {0, 1},
        cands : Seq(Nat \ {0}), pin : Ids \cup {0}, best : Entry, floor : Entry]

\* Type correctness in the form that is inductive: no timestamp exceeds the
\* number of files, and no file is empty.
TypeInv ==
  /\ work \in Workloads
  /\ file \in Seq(File) /\ Len(file) <= work.files
  /\ \A i \in Ids : Held(i) # {}
  /\ disk \subseteq Ids /\ marked \subseteq Ids
  /\ l0 \in Seq(Ids) /\ l1 \in Seq(Ids)
  /\ compacting \in BOOLEAN
  /\ job \in [Tasks -> Job]
  /\ rd \in [Readers -> Get]
  /\ \A r \in Readers : rd[r].pc = "read" <=> rd[r].pin # 0
  /\ truth \in Data /\ \A k \in Keys : truth[k].ts <= Len(file)
  /\ crashes \in 0..MaxCrashes /\ errors \in 0..MaxErrors

Live == Range(l0) \cup Range(l1)
Busy(t) == job[t].pc \in {"merge", "install"}
Inputs(t) == Range(job[t].inputs)
Outs(t) == Range(job[t].outs)
Rest(t) == Range(job[t].rest)

\* The live map lists unmarked files of data_dir, each in its level.
LevelsInv ==
  /\ Live \subseteq disk /\ Live \cap marked = {}
  /\ \A i \in Range(l0) : file[i].level = 0
  /\ \A i \in Range(l1) : file[i].level = 1

\* What a compaction has replaced is not live, and what it is about to install
\* is on disk and known to nobody else.
Replaced(t) == job[t].pc \in {"mark", "unlink"} => Inputs(t) \cap Live = {}
Ready(t) ==
  job[t].pc = "install" =>
    /\ Outs(t) \subseteq disk /\ Outs(t) \cap marked = {} /\ Outs(t) \cap Live = {}
    /\ \A i \in Outs(t) : file[i].level = job[t].level
    /\ \A u \in Tasks : Outs(t) \cap Inputs(u) = {}
    /\ \A u \in Tasks : u # t /\ job[u].pc = "install" => Outs(t) \cap Outs(u) = {}
ReplacedInv == \A t \in Tasks : Replaced(t) /\ Ready(t)

\* What the flag `compacting` and the snapshot give a running compaction.
Running(t) ==
  Busy(t) =>
    /\ compacting
    /\ \A i \in Inputs(t) : file[i].level = job[t].level
    /\ Inputs(t) \cap Rest(t) = {}
    /\ ~LeveledOnly => Inputs(t) \cup Rest(t) \subseteq Range(Level(job[t].level))
BusyInv ==
  /\ \A t \in Manuals : Busy(t) => job[t].level = 1
  /\ \A t \in Autos : Running(t)
  /\ \A t \in Tasks : LeveledOnly \/ t \in Manuals => Rest(t) = {}
  /\ \A t, u \in Autos : Busy(t) /\ Busy(u) => t = u

FilesInv == TypeInv /\ LevelsInv /\ ReplacedInv /\ BusyInv /\ PinnedFilesOnDisk

-----------------------------------------------------------------------------
(* Files.                                                                  *)

\* The constants have their types.
LEMMA Constants ==
  /\ NumKeys \in Nat /\ NumKeys >= 1 /\ MaxFiles \in Nat
  /\ MaxCrashes \in Nat /\ MaxErrors \in Nat
  /\ Keys \in SUBSET Nat /\ (\A k \in Keys : k <= NumKeys) /\ 1 \in Keys
  /\ NoEntry \in Entry
  /\ \A w \in Workloads : w.files \in Nat /\ w.files <= MaxFiles
  BY CompactionAssumption, WorkloadAssumption DEF Keys, NoEntry, Entry

\* The entries of a file.
LEMMA EntryType ==
  ASSUME TypeInv, NEW i \in Ids, NEW k \in Keys
  PROVE  /\ file[i] \in File /\ file[i].data \in Data /\ At(i, k) \in Entry
         /\ At(i, k).ts \in 0..MaxFiles /\ At(i, k).del \in BOOLEAN
<1>1. i \in 1..Len(file) /\ file \in Seq(File)
  BY DEF TypeInv, Ids
<1>2. file[i] \in File
  BY <1>1, ElementOfSeq
<1>3. QED
  BY <1>2 DEF File, Data, Entry, At

\* The keys of a file lie between its smallest and its largest.
LEMMA KeyRange ==
  ASSUME TypeInv, NEW i \in Ids
  PROVE  /\ Held(i) \in SUBSET Keys
         /\ Smallest(i) \in Held(i) /\ Largest(i) \in Held(i)
         /\ \A k \in Held(i) : Smallest(i) <= k /\ k <= Largest(i)
         /\ Smallest(i) \in Nat /\ Largest(i) \in Nat /\ Rank(i) \in Nat
<1>1. Held(i) \in SUBSET Keys /\ Held(i) # {} /\ Held(i) \in SUBSET Nat
  BY Constants DEF TypeInv, Held
<1>2. Smallest(i) \in Held(i) /\ \A k \in Held(i) : Smallest(i) <= k
  BY <1>1, MinNat DEF Smallest
<1>3. Largest(i) \in Held(i) /\ \A k \in Held(i) : k <= Largest(i)
  <2>1. \A k \in Held(i) : k <= NumKeys
    BY <1>1, Constants
  <2>2. QED
    BY <1>1, <2>1, Constants, MaxNat DEF Largest
<1>4. Smallest(i) \in Nat /\ Largest(i) \in Nat
  BY <1>1, <1>2, <1>3
<1>5. Rank(i) \in Nat
  BY <1>4, Constants DEF Rank
<1>6. QED
  BY <1>1, <1>2, <1>3, <1>4, <1>5

\* sort_leveled_sstables permutes the list and leaves it ordered by Rank.
LEMMA SortFacts ==
  ASSUME TypeInv, NEW s \in Seq(Ids)
  PROVE  /\ SortLeveled(s) \in Seq(Ids) /\ Len(SortLeveled(s)) = Len(s)
         /\ Range(SortLeveled(s)) = Range(s)
         /\ \A m, n \in 1..Len(s) : m < n =>
              Rank(SortLeveled(s)[m]) <= Rank(SortLeveled(s)[n])
<1> DEFINE D == DOMAIN s
           R == {p \in D \X D : Sooner(s, p[1], p[2])}
           place == [m \in D |-> Place(s, m) - 1]
           pos == [n \in D |-> CHOOSE m \in D : Place(s, m) = n]
           c == Len(s)
<1>1. D = 1..c /\ c \in Nat /\ IsFiniteSet(D) /\ Cardinality(D) = c
  <2>1. DOMAIN s = 1..Len(s) /\ Len(s) \in Nat
    OBVIOUS
  <2>2. QED
    BY <2>1, FS_Interval
<1>2. \A m \in D : s[m] \in Ids /\ Rank(s[m]) \in Nat
  BY KeyRange
<1>3. \A m, n \in D : <<m, n>> \in R <=> Sooner(s, m, n)
  OBVIOUS
<1>4. ASSUME NEW m \in D
      PROVE  /\ place[m] = Cardinality(Below(R, D, m)) /\ place[m] \in Nat
             /\ Place(s, m) = place[m] + 1
  <2>1. {j \in D : Sooner(s, j, m)} = Below(R, D, m)
    BY DEF Below
  <2>2. Cardinality(Below(R, D, m)) \in Nat
    BY <1>1, FS_Subset, FS_CardinalityType DEF Below
  <2>3. Place(s, m) = 1 + Cardinality({j \in D : Sooner(s, j, m)})
    BY DEF Place
  <2>4. Place(s, m) = 1 + Cardinality(Below(R, D, m))
    BY <2>1, <2>3
  <2>5. place[m] = Place(s, m) - 1
    OBVIOUS
  <2> HIDE DEF place, R, D
  <2>6. QED
    BY <2>2, <2>4, <2>5
<1>5. SortLeveled(s) = [n \in D |-> s[pos[n]]]
  BY DEF SortLeveled
<1>6. StrictOrder(R, D)
  <2>1. \A m, n \in D : m \in Nat /\ n \in Nat
    BY <1>1
  <2>2. \A m \in D : <<m, m>> \notin R
    BY <1>2, <1>3, <2>1 DEF Sooner
  <2>3. \A x, y, z \in D : <<x, y>> \in R /\ <<y, z>> \in R => <<x, z>> \in R
    <3> HIDE DEF R, D
    <3>1. QED
      BY <1>2, <1>3, <2>1 DEF Sooner
  <2>4. \A x, y \in D : x # y => <<x, y>> \in R \/ <<y, x>> \in R
    <3> HIDE DEF R, D
    <3>1. QED
      BY <1>2, <1>3, <2>1 DEF Sooner
  <2>5. QED
    BY <2>2, <2>3, <2>4 DEF StrictOrder
<1>7. \A n \in D : pos[n] = CHOOSE m \in D : Place(s, m) = n
  OBVIOUS
<1>8. DOMAIN pos = D
  OBVIOUS
<1> HIDE DEF R, place, pos, c, D
<1>9. \A m \in D : place[m] \in 0..c - 1
  BY <1>1, <1>4, <1>6, Ranking
<1>10. \A m, n \in D : <<m, n>> \in R => place[m] < place[n]
  BY <1>1, <1>4, <1>6, Ranking
<1>11. \A k \in 0..c - 1 : \E m \in D : place[m] = k
  <2>1. RanksTaken(R, D)
    BY <1>1, <1>6, RankTaken
  <2>2. QED
    BY <1>1, <1>4, <2>1 DEF RanksTaken
<1>12. ASSUME NEW n \in D PROVE pos[n] \in D /\ place[pos[n]] = n - 1
  <2>1. n - 1 \in 0..c - 1
    BY <1>1
  <2>2. PICK m \in D : place[m] = n - 1
    BY <1>11, <2>1
  <2>3. Place(s, m) = n
    BY <1>1, <1>4, <2>2
  <2>4. pos[n] \in D /\ Place(s, pos[n]) = n
    BY <1>7, <2>3
  <2>5. QED
    BY <1>4, <2>4
<1>13. ASSUME NEW m \in D PROVE \E n \in D : pos[n] = m
  <2>1. place[m] \in Int /\ place[m] + 1 \in 1..c
    BY <1>1, <1>9
  <2>2. PICK n \in D : n = place[m] + 1
    BY <1>1, <2>1
  <2>3. pos[n] \in D /\ place[pos[n]] = place[m]
    BY <1>12, <2>1, <2>2
  <2>4. <<pos[n], m>> \notin R /\ <<m, pos[n]>> \notin R
    BY <1>10, <2>1, <2>3
  <2>5. QED
    BY <1>6, <2>3, <2>4 DEF StrictOrder
<1>14. SortLeveled(s) \in Seq(Ids) /\ Len(SortLeveled(s)) = c
  <2>1. \A n \in D : s[pos[n]] \in Ids
    BY <1>2, <1>12
  <2>2. SortLeveled(s) \in [1..c -> Ids]
    BY <1>1, <1>5, <2>1
  <2>3. QED
    BY <1>1, <2>2
<1>15. Range(SortLeveled(s)) = Range(s)
  <2>1. Range(s) = {s[m] : m \in D}
    BY DEF Range, D
  <2>2. Range(SortLeveled(s)) = {s[pos[n]] : n \in D}
    BY <1>5 DEF Range
  <2>3. QED
    BY <1>12, <1>13, <2>1, <2>2
<1>16. ASSUME NEW m \in D, NEW n \in D, m < n
       PROVE  Rank(SortLeveled(s)[m]) <= Rank(SortLeveled(s)[n])
  <2>1. /\ pos[m] \in D /\ place[pos[m]] = m - 1
        /\ pos[n] \in D /\ place[pos[n]] = n - 1
    BY <1>12
  <2>2. <<pos[n], pos[m]>> \notin R
    <3>1. ~(place[pos[n]] < place[pos[m]])
      BY <1>1, <1>16, <2>1
    <3>2. QED
      BY <1>10, <2>1, <3>1
  <2>3. ~(Rank(s[pos[n]]) < Rank(s[pos[m]]))
    BY <1>3, <2>1, <2>2 DEF Sooner
  <2>4. Rank(s[pos[n]]) \in Nat /\ Rank(s[pos[m]]) \in Nat
    BY <1>2, <2>1
  <2>5. QED
    BY <1>5, <2>3, <2>4
<1>17. QED
  BY <1>1, <1>14, <1>15, <1>16 DEF c

\* Newest returns the entry of a file that holds the key, and none is newer.
LEMMA NewestFacts ==
  ASSUME TypeInv, NEW S \in SUBSET Ids, NEW k \in Keys
  PROVE  /\ Newest(S, k) \in Entry
         /\ Newest(S, k).ts # 0 <=> \E i \in S : k \in Held(i)
         /\ Newest(S, k).ts = 0 => Newest(S, k) = NoEntry
         /\ \A i \in S : At(i, k).ts <= Newest(S, k).ts
         /\ Newest(S, k).ts # 0 => \E i \in S : Newest(S, k) = At(i, k)
<1> DEFINE holders == {j \in S : k \in Held(j)}
           hits == {At(i, k) : i \in holders}
           stamps == {e.ts : e \in hits}
           new == Newest(S, k)
<1>1. \A i \in S : At(i, k) \in Entry /\ At(i, k).ts \in 0..MaxFiles
  BY EntryType
<1>2. \A i \in S : i \in holders <=> At(i, k).ts # 0
  BY DEF Held
<1>3. new = IF hits = {} THEN NoEntry
            ELSE CHOOSE e \in hits : \A f \in hits : f.ts <= e.ts
  BY DEF Newest
<1>4. \A e \in hits : e \in Entry /\ e.ts \in Nat \ {0} /\ e.ts <= MaxFiles
  BY <1>1, <1>2
<1>5. \A i \in holders : At(i, k) \in hits
  OBVIOUS
<1>6. \A e \in hits : \E i \in S : e = At(i, k) /\ k \in Held(i)
  OBVIOUS
<1>7. CASE hits = {}
  <2>1. new = NoEntry
    BY <1>3, <1>7
  <2>2. \A i \in S : i \notin holders
    BY <1>5, <1>7
  <2>3. \A i \in S : At(i, k).ts = 0
    BY <1>2, <2>2
  <2>4. \A i \in S : k \notin Held(i)
    BY <2>2
  <2>5. NoEntry.ts = 0 /\ NoEntry \in Entry
    BY Constants DEF NoEntry
  <2>6. QED
    BY <2>1, <2>3, <2>4, <2>5
<1>8. CASE hits # {}
  <2>1. \E e \in hits : \A f \in hits : f.ts <= e.ts
    <3>1. stamps \in SUBSET Nat /\ stamps # {} /\ \A x \in stamps : x <= MaxFiles
      BY <1>4, <1>8
    <3>2. \A e \in hits : e.ts \in stamps
      OBVIOUS
    <3>3. \A x \in stamps : \E e \in hits : e.ts = x
      OBVIOUS
    <3> HIDE DEF stamps, hits
    <3>4. Max(stamps) \in stamps /\ \A x \in stamps : x <= Max(stamps)
      BY <3>1, Constants, MaxNat
    <3>5. PICK e \in hits : e.ts = Max(stamps)
      BY <3>3, <3>4
    <3>6. QED
      BY <3>2, <3>4, <3>5
  <2>2. new \in hits /\ \A f \in hits : f.ts <= new.ts
    <3> HIDE DEF hits
    <3>1. QED
      BY <1>3, <1>8, <2>1
  <2>3. new \in Entry /\ new.ts \in Nat \ {0}
    BY <1>4, <2>2
  <2>4. PICK i \in S : new = At(i, k) /\ k \in Held(i)
    BY <1>6, <2>2
  <2>5. ASSUME NEW j \in S PROVE At(j, k).ts <= new.ts
    <3>1. CASE j \in holders
      BY <1>5, <2>2, <3>1
    <3>2. CASE j \notin holders
      <4>1. At(j, k).ts = 0
        BY <1>2, <3>2
      <4>2. QED
        BY <2>3, <4>1
    <3>3. QED
      BY <3>1, <3>2
  <2>6. QED
    BY <2>3, <2>4, <2>5
<1>9. QED
  BY <1>7, <1>8

\* What deduplicate_entries keeps of a key: nothing, or the newest entry when
\* that is not a tombstone.
LEMMA DeduplicateFacts ==
  ASSUME TypeInv, NEW S \in SUBSET Ids, NEW k \in Keys
  PROVE  /\ Deduplicate(S, k) \in Entry
         /\ Deduplicate(S, k) = NoEntry \/ Deduplicate(S, k) = Newest(S, k)
         /\ Deduplicate(S, k).ts # 0 <=> Newest(S, k).ts # 0 /\ ~Newest(S, k).del
         /\ Deduplicate(S, k).ts # 0 => Deduplicate(S, k) = Newest(S, k)
         /\ Deduplicate(S, k).ts = 0 => Deduplicate(S, k) = NoEntry
<1>1. Newest(S, k) \in Entry /\ (Newest(S, k).ts = 0 => Newest(S, k) = NoEntry)
  BY NewestFacts
<1>2. NoEntry \in Entry /\ NoEntry.ts = 0
  BY Constants DEF NoEntry
<1>3. QED
  BY <1>1, <1>2 DEF Deduplicate

\* The keys of each file in a list are below those of the next.
InKeyOrder(fs) ==
  \A m, n \in 1..Len(fs) : m < n => \A x, y \in Keys :
    fs[m].data[x].ts # 0 /\ fs[n].data[y].ts # 0 => x < y

\* What create_new_sstables promises: it writes every kept entry to an output,
\* nothing else, and no empty output.
OutputsHold(outs, level, S) ==
  /\ outs \in Seq(File)
  /\ \A n \in 1..Len(outs) :
       /\ outs[n].level = level
       /\ \E k \in Keys : outs[n].data[k].ts # 0
       /\ \A k \in Keys : outs[n].data[k] \in {NoEntry, Deduplicate(S, k)}
  /\ \A k \in Keys : Deduplicate(S, k).ts # 0 =>
       \E n \in 1..Len(outs) : outs[n].data[k] = Deduplicate(S, k)
  /\ InKeyOrder(outs)

LEMMA OutputsFacts ==
  ASSUME TypeInv, NEW S \in SUBSET Ids, NEW level \in {0, 1}, NEW cuts
  PROVE  OutputsHold(Outputs(level, S, cuts), level, S)
<1> DEFINE kept == {k \in Keys : Deduplicate(S, k).ts # 0}
           first == {k \in kept : k = Min(kept) \/ k \in cuts}
           starts == Ascending(first)
           Chunk(n) == {k \in kept : /\ starts[n] <= k
                                     /\ n < Len(starts) => k < starts[n + 1]}
           Data_(n) == [k \in Keys |-> IF k \in Chunk(n) THEN Deduplicate(S, k)
                                       ELSE NoEntry]
           outs == Outputs(level, S, cuts)
           c == Cardinality(first)
<1>1. outs = IF kept = {} THEN <<>>
             ELSE [n \in 1..Len(starts) |-> [level |-> level, data |-> Data_(n)]]
  BY DEF Outputs
<1>2. /\ \A k \in Keys : k \in Nat
      /\ \A k \in Keys : Deduplicate(S, k) \in Entry
      /\ NoEntry \in Entry /\ NoEntry.ts = 0
  BY Constants, DeduplicateFacts DEF NoEntry
<1>3. kept \in SUBSET Keys /\ \A k \in Keys : k \in kept <=> Deduplicate(S, k).ts # 0
  OBVIOUS
<1>4. CASE kept = {}
  <2>1. outs = <<>>
    BY <1>1, <1>4
  <2>2. \A k \in Keys : Deduplicate(S, k).ts = 0
    BY <1>3, <1>4
  <2>3. QED
    BY <2>1, <2>2, EmptySeq DEF OutputsHold, InKeyOrder
<1>5. CASE kept # {}
  <2>1. first \in SUBSET kept /\ \A k \in kept : k = Min(kept) => k \in first
    OBVIOUS
  <2>2. first \in SUBSET Nat /\ IsFiniteSet(first)
    <3>1. IsFiniteSet(Keys)
      BY CompactionAssumption, FS_Interval DEF Keys
    <3>2. first \in SUBSET Keys
      BY <1>3, <2>1
    <3>3. QED
      BY <1>2, <3>1, <3>2, FS_Subset
  <2>3. /\ c \in Nat /\ starts \in [1..c -> first]
        /\ \A x \in first : \E n \in 1..c : starts[n] = x
        /\ \A m, n \in 1..c : m < n => starts[m] < starts[n]
    <3> HIDE DEF first
    <3>1. QED
      BY <2>2, AscendingFacts
  <2>4. Len(starts) = c
    <3> HIDE DEF c, first, starts
    <3>1. QED
      BY <2>3
  <2>5. \A n \in 1..c : \A k \in Keys :
          k \in Chunk(n) <=> k \in kept /\ starts[n] <= k /\ (n < c => k < starts[n + 1])
    BY <1>3, <2>4
  <2>6. outs = [n \in 1..c |-> [level |-> level, data |-> Data_(n)]]
    BY <1>1, <1>5, <2>4
  <2>7. \A n \in 1..c : Data_(n) = [k \in Keys |-> IF k \in Chunk(n)
                                                  THEN Deduplicate(S, k) ELSE NoEntry]
    OBVIOUS
  <2>8. Min(kept) \in first /\ \A k \in kept : Min(kept) <= k
    <3>1. kept \in SUBSET Nat
      BY <1>2, <1>3
    <3>2. Min(kept) \in kept /\ \A k \in kept : Min(kept) <= k
      <4> HIDE DEF kept
      <4>1. QED
        BY <1>5, <3>1, MinNat
    <3>3. QED
      BY <2>1, <3>2
  <2> HIDE DEF kept, first, starts, Chunk, Data_, outs, c
  <2>9. ASSUME NEW n \in 1..c
        PROVE  /\ Data_(n) \in Data
               /\ \A k \in Keys : Data_(n)[k] \in {NoEntry, Deduplicate(S, k)}
               /\ \A k \in Keys : k \in Chunk(n) => Data_(n)[k] = Deduplicate(S, k)
    BY <1>2, <2>7 DEF Data
  <2>10. ASSUME NEW n \in 1..c PROVE starts[n] \in Keys /\ Data_(n)[starts[n]].ts # 0
    <3>1. starts[n] \in first /\ starts[n] \in kept /\ starts[n] \in Keys
      BY <1>3, <2>1, <2>3
    <3>2. n < c => starts[n] < starts[n + 1]
      BY <2>3
    <3>3. starts[n] <= starts[n]
      BY <1>2, <3>1
    <3>4. starts[n] \in Chunk(n)
      BY <2>5, <3>1, <3>2, <3>3
    <3>5. QED
      BY <1>3, <2>9, <3>1, <3>4
  <2>11. ASSUME NEW k \in Keys, Deduplicate(S, k).ts # 0
         PROVE  \E n \in 1..c : Data_(n)[k] = Deduplicate(S, k)
    <3> DEFINE le == {n \in 1..c : starts[n] <= k}
    <3>1. k \in kept
      BY <1>3, <2>11
    <3>2. le \in SUBSET Nat /\ le # {} /\ \A n \in le : n <= c
      BY <2>3, <2>8, <3>1
    <3>3. \A n \in 1..c : n \in le <=> starts[n] <= k
      OBVIOUS
    <3>4. le \in SUBSET (1..c)
      OBVIOUS
    <3> HIDE DEF le
    <3>5. Max(le) \in le /\ \A n \in le : n <= Max(le)
      BY <2>3, <3>2, MaxNat
    <3>6. PICK m \in 1..c : m = Max(le)
      BY <3>4, <3>5
    <3>7. ASSUME m < c PROVE k < starts[m + 1]
      <4>1. m + 1 \in 1..c /\ ~(m + 1 <= m)
        BY <2>3, <3>7
      <4>2. m + 1 \notin le
        BY <3>5, <3>6, <4>1
      <4>3. ~(starts[m + 1] <= k)
        BY <3>3, <4>1, <4>2
      <4>4. starts[m + 1] \in Nat /\ k \in Nat
        BY <1>2, <2>2, <2>3, <4>1
      <4>5. QED
        BY <4>3, <4>4
    <3>8. k \in Chunk(m)
      BY <2>5, <3>1, <3>3, <3>5, <3>6, <3>7
    <3>9. QED
      BY <2>9, <3>8
  <2>12. outs \in Seq(File) /\ Len(outs) = c
    <3>1. \A n \in 1..c : [level |-> level, data |-> Data_(n)] \in File
      BY <2>9 DEF File
    <3>2. outs \in [1..c -> File]
      BY <2>6, <3>1
    <3>3. QED
      BY <2>3, <3>2
  <2>13. \A n \in 1..c : outs[n].level = level /\ outs[n].data = Data_(n)
    BY <2>6
  <2>14. InKeyOrder(outs)
    <3> SUFFICES ASSUME NEW m \in 1..c, NEW n \in 1..c, m < n,
                        NEW x \in Keys, NEW y \in Keys,
                        Data_(m)[x].ts # 0, Data_(n)[y].ts # 0
                 PROVE  x < y
      BY <2>12, <2>13 DEF InKeyOrder
    <3>1. x \in Chunk(m) /\ y \in Chunk(n)
      BY <1>2, <2>7
    <3>2. m \in Nat /\ n \in Nat /\ m + 1 \in 1..c /\ m < c /\ (m + 1 < n \/ m + 1 = n)
      BY <2>3
    <3>3. x < starts[m + 1] /\ starts[n] <= y
      BY <2>5, <3>1, <3>2
    <3>4. starts[m + 1] \in Nat /\ starts[n] \in Nat /\ x \in Nat /\ y \in Nat
      BY <1>2, <2>2, <2>3, <3>2
    <3>5. starts[m + 1] < starts[n] \/ starts[m + 1] = starts[n]
      BY <2>3, <3>2
    <3>6. QED
      BY <3>3, <3>4, <3>5
  <2>15. QED
    BY <2>9, <2>10, <2>11, <2>12, <2>13, <2>14 DEF outs, OutputsHold
<1>6. QED
  BY <1>4, <1>5

\* Files appended to `file` get new ids, and change no other file.
LEMMA Grow ==
  ASSUME TypeInv, NEW fs \in Seq(File),
         \A n \in 1..Len(fs) : \E k \in Keys : fs[n].data[k].ts # 0,
         file' = file \o fs
  PROVE  /\ file' \in Seq(File) /\ Len(file') = Len(file) + Len(fs)
         /\ Ids \in SUBSET Ids'
         /\ \A i \in Ids : file'[i] = file[i] /\ Held(i)' = Held(i)
         /\ \A i \in Ids' : Held(i)' # {}
         /\ \A s \in Seq(Ids) : s \in Seq(Ids')
         /\ NewIds(fs) \in Seq(Ids') /\ Range(NewIds(fs)) = Ids' \ Ids
         /\ \A i \in Range(NewIds(fs)) : \E n \in 1..Len(fs) : file'[i] = fs[n]
         /\ \A n \in 1..Len(fs) :
              Len(file) + n \in Range(NewIds(fs)) /\ file'[Len(file) + n] = fs[n]
<1> DEFINE c == Len(file)
           d == Len(fs)
<1>1. c \in Nat /\ d \in Nat /\ file \in Seq(File)
  BY DEF TypeInv
<1>2. /\ file' \in Seq(File) /\ Len(file') = c + d
      /\ \A i \in 1..c + d : file'[i] = IF i <= c THEN file[i] ELSE fs[i - c]
  BY <1>1, ConcatProperties
<1>3. Ids = 1..c /\ Ids' = 1..c + d
  BY <1>2 DEF Ids
<1>4. NewIds(fs) = [n \in 1..d |-> c + n]
  BY DEF NewIds
<1> HIDE DEF c, d
<1>5. Ids \in SUBSET Ids'
  BY <1>1, <1>3
<1>6. \A i \in Ids : file'[i] = file[i]
  BY <1>1, <1>2, <1>3
<1>7. \A i \in Ids : Held(i)' = Held(i)
  BY <1>6 DEF Held, At
<1>8. \A n \in 1..d : c + n \in 1..c + d /\ file'[c + n] = fs[n]
  BY <1>1, <1>2
<1>9. \A i \in Ids' : i \notin Ids => i - c \in 1..d /\ c + (i - c) = i
  BY <1>1, <1>3
<1>10. ASSUME NEW i \in Ids' PROVE Held(i)' # {}
  <2>1. CASE i \in Ids
    BY <1>7, <2>1 DEF TypeInv
  <2>2. CASE i \notin Ids
    <3>1. PICK n \in 1..d : file'[i] = fs[n]
      BY <1>8, <1>9, <2>2
    <3>2. QED
      BY <3>1 DEF Held, At, d
  <2>3. QED
    BY <2>1, <2>2
<1>11. \A s \in Seq(Ids) : s \in Seq(Ids')
  BY <1>5, SeqMonotonic
<1>12. NewIds(fs) \in Seq(Ids')
  BY <1>1, <1>3, <1>4, <1>8
<1>13. Range(NewIds(fs)) = {c + n : n \in 1..d}
  BY <1>4 DEF Range
<1>14. Range(NewIds(fs)) \subseteq Ids' \ Ids
  BY <1>1, <1>3, <1>13
<1>15. Ids' \ Ids \subseteq Range(NewIds(fs))
  BY <1>9, <1>13
<1>16. \A i \in Range(NewIds(fs)) : \E n \in 1..d : file'[i] = fs[n]
  BY <1>8, <1>13
<1>17. \A n \in 1..d : c + n \in Range(NewIds(fs)) /\ file'[c + n] = fs[n]
  BY <1>8, <1>13
<1>18. QED
  BY <1>2, <1>5, <1>6, <1>7, <1>10, <1>11, <1>12, <1>14, <1>15, <1>16, <1>17 DEF c, d

-----------------------------------------------------------------------------
(* Type correctness.                                                       *)

\* A step that creates no file keeps the types if it keeps those of the rest.
LEMMA TypeFrame ==
  ASSUME TypeInv, UNCHANGED <<work, file, truth>>,
         disk' \subseteq Ids, marked' \subseteq Ids,
         l0' \in Seq(Ids), l1' \in Seq(Ids), compacting' \in BOOLEAN,
         job' \in [Tasks -> Job], rd' \in [Readers -> Get],
         \A r \in Readers : rd'[r].pc = "read" <=> rd'[r].pin # 0,
         crashes' \in 0..MaxCrashes, errors' \in 0..MaxErrors
  PROVE  TypeInv'
<1>1. Ids' = Ids /\ Job' = Job /\ Get' = Get
  BY DEF Ids, Job, Get
<1>2. \A i \in Ids : Held(i)' = Held(i)
  BY DEF Held, At
<1>3. \A i \in Ids : Held(i)' # {}
  BY <1>2 DEF TypeInv
<1>4. QED
  BY <1>1, <1>3 DEF TypeInv

\* A step that creates files keeps the types if it keeps those of the rest.
LEMMA TypeGrow ==
  ASSUME TypeInv, NEW fs \in Seq(File),
         \A n \in 1..Len(fs) : \E k \in Keys : fs[n].data[k].ts # 0,
         file' = file \o fs, Len(file) + Len(fs) <= work.files,
         UNCHANGED <<work, marked, rd, crashes>>, disk' \subseteq Ids',
         l0' \in Seq(Ids'), l1' \in Seq(Ids'), compacting' \in BOOLEAN,
         job' \in [Tasks -> Job'], errors' \in 0..MaxErrors,
         truth' \in Data, \A k \in Keys : truth'[k].ts <= Len(file')
  PROVE  TypeInv'
<1>1. /\ file' \in Seq(File) /\ Len(file') = Len(file) + Len(fs)
      /\ Ids \in SUBSET Ids' /\ \A i \in Ids' : Held(i)' # {}
  BY Grow
<1>2. Get \in SUBSET Get'
  BY <1>1 DEF Get
<1>3. rd' \in [Readers -> Get']
  BY <1>2 DEF TypeInv
<1>4. marked' \subseteq Ids'
  BY <1>1 DEF TypeInv
<1>5. QED
  BY <1>1, <1>3, <1>4 DEF TypeInv

\* The jobs and gets that stand for none.
LEMMA NoneType ==
  ASSUME TypeInv
  PROVE  NoJob \in Job /\ NoGet \in Get /\ NoGet.pc = "idle" /\ NoGet.pin = 0
  BY Constants, EmptySeq DEF NoJob, NoGet, Job, Get

\* Indices into a level that a get collects.
LEMMA CandidatesType ==
  ASSUME TypeInv, NEW level \in {0, 1}, NEW k \in Keys
  PROVE  /\ Level(level) \in Seq(Ids)
         /\ FindSstable(Level(level), k) \in SUBSET DOMAIN Level(level)
         /\ Candidates(level, k) \in Seq(Nat \ {0})
<1> DEFINE s == Level(level)
           above == {n \in DOMAIN s : Largest(s[n]) >= k}
           idx == IF level = 0 THEN DOMAIN s ELSE FindSstable(s, k)
           S == {n \in idx : KeyMayExist(s[n], k)}
<1>1. s \in Seq(Ids)
  BY DEF Level, TypeInv
<1>2. Candidates(level, k) = Ascending(S)
  BY DEF Candidates
<1>3. FindSstable(s, k) = IF above = {} THEN {}
                          ELSE {n \in {Min(above)} : Smallest(s[n]) <= k}
  BY DEF FindSstable
<1>4. above \in SUBSET DOMAIN s /\ S \in SUBSET idx
  OBVIOUS
<1>5. DOMAIN s = 1..Len(s) /\ Len(s) \in Nat
  BY <1>1
<1> HIDE DEF s, above, S
<1>6. FindSstable(s, k) \in SUBSET DOMAIN s
  <2>1. above # {} => Min(above) \in above
    BY <1>4, <1>5, MinNat
  <2>2. QED
    BY <1>3, <1>4, <2>1
<1>7. S \in SUBSET (1..Len(s))
  BY <1>4, <1>5, <1>6
<1>8. S \in SUBSET (Nat \ {0}) /\ IsFiniteSet(S)
  <2>1. IsFiniteSet(1..Len(s))
    BY <1>5, FS_Interval
  <2>2. IsFiniteSet(S)
    BY <1>7, <2>1, FS_Subset
  <2>3. QED
    BY <1>5, <1>7, <2>2
<1>9. Cardinality(S) \in Nat /\ Ascending(S) \in [1..Cardinality(S) -> S]
  BY <1>8, AscendingFacts
<1>10. Ascending(S) \in Seq(S)
  BY <1>9
<1>11. QED
  BY <1>1, <1>2, <1>6, <1>8, <1>10, SeqMonotonic DEF s

\* The steps of a get keep the types.
LEMMA TypeGets ==
  ASSUME TypeInv, NEW r \in Readers, NEW k \in Keys,
         GetStart(r, k) \/ GetPin(r) \/ GetRead(r) \/ GetNextLevel(r)
  PROVE  TypeInv'
<1>1. /\ UNCHANGED <<work, file, truth, disk, marked, l0, l1, compacting, job,
                     crashes, errors>>
  BY DEF GetStart, GetPin, GetRead, GetNextLevel, bounds
<1>2. /\ rd \in [Readers -> Get] /\ rd[r] \in Get
      /\ rd[r].pc = "read" <=> rd[r].pin # 0
  BY DEF TypeInv
<1>3. ASSUME NEW g \in Get, rd' = [rd EXCEPT ![r] = g],
             g.pc = "read" <=> g.pin # 0
      PROVE  TypeInv'
  <2>1. rd' \in [Readers -> Get]
    BY <1>2, <1>3
  <2>2. \A q \in Readers : rd'[q].pc = "read" <=> rd'[q].pin # 0
    BY <1>2, <1>3 DEF TypeInv
  <2>3. /\ disk' \subseteq Ids /\ marked' \subseteq Ids
        /\ l0' \in Seq(Ids) /\ l1' \in Seq(Ids) /\ compacting' \in BOOLEAN
        /\ job' \in [Tasks -> Job]
        /\ crashes' \in 0..MaxCrashes /\ errors' \in 0..MaxErrors
    BY <1>1 DEF TypeInv
  <2>4. QED
    BY <1>1, <2>1, <2>2, <2>3, TypeFrame
<1>4. CASE GetStart(r, k)
  <2> DEFINE g == [NoGet EXCEPT !.pc = "probe", !.key = k,
                     !.cands = Candidates(0, k), !.floor = truth[k]]
  <2>1. rd' = [rd EXCEPT ![r] = g]
    BY <1>4 DEF GetStart
  <2>2. Candidates(0, k) \in Seq(Nat \ {0}) /\ truth[k] \in Entry
    BY CandidatesType DEF TypeInv, Data
  <2>3. g \in Get /\ g.pc = "probe" /\ g.pin = 0
    BY <2>2, Constants DEF NoGet, Get
  <2>4. QED
    BY <1>3, <2>1, <2>3
<1>5. CASE GetPin(r)
  <2> DEFINE n == Head(rd[r].cands)
             s == Level(rd[r].level)
             g == [rd[r] EXCEPT !.cands = Tail(rd[r].cands),
                                !.pin = IF n <= Len(s) THEN s[n] ELSE 0,
                                !.pc = IF n <= Len(s) THEN "read" ELSE "probe"]
  <2>1. rd' = [rd EXCEPT ![r] = g] /\ rd[r].cands # <<>>
    BY <1>5, <1>2 DEF GetPin
  <2>2. /\ rd[r].cands \in Seq(Nat \ {0}) /\ rd[r].level \in {0, 1}
        /\ rd[r].key \in Keys
    BY <1>2 DEF Get
  <2>3. n \in Nat \ {0} /\ Tail(rd[r].cands) \in Seq(Nat \ {0})
    BY <2>1, <2>2, HeadTailProperties
  <2>4. s \in Seq(Ids) /\ Len(s) \in Nat
    BY <2>2, CandidatesType
  <2>5. ASSUME n <= Len(s) PROVE s[n] \in Ids /\ s[n] # 0
    <3>1. n \in 1..Len(s)
      BY <2>3, <2>4, <2>5
    <3>2. s[n] \in Ids
      BY <2>4, <3>1, ElementOfSeq
    <3>3. QED
      BY <3>2 DEF Ids
  <2> HIDE DEF n, s
  <2>6. g \in Get /\ (g.pc = "read" <=> g.pin # 0)
    BY <1>2, <2>3, <2>5 DEF Get
  <2>7. QED
    BY <1>3, <2>1, <2>6
<1>6. CASE GetRead(r)
  <2> DEFINE hit == At(rd[r].pin, rd[r].key)
             g == [rd[r] EXCEPT !.pin = 0,
                     !.best = IF hit.ts >= rd[r].best.ts THEN hit ELSE rd[r].best,
                     !.pc = IF rd[r].level = 1 /\ hit.ts # 0
                            THEN "done" ELSE "probe"]
  <2>1. rd' = [rd EXCEPT ![r] = g] /\ rd[r].pc = "read"
    BY <1>6, <1>2 DEF GetRead
  <2>2. rd[r].pin \in Ids /\ rd[r].key \in Keys
    BY <1>2, <2>1 DEF Get
  <2>3. hit \in Entry
    BY <2>2, EntryType
  <2> HIDE DEF hit
  <2>4. g \in Get /\ g.pc # "read" /\ g.pin = 0
    BY <1>2, <2>3 DEF Get
  <2>5. QED
    BY <1>3, <2>1, <2>4
<1>7. CASE GetNextLevel(r)
  <2> DEFINE g == IF rd[r].best.ts # 0 \/ rd[r].level = 1
                  THEN [rd[r] EXCEPT !.pc = "done"]
                  ELSE [rd[r] EXCEPT !.level = 1,
                                     !.cands = Candidates(1, rd[r].key)]
  <2>1. rd' = [rd EXCEPT ![r] = g] /\ rd[r].pc = "probe"
    BY <1>7, <1>2 DEF GetNextLevel
  <2>2. rd[r].key \in Keys
    BY <1>2 DEF Get
  <2>3. Candidates(1, rd[r].key) \in Seq(Nat \ {0})
    BY <2>2, CandidatesType
  <2>4. g \in Get /\ g.pc # "read" /\ g.pin = 0
    BY <1>2, <2>1, <2>3 DEF Get
  <2>5. QED
    BY <1>3, <2>1, <2>4
<1>8. QED
  BY <1>4, <1>5, <1>6, <1>7

\* The job of a task.
LEMMA JobType ==
  ASSUME TypeInv, NEW t \in Tasks
  PROVE  /\ job[t] \in Job /\ job[t].level \in {0, 1}
         /\ job[t].inputs \in Seq(Ids) /\ job[t].rest \in Seq(Ids)
         /\ job[t].outs \in Seq(Ids)
         /\ Inputs(t) \in SUBSET Ids /\ Rest(t) \in SUBSET Ids
         /\ Outs(t) \in SUBSET Ids
<1>1. job[t] \in Job
  BY DEF TypeInv
<1>2. /\ job[t].level \in {0, 1} /\ job[t].inputs \in Seq(Ids)
      /\ job[t].rest \in Seq(Ids) /\ job[t].outs \in Seq(Ids)
  BY <1>1 DEF Job
<1>3. QED
  BY <1>1, <1>2, RangeOfSeq DEF Inputs, Rest, Outs

\* A list without some of its members.
LEMMA ConcurrentFacts ==
  ASSUME TypeInv, NEW t \in Tasks, NEW s \in Seq(Ids)
  PROVE  /\ Concurrent(t, s) \in Seq(Ids)
         /\ Range(Concurrent(t, s)) = Range(s) \ (Inputs(t) \cup Rest(t) \cup marked)
  BY WithoutFacts DEF Concurrent, Inputs, Rest

\* What AutoSnapshot selects of a level.
LEMMA SelectedFacts ==
  ASSUME NEW s \in Seq(Ids), NEW g \in Selected(s)
  PROVE  /\ g \in Seq(Ids) /\ Range(g) \in SUBSET Range(s)
         /\ LeveledOnly => g = s
         /\ Without(s, Range(g)) \in Seq(Ids)
         /\ Range(Without(s, Range(g))) = Range(s) \ Range(g)
<1>1. CASE LeveledOnly
  <2>1. g = s
    BY <1>1 DEF Selected
  <2>2. QED
    BY <2>1, WithoutFacts
<1>2. CASE ~LeveledOnly
  <2>1. PICK P \in SUBSET DOMAIN s : g = Pick(s, P)
    BY <1>2 DEF Selected
  <2>2. g \in Seq(Ids) /\ Range(g) = {s[n] : n \in P}
    BY <2>1, PickFacts
  <2>3. Range(g) \in SUBSET Range(s)
    BY <2>2 DEF Range
  <2>4. QED
    BY <1>2, <2>2, <2>3, WithoutFacts
<1>3. QED
  BY <1>1, <1>2

\* The steps of a compaction that write no file keep the types.
LEMMA TypeTasks ==
  ASSUME TypeInv, NEW t \in Tasks, NEW level \in {0, 1},
         \/ AutoSnapshot(t, level) \/ ManualSnapshot(t) \/ MergeAborts(t)
         \/ Install(t) \/ InstallTimesOut(t) \/ Mark(t) \/ Unlink(t) \/ Reclaimed(t)
  PROVE  TypeInv'
<1>1. UNCHANGED <<work, file, truth, rd, crashes>>
  BY DEF AutoSnapshot, ManualSnapshot, MergeAborts, Install, InstallTimesOut,
         Mark, Unlink, Reclaimed, bounds
<1>2. /\ job \in [Tasks -> Job] /\ job[t] \in Job
      /\ disk \subseteq Ids /\ marked \subseteq Ids
      /\ l0 \in Seq(Ids) /\ l1 \in Seq(Ids) /\ compacting \in BOOLEAN
      /\ crashes \in 0..MaxCrashes /\ errors \in 0..MaxErrors
  BY DEF TypeInv
<1>3. ASSUME NEW j \in Job, job' = [job EXCEPT ![t] = j],
             disk' \subseteq Ids, marked' \subseteq Ids,
             l0' \in Seq(Ids), l1' \in Seq(Ids), compacting' \in BOOLEAN,
             errors' \in 0..MaxErrors
      PROVE  TypeInv'
  <2>1. job' \in [Tasks -> Job]
    BY <1>2, <1>3
  <2>2. /\ rd' \in [Readers -> Get] /\ crashes' \in 0..MaxCrashes
        /\ \A r \in Readers : rd'[r].pc = "read" <=> rd'[r].pin # 0
    BY <1>1 DEF TypeInv
  <2>3. QED
    BY <1>1, <1>3, <2>1, <2>2, TypeFrame
<1>4. NoJob \in Job
  BY NoneType
<1>5. CASE AutoSnapshot(t, level)
  <2> DEFINE s == Level(level)
             j(g) == [pc |-> "merge", level |-> level, inputs |-> g,
                      outs |-> <<>>, rest |-> Without(s, Range(g))]
  <2>1. PICK g \in Selected(s) : job' = [job EXCEPT ![t] = j(g)]
    BY <1>5 DEF AutoSnapshot
  <2>2. s \in Seq(Ids)
    BY <1>2 DEF Level
  <2>3. g \in Seq(Ids) /\ Without(s, Range(g)) \in Seq(Ids) /\ <<>> \in Seq(Ids)
    BY <2>2, SelectedFacts, EmptySeq
  <2>4. j(g) \in Job
    BY <2>3 DEF Job
  <2>5. UNCHANGED <<disk, marked, l0, l1, errors>> /\ compacting' = TRUE
    BY <1>5 DEF AutoSnapshot, bounds
  <2>6. QED
    BY <1>2, <1>3, <2>1, <2>4, <2>5
<1>6. CASE ManualSnapshot(t)
  <2> DEFINE inputs == Without(l0 \o l1, marked)
             j == [pc |-> "merge", level |-> 1, inputs |-> inputs,
                   outs |-> <<>>, rest |-> <<>>]
  <2>1. job' = [job EXCEPT ![t] = j]
    BY <1>6 DEF ManualSnapshot
  <2>2. l0 \o l1 \in Seq(Ids) /\ <<>> \in Seq(Ids)
    BY <1>2, ConcatProperties, EmptySeq
  <2>3. inputs \in Seq(Ids)
    BY <2>2, WithoutFacts
  <2>4. j \in Job
    BY <2>2, <2>3 DEF Job
  <2>5. UNCHANGED <<disk, marked, l0, l1, compacting, errors>>
    BY <1>6 DEF ManualSnapshot, bounds
  <2>6. QED
    BY <1>2, <1>3, <1>6, <2>1, <2>4, <2>5
<1>7. CASE MergeAborts(t) \/ InstallTimesOut(t)
  <2>1. job' = [job EXCEPT ![t] = NoJob] /\ compacting' \in BOOLEAN
    BY <1>2, <1>7 DEF MergeAborts, InstallTimesOut, Abandon
  <2>2. UNCHANGED <<disk, marked, l0, l1>>
    BY <1>7 DEF MergeAborts, InstallTimesOut
  <2>3. errors' \in 0..MaxErrors
    <3>1. CASE MergeAborts(t)
      BY <1>2, <3>1 DEF MergeAborts, bounds
    <3>2. CASE InstallTimesOut(t)
      BY <1>2, <3>2, Constants DEF InstallTimesOut
    <3>3. QED
      BY <1>7, <3>1, <3>2
  <2>4. QED
    BY <1>2, <1>3, <1>4, <2>1, <2>2, <2>3
<1>8. CASE Install(t)
  <2> DEFINE j == [job[t] EXCEPT !.pc = "mark"]
  <2>1. job' = [job EXCEPT ![t] = j] /\ UNCHANGED <<disk, marked, errors>>
    BY <1>8, <1>2 DEF Install, bounds
  <2>2. j \in Job
    BY <1>2 DEF Job
  <2>3. /\ job[t].rest \in Seq(Ids) /\ job[t].outs \in Seq(Ids)
        /\ Concurrent(t, l0) \in Seq(Ids) /\ Concurrent(t, l1) \in Seq(Ids)
    BY <1>2, JobType, ConcurrentFacts
  <2>4. /\ job[t].rest \o job[t].outs \in Seq(Ids)
        /\ job[t].outs \o Concurrent(t, l1) \in Seq(Ids)
    BY <2>3, ConcatProperties
  <2>5. /\ job[t].rest \o job[t].outs \o Concurrent(t, l0) \in Seq(Ids)
        /\ job[t].rest \o job[t].outs \o Concurrent(t, l1) \in Seq(Ids)
    BY <2>3, <2>4, ConcatProperties
  <2>6. SortLeveled(job[t].outs \o Concurrent(t, l1)) \in Seq(Ids)
    BY <2>4, SortFacts
  <2>7. l0' \in Seq(Ids) /\ l1' \in Seq(Ids) /\ compacting' \in BOOLEAN
    BY <1>2, <1>8, <2>3, <2>5, <2>6 DEF Install
  <2>8. QED
    BY <1>2, <1>3, <2>1, <2>2, <2>7
<1>9. CASE Mark(t)
  <2> DEFINE j == [job[t] EXCEPT !.pc = "unlink"]
  <2>1. /\ job' = [job EXCEPT ![t] = j] /\ marked' = marked \cup Inputs(t)
        /\ UNCHANGED <<disk, l0, l1, compacting, errors>>
    BY <1>9, <1>2 DEF Mark, Inputs, bounds
  <2>2. j \in Job /\ marked' \subseteq Ids
    BY <1>2, <2>1, JobType DEF Job
  <2>3. QED
    BY <1>2, <1>3, <2>1, <2>2
<1>10. CASE Unlink(t)
  <2> DEFINE j == [job[t] EXCEPT !.inputs = Tail(job[t].inputs)]
  <2>1. /\ job' = [job EXCEPT ![t] = j] /\ disk' \subseteq disk
        /\ UNCHANGED <<marked, l0, l1, compacting, errors>>
    BY <1>10, <1>2 DEF Unlink, bounds
  <2>2. Tail(job[t].inputs) \in Seq(Ids)
    BY <1>10, JobType, HeadTailProperties DEF Unlink
  <2>3. j \in Job
    BY <1>2, <2>2 DEF Job
  <2>4. QED
    BY <1>2, <1>3, <2>1, <2>3
<1>11. CASE Reclaimed(t)
  <2>1. /\ job' = [job EXCEPT ![t] = NoJob]
        /\ UNCHANGED <<disk, marked, l0, l1, compacting, errors>>
    BY <1>11 DEF Reclaimed, bounds
  <2>2. QED
    BY <1>2, <1>3, <1>4, <2>1
<1>12. QED
  BY <1>5, <1>6, <1>7, <1>8, <1>9, <1>10, <1>11

\* The entries a flush writes.
FlushTs == 1 + Max({0} \cup {truth[k].ts : k \in Keys})
FlushData(puts, dels) ==
  [k \in Keys |-> IF k \in puts \cup dels
                  THEN [ts |-> FlushTs, del |-> k \in dels] ELSE NoEntry]

\* A flush appends one file; its stamp is above all that were flushed.
LEMMA FlushFacts ==
  ASSUME TypeInv, NEW puts \in SUBSET Keys, NEW dels \in SUBSET Keys,
         Flush(puts, dels)
  PROVE  LET new == FlushData(puts, dels)
             fs == <<[level |-> 0, data |-> new]>>
         IN  /\ FlushTs \in Nat /\ FlushTs >= 1 /\ FlushTs <= Len(file) + 1
             /\ \A k \in Keys : truth[k].ts < FlushTs
             /\ new \in Data /\ fs \in Seq(File) /\ Len(fs) = 1
             /\ \A n \in 1..Len(fs) : \E k \in Keys : fs[n].data[k].ts # 0
             /\ file' = file \o fs /\ Len(file) + Len(fs) <= work.files
             /\ truth' = [k \in Keys |->
                            IF k \in puts \cup dels THEN new[k] ELSE truth[k]]
             /\ l0' = Append(l0, Len(file) + 1) /\ disk' = disk \cup {Len(file) + 1}
<1> DEFINE stamps == {0} \cup {truth[k].ts : k \in Keys}
           new == FlushData(puts, dels)
           f == [level |-> 0, data |-> new]
<1>1. \A k \in Keys : truth[k].ts \in Nat /\ truth[k].ts <= Len(file)
  BY DEF TypeInv, Data, Entry
<1>2. Len(file) \in Nat /\ work.files \in Nat /\ work.files <= MaxFiles
  BY Constants DEF TypeInv
<1>3. stamps \in SUBSET Nat /\ stamps # {} /\ \A x \in stamps : x <= Len(file)
  BY <1>1, <1>2
<1>4. 0 \in stamps /\ \A k \in Keys : truth[k].ts \in stamps
  OBVIOUS
<1>5. FlushTs = 1 + Max(stamps)
  BY DEF FlushTs
<1> HIDE DEF stamps
<1>6. Max(stamps) \in stamps /\ \A x \in stamps : x <= Max(stamps)
  BY <1>2, <1>3, MaxNat
<1>7. /\ FlushTs \in Nat /\ FlushTs >= 1 /\ FlushTs <= Len(file) + 1
      /\ \A k \in Keys : truth[k].ts < FlushTs
  <2>1. PICK m \in Nat : m = Max(stamps) /\ m <= Len(file)
    BY <1>3, <1>6
  <2>2. \A k \in Keys : truth[k].ts <= m
    BY <1>4, <1>6, <2>1
  <2>3. FlushTs = 1 + m
    BY <1>5, <2>1
  <2>4. QED
    BY <1>1, <1>2, <2>1, <2>2, <2>3
<1>9. /\ Len(file) < work.files /\ puts \cup dels # {}
      /\ file' = Append(file, f)
      /\ truth' = [k \in Keys |-> IF new[k].ts # 0 THEN new[k] ELSE truth[k]]
      /\ l0' = Append(l0, Len(file) + 1) /\ disk' = disk \cup {Len(file) + 1}
  BY DEF Flush, FlushData, FlushTs
<1>10. FlushTs \in 0..MaxFiles
  BY <1>2, <1>7, <1>9, Constants
<1>11. \A k \in Keys : new[k] = IF k \in puts \cup dels
                               THEN [ts |-> FlushTs, del |-> k \in dels] ELSE NoEntry
  BY DEF FlushData
<1>12. ASSUME NEW k \in Keys
       PROVE  new[k] \in Entry /\ (new[k].ts # 0 <=> k \in puts \cup dels)
  <2>1. [ts |-> FlushTs, del |-> k \in dels] \in Entry
    BY <1>10 DEF Entry
  <2>2. NoEntry \in Entry /\ NoEntry.ts = 0
    BY Constants DEF NoEntry
  <2>3. FlushTs # 0
    BY <1>7
  <2>4. QED
    BY <1>11, <2>1, <2>2, <2>3
<1>13. new \in Data
  BY <1>12 DEF Data, FlushData
<1> HIDE DEF new
<1>14. f \in File /\ <<f>> \in Seq(File) /\ Len(<<f>>) = 1
  BY <1>13 DEF File
<1>15. file' = file \o <<f>>
  BY <1>9, <1>14, AppendIsConcat DEF TypeInv
<1>16. \E k \in Keys : new[k].ts # 0
  BY <1>9, <1>12
<1>17. \A n \in 1..Len(<<f>>) : <<f>>[n] = f
  OBVIOUS
<1>18. \A n \in 1..Len(<<f>>) : \E k \in Keys : <<f>>[n].data[k].ts # 0
  BY <1>16, <1>17
<1>19. truth' = [k \in Keys |-> IF k \in puts \cup dels THEN new[k] ELSE truth[k]]
  BY <1>9, <1>12
<1>20. Len(file) + Len(<<f>>) <= work.files
  BY <1>2, <1>9, <1>14
<1>21. QED
  BY <1>7, <1>9, <1>13, <1>14, <1>15, <1>18, <1>19, <1>20 DEF new

LEMMA TypeFlush ==
  ASSUME TypeInv, NEW puts \in SUBSET Keys, NEW dels \in SUBSET Keys,
         Flush(puts, dels)
  PROVE  TypeInv'
<1> DEFINE new == FlushData(puts, dels)
           fs == <<[level |-> 0, data |-> new]>>
<1>1. /\ FlushTs \in Nat /\ FlushTs <= Len(file) + 1
      /\ new \in Data /\ fs \in Seq(File) /\ Len(fs) = 1
      /\ \A n \in 1..Len(fs) : \E k \in Keys : fs[n].data[k].ts # 0
      /\ file' = file \o fs /\ Len(file) + Len(fs) <= work.files
      /\ truth' = [k \in Keys |-> IF k \in puts \cup dels THEN new[k] ELSE truth[k]]
      /\ l0' = Append(l0, Len(file) + 1) /\ disk' = disk \cup {Len(file) + 1}
  BY FlushFacts
<1>2. \A k \in Keys : k \in puts \cup dels => new[k].ts = FlushTs
  BY DEF FlushData
<1> HIDE DEF new, fs
<1>3. /\ Len(file') = Len(file) + 1 /\ Ids \in SUBSET Ids'
      /\ \A s \in Seq(Ids) : s \in Seq(Ids')
  BY <1>1, Grow
<1>4. Len(file) \in Nat /\ Len(file) + 1 \in Ids'
  BY <1>3 DEF Ids, TypeInv
<1>5. disk' \subseteq Ids'
  BY <1>1, <1>3, <1>4 DEF TypeInv
<1>6. l0' \in Seq(Ids') /\ l1' \in Seq(Ids')
  <2>1. l0 \in Seq(Ids') /\ l1 \in Seq(Ids')
    BY <1>3 DEF TypeInv
  <2>2. Append(l0, Len(file) + 1) \in Seq(Ids')
    BY <1>4, <2>1, AppendProperties
  <2>3. l1' = l1
    BY DEF Flush
  <2>4. QED
    BY <1>1, <2>1, <2>2, <2>3
<1>7. job' \in [Tasks -> Job']
  <2>1. Job \in SUBSET Job'
    BY <1>3 DEF Job
  <2>2. job' = job
    BY DEF Flush
  <2>3. QED
    BY <2>1, <2>2 DEF TypeInv
<1>8. truth' \in Data
  BY <1>1 DEF TypeInv, Data
<1>9. ASSUME NEW k \in Keys PROVE truth'[k].ts <= Len(file')
  <2>1. truth[k].ts \in Nat /\ truth[k].ts <= Len(file)
    BY DEF TypeInv, Data, Entry
  <2>2. CASE k \in puts \cup dels
    BY <1>1, <1>2, <1>3, <2>2
  <2>3. CASE k \notin puts \cup dels
    BY <1>1, <1>3, <1>4, <2>1, <2>3
  <2>4. QED
    BY <2>2, <2>3
<1>10. /\ UNCHANGED <<work, marked, rd, crashes, errors, compacting>>
  BY DEF Flush, bounds
<1>11. compacting' \in BOOLEAN /\ errors' \in 0..MaxErrors
  BY <1>10 DEF TypeInv
<1>12. QED
  BY <1>1, <1>5, <1>6, <1>7, <1>8, <1>9, <1>10, <1>11, TypeGrow

\* The files a merge appends: its outputs, or the first of them.
MergeWrites(t, cuts, fs) ==
  /\ fs \in Seq(File)
  /\ \A n \in 1..Len(fs) :
       /\ fs[n].level = job[t].level
       /\ \E k \in Keys : fs[n].data[k].ts # 0
       /\ \A k \in Keys : fs[n].data[k] \in {NoEntry, Deduplicate(Inputs(t), k)}
  /\ file' = file \o fs /\ Len(file) + Len(fs) <= work.files
  /\ disk' = disk \cup Range(NewIds(fs))
  /\ Merge(t, cuts) =>
       /\ job' = [job EXCEPT ![t] = [job[t] EXCEPT !.pc = "install",
                                                   !.outs = NewIds(fs)]]
       /\ \A k \in Keys : Deduplicate(Inputs(t), k).ts # 0 =>
            \E n \in 1..Len(fs) : fs[n].data[k] = Deduplicate(Inputs(t), k)
       /\ InKeyOrder(fs)

LEMMA MergeFacts ==
  ASSUME TypeInv, NEW t \in Tasks, NEW cuts,
         Merge(t, cuts) \/ MergeFails(t, cuts)
  PROVE  \E fs : MergeWrites(t, cuts, fs)
<1> DEFINE outs == Outputs(job[t].level, Inputs(t), cuts)
<1>1. /\ outs \in Seq(File)
      /\ \A n \in 1..Len(outs) :
           /\ outs[n].level = job[t].level
           /\ \E k \in Keys : outs[n].data[k].ts # 0
           /\ \A k \in Keys : outs[n].data[k] \in {NoEntry, Deduplicate(Inputs(t), k)}
      /\ \A k \in Keys : Deduplicate(Inputs(t), k).ts # 0 =>
           \E n \in 1..Len(outs) : outs[n].data[k] = Deduplicate(Inputs(t), k)
      /\ InKeyOrder(outs)
  <2>1. Inputs(t) \in SUBSET Ids /\ job[t].level \in {0, 1}
    BY JobType
  <2>2. OutputsHold(outs, job[t].level, Inputs(t))
    BY <2>1, OutputsFacts
  <2> HIDE DEF outs
  <2>3. QED
    BY <2>2 DEF OutputsHold
<1>2. CASE Merge(t, cuts)
  <2>1. /\ file' = file \o outs /\ Len(file) + Len(outs) <= work.files
        /\ disk' = disk \cup Range(NewIds(outs))
        /\ job' = [job EXCEPT ![t].pc = "install", ![t].outs = NewIds(outs)]
    BY <1>2 DEF Merge, Inputs
  <2> HIDE DEF outs
  <2>2. job' = [job EXCEPT ![t] = [job[t] EXCEPT !.pc = "install",
                                                 !.outs = NewIds(outs)]]
    BY <2>1 DEF TypeInv
  <2>3. MergeWrites(t, cuts, outs)
    BY <1>1, <2>1, <2>2 DEF MergeWrites
  <2>4. QED
    BY <2>3
<1>3. CASE MergeFails(t, cuts)
  <2>1. PICK n \in 0..Len(outs) :
          /\ Len(file) + n <= work.files
          /\ file' = file \o SubSeq(outs, 1, n)
          /\ disk' = disk \cup Range(NewIds(SubSeq(outs, 1, n)))
    BY <1>3 DEF MergeFails, Inputs
  <2>2. ~Merge(t, cuts)
    <3>1. job[t].pc = "merge" /\ job' = [job EXCEPT ![t] = NoJob]
      BY <1>3 DEF MergeFails, Abandon
    <3>2. job'[t].pc = "idle"
      BY <3>1 DEF TypeInv, NoJob
    <3>3. ASSUME Merge(t, cuts) PROVE job'[t].pc = "install"
      <4>1. job[t] \in Job
        BY JobType
      <4>2. job' = [job EXCEPT ![t].pc = "install", ![t].outs = NewIds(outs)]
        BY <3>3 DEF Merge, Inputs
      <4> HIDE DEF outs
      <4>3. QED
        BY <4>1, <4>2 DEF TypeInv, Job
    <3>4. QED
      BY <3>2, <3>3
  <2> HIDE DEF outs
  <2> DEFINE fs == SubSeq(outs, 1, n)
  <2>3. n \in Nat /\ n <= Len(outs) /\ Len(outs) \in Nat
    BY <1>1, <2>1
  <2>4. \A i \in 1..n : i \in 1..Len(outs) /\ outs[i] \in File
    BY <1>1, <2>3, ElementOfSeq
  <2>5. fs \in Seq(File) /\ Len(fs) = n /\ \A i \in 1..n : fs[i] = outs[i]
    <3>1. \A i \in 1..n : outs[i] \in File
      BY <2>4
    <3>2. /\ fs \in Seq(File) /\ Len(fs) = IF 1 <= n THEN n - 1 + 1 ELSE 0
          /\ \A i \in 1..n - 1 + 1 : fs[i] = outs[1 + i - 1]
      BY <2>3, <3>1, SubSeqProperties
    <3> HIDE DEF fs
    <3>3. n - 1 + 1 = n /\ (~(1 <= n) => n = 0)
      BY <2>3
    <3>4. \A i \in 1..n : 1 + i - 1 = i
      BY <2>3
    <3>5. QED
      BY <3>2, <3>3, <3>4
  <2>6. \A i \in 1..n :
          /\ fs[i].level = job[t].level
          /\ \E k \in Keys : fs[i].data[k].ts # 0
          /\ \A k \in Keys : fs[i].data[k] \in {NoEntry, Deduplicate(Inputs(t), k)}
    BY <1>1, <2>4, <2>5
  <2>7. file' = file \o fs /\ disk' = disk \cup Range(NewIds(fs))
    BY <2>1
  <2> HIDE DEF fs
  <2>8. Len(file) + Len(fs) <= work.files
    BY <2>1, <2>5
  <2>9. MergeWrites(t, cuts, fs)
    BY <2>2, <2>5, <2>6, <2>7, <2>8 DEF MergeWrites
  <2>10. QED
    BY <2>9
<1>4. QED
  BY <1>2, <1>3

LEMMA TypeMerge ==
  ASSUME TypeInv, NEW t \in Tasks, NEW cuts,
         Merge(t, cuts) \/ MergeFails(t, cuts)
  PROVE  TypeInv'
<1> PICK fs : MergeWrites(t, cuts, fs)
  BY MergeFacts
<1>1. /\ fs \in Seq(File)
      /\ \A n \in 1..Len(fs) : \E k \in Keys : fs[n].data[k].ts # 0
      /\ file' = file \o fs /\ Len(file) + Len(fs) <= work.files
      /\ disk' = disk \cup Range(NewIds(fs))
      /\ Merge(t, cuts) =>
           job' = [job EXCEPT ![t] = [job[t] EXCEPT !.pc = "install",
                                                    !.outs = NewIds(fs)]]
  BY DEF MergeWrites
<1>2. /\ Len(file') = Len(file) + Len(fs) /\ Ids \in SUBSET Ids'
      /\ \A s \in Seq(Ids) : s \in Seq(Ids')
      /\ NewIds(fs) \in Seq(Ids') /\ Range(NewIds(fs)) = Ids' \ Ids
  BY <1>1, Grow
<1>3. disk' \subseteq Ids'
  BY <1>1, <1>2 DEF TypeInv
<1>4. /\ UNCHANGED <<work, marked, rd, crashes, l0, l1, truth>>
      /\ compacting' \in BOOLEAN
  BY DEF Merge, MergeFails, Abandon, bounds, TypeInv
<1>5. errors' \in 0..MaxErrors
  <2>1. errors \in 0..MaxErrors
    BY DEF TypeInv
  <2>2. CASE Merge(t, cuts)
    BY <2>1, <2>2 DEF Merge, bounds
  <2>3. CASE MergeFails(t, cuts)
    BY <2>1, <2>3, Constants DEF MergeFails
  <2>4. QED
    BY <2>2, <2>3
<1>6. l0' \in Seq(Ids') /\ l1' \in Seq(Ids')
  BY <1>2, <1>4 DEF TypeInv
<1>7. truth' \in Data /\ \A k \in Keys : truth'[k].ts <= Len(file')
  <2>1. Len(file) \in Nat /\ Len(fs) \in Nat
    BY DEF TypeInv
  <2>2. \A k \in Keys : truth[k].ts \in Nat /\ truth[k].ts <= Len(file)
    BY DEF TypeInv, Data, Entry
  <2>3. QED
    BY <1>2, <1>4, <2>1, <2>2 DEF TypeInv
<1>8. job' \in [Tasks -> Job']
  <2>1. Job \in SUBSET Job'
    BY <1>2 DEF Job
  <2>2. job \in [Tasks -> Job'] /\ job[t] \in Job'
    BY <2>1 DEF TypeInv
  <2>3. CASE Merge(t, cuts)
    <3>1. [job[t] EXCEPT !.pc = "install", !.outs = NewIds(fs)] \in Job'
      BY <1>2, <2>2 DEF Job
    <3>2. QED
      BY <1>1, <2>2, <2>3, <3>1
  <2>4. CASE MergeFails(t, cuts)
    <3>1. NoJob \in Job'
      BY <2>1, NoneType
    <3>2. QED
      BY <2>2, <2>4, <3>1 DEF MergeFails, Abandon
  <2>5. QED
    BY <2>3, <2>4
<1>9. QED
  BY <1>1, <1>3, <1>4, <1>5, <1>6, <1>7, <1>8, TypeGrow

\* A restart loads the files of data_dir, each into its level.
LEMMA RestartFacts ==
  ASSUME TypeInv, CrashRestart
  PROVE  /\ l0' \in Seq(Ids) /\ Range(l0') = OnDisk(0)
         /\ l1' \in Seq(Ids) /\ Range(l1') = OnDisk(1)
<1>1. OnDisk(0) \in SUBSET Ids /\ OnDisk(1) \in SUBSET Ids
  BY DEF OnDisk, TypeInv
<1>2. IsFiniteSet(OnDisk(0)) /\ IsFiniteSet(OnDisk(1))
  <2>1. Len(file) \in Nat
    BY DEF TypeInv
  <2>2. IsFiniteSet(Ids)
    BY <2>1, FS_Interval DEF Ids
  <2>3. QED
    BY <1>1, <2>2, FS_Subset
<1>3. l0' \in Seq(OnDisk(0)) /\ Range(l0') = OnDisk(0)
  <2>1. l0' \in SetToSeqs(OnDisk(0))
    BY DEF CrashRestart
  <2>2. QED
    BY <1>2, <2>1, SetToSeqsFacts
<1>4. PICK s \in SetToSeqs(OnDisk(1)) : l1' = SortLeveled(s)
  BY DEF CrashRestart
<1>5. s \in Seq(OnDisk(1)) /\ Range(s) = OnDisk(1)
  BY <1>2, SetToSeqsFacts
<1>6. s \in Seq(Ids) /\ l0' \in Seq(Ids)
  BY <1>1, <1>3, <1>5, SeqMonotonic
<1>7. SortLeveled(s) \in Seq(Ids) /\ Range(SortLeveled(s)) = Range(s)
  BY <1>6, SortFacts
<1>8. QED
  BY <1>3, <1>4, <1>5, <1>6, <1>7

LEMMA TypeRestart ==
  ASSUME TypeInv, CrashRestart
  PROVE  TypeInv'
<1>1. l0' \in Seq(Ids) /\ l1' \in Seq(Ids)
  BY RestartFacts
<1>2. /\ UNCHANGED <<work, file, truth, disk, errors>>
      /\ marked' = {} /\ compacting' = FALSE
      /\ job' = [t \in Tasks |-> NoJob] /\ rd' = [r \in Readers |-> NoGet]
  BY DEF CrashRestart
<1>3. job' \in [Tasks -> Job] /\ rd' \in [Readers -> Get]
  BY <1>2, NoneType
<1>4. \A r \in Readers : rd'[r].pc = "read" <=> rd'[r].pin # 0
  BY <1>2, NoneType
<1>5. crashes' \in 0..MaxCrashes
  BY Constants DEF CrashRestart, TypeInv
<1>6. disk' \subseteq Ids /\ marked' \subseteq Ids /\ errors' \in 0..MaxErrors
  BY <1>2 DEF TypeInv
<1>7. QED
  BY <1>1, <1>2, <1>3, <1>4, <1>5, <1>6, TypeFrame

LEMMA TypeInit ==
  ASSUME Init PROVE TypeInv
<1>1. file = <<>> /\ Len(file) = 0 /\ Ids = {} /\ file \in Seq(File)
  BY EmptySeq DEF Init, Ids
<1>2. job \in [Tasks -> Job] /\ rd \in [Readers -> Get]
  BY Constants, EmptySeq DEF Init, NoJob, NoGet, Job, Get
<1>3. \A r \in Readers : rd[r].pc = "read" <=> rd[r].pin # 0
  BY DEF Init, NoGet
<1>4. truth \in Data /\ \A k \in Keys : truth[k].ts = 0
  BY Constants DEF Init, Data, NoEntry
<1>5. /\ work \in Workloads /\ disk = {} /\ marked = {} /\ compacting = FALSE
      /\ l0 \in Seq(Ids) /\ l1 \in Seq(Ids)
  BY EmptySeq DEF Init
<1>6. crashes \in 0..MaxCrashes /\ errors \in 0..MaxErrors
  BY Constants DEF Init
<1>7. Len(file) <= work.files /\ \A k \in Keys : truth[k].ts <= Len(file)
  BY <1>1, <1>4, <1>5, Constants
<1>8. \A i \in Ids : Held(i) # {}
  BY <1>1
<1>9. disk \subseteq Ids /\ marked \subseteq Ids /\ compacting \in BOOLEAN
  BY <1>5
<1>10. QED
  BY <1>1, <1>2, <1>3, <1>4, <1>5, <1>6, <1>7, <1>8, <1>9 DEF TypeInv

LEMMA TypeStep ==
  ASSUME TypeInv, [Next]_vars PROVE TypeInv'
<1>1. work.tasks \subseteq Tasks /\ work.readers \subseteq Readers /\ work.keys \subseteq Keys
  BY WorkloadAssumption DEF TypeInv
<1>2. CASE UNCHANGED vars
  <2>1. Ids' = Ids /\ Job' = Job /\ Get' = Get
    BY <1>2 DEF vars, Ids, Job, Get
  <2>2. \A i \in Ids : Held(i)' = Held(i)
    BY <1>2 DEF vars, Held, At
  <2>3. QED
    BY <1>2, <2>1, <2>2 DEF vars, TypeInv
<1>3. CASE \E puts, dels \in SUBSET Keys : Flush(puts, dels)
  BY <1>3, TypeFlush
<1>4. CASE \E t \in work.tasks : TaskStep(t)
  <2>1. PICK t \in Tasks : TaskStep(t)
    BY <1>1, <1>4
  <2>2. CASE \E cuts \in SUBSET Keys : Merge(t, cuts) \/ MergeFails(t, cuts)
    BY <2>2, TypeMerge
  <2>3. CASE \E level \in {0, 1} : AutoSnapshot(t, level)
    BY <2>3, TypeTasks
  <2>4. CASE \/ ManualSnapshot(t) \/ MergeAborts(t) \/ Install(t)
             \/ InstallTimesOut(t) \/ Mark(t) \/ Unlink(t) \/ Reclaimed(t)
    BY <2>4, TypeTasks
  <2>5. QED
    BY <2>1, <2>2, <2>3, <2>4 DEF TaskStep
<1>5. CASE \E r \in work.readers :
             \/ \E k \in work.keys : GetStart(r, k)
             \/ GetPin(r) \/ GetRead(r) \/ GetNextLevel(r)
  BY <1>1, <1>5, Constants, TypeGets
<1>6. CASE CrashRestart
  BY <1>6, TypeRestart
<1>7. QED
  BY <1>2, <1>3, <1>4, <1>5, <1>6 DEF Next

\* TypeOK holds in every reachable state: whatever the snapshots, merges,
\* installs and restarts interleave to, the lists of the engine name files that
\* were written, and a get holds a pin exactly while it reads.
THEOREM TypeCorrect == Spec => []TypeOK
<1>1. Init => TypeInv
  BY TypeInit
<1>2. TypeInv /\ [Next]_vars => TypeInv'
  BY TypeStep
<1>3. TypeInv => TypeOK
  <2> SUFFICES ASSUME TypeInv PROVE TypeOK
    OBVIOUS
  <2>1. \A i \in Ids : file[i].level \in {0, 1} /\ file[i].data \in Data
    BY EntryType, Constants DEF File
  <2>2. Range(l0) \subseteq Ids /\ Range(l1) \subseteq Ids
    BY RangeOfSeq DEF TypeInv
  <2>3. \A t \in Tasks :
          /\ job[t].pc \in {"idle", "merge", "install", "mark", "unlink"}
          /\ Range(job[t].inputs) \cup Range(job[t].rest) \cup Range(job[t].outs)
               \subseteq Ids
    BY JobType DEF Job, Inputs, Rest, Outs
  <2>4. \A r \in Readers :
          /\ rd[r].pc \in {"idle", "probe", "read", "done"}
          /\ rd[r].key \in Keys /\ rd[r].pin \in Ids \cup {0}
    BY DEF TypeInv, Get
  <2>5. QED
    BY <2>1, <2>2, <2>3, <2>4 DEF TypeInv, TypeOK
<1>4. QED
  BY <1>1, <1>2, <1>3, PTL DEF Spec

-----------------------------------------------------------------------------
(* No step unlinks a file that is live or pinned.                          *)

Rules == LevelsInv /\ ReplacedInv /\ BusyInv /\ PinnedFilesOnDisk

LEMMA InvInit ==
  ASSUME Init PROVE FilesInv
<1>1. TypeInv
  BY TypeInit
<1>2. /\ l0 = <<>> /\ l1 = <<>> /\ job = [t \in Tasks |-> NoJob]
      /\ rd = [r \in Readers |-> NoGet]
  BY DEF Init
<1>3. Range(l0) = {} /\ Range(l1) = {}
  BY <1>1, <1>2, RangeFacts DEF TypeInv
<1>4. \A t \in Tasks : job[t].pc = "idle" /\ job[t].rest = <<>>
  BY <1>2 DEF NoJob
<1>5. \A t \in Tasks : Rest(t) = {} /\ ~Busy(t) /\ job[t].pc = "idle"
  BY <1>2, <1>3, <1>4 DEF Rest, Busy
<1>6. LevelsInv
  BY <1>3 DEF LevelsInv, Live
<1>7. ReplacedInv
  BY <1>5 DEF ReplacedInv, Replaced, Ready
<1>8. BusyInv
  BY <1>5 DEF BusyInv, Running, Tasks
<1>9. PinnedFilesOnDisk
  BY <1>2 DEF PinnedFilesOnDisk, NoGet
<1>10. QED
  BY <1>1, <1>6, <1>7, <1>8, <1>9 DEF FilesInv

LEMMA InvGets ==
  ASSUME FilesInv, NEW r \in Readers, NEW k \in Keys,
         GetStart(r, k) \/ GetPin(r) \/ GetRead(r) \/ GetNextLevel(r)
  PROVE  Rules'
<1>1. UNCHANGED <<file, disk, marked, l0, l1, compacting, job>>
  BY DEF GetStart, GetPin, GetRead, GetNextLevel
<1>2. LevelsInv' /\ ReplacedInv' /\ BusyInv'
  BY <1>1 DEF FilesInv, LevelsInv, ReplacedInv, Replaced, Ready, BusyInv, Running, Live,
              Busy, Inputs, Outs, Rest, Level
<1>3. /\ rd \in [Readers -> Get] /\ rd[r] \in Get /\ TypeInv
      /\ \A q \in Readers : rd[q].pin # 0 => rd[q].pin \in disk
  BY DEF FilesInv, TypeInv, PinnedFilesOnDisk
<1>4. PinnedFilesOnDisk'
  <2>1. \A q \in Readers \ {r} : rd'[q] = rd[q]
    BY <1>3 DEF GetStart, GetPin, GetRead, GetNextLevel
  <2>2. CASE GetStart(r, k) \/ GetRead(r)
    <3>1. rd'[r].pin = 0
      <4>1. CASE GetStart(r, k)
        BY <1>3, <4>1 DEF GetStart, NoGet
      <4>2. CASE GetRead(r)
        BY <1>3, <4>2 DEF GetRead, Get
      <4>3. QED
        BY <2>2, <4>1, <4>2
    <3>2. QED
      BY <1>1, <1>3, <2>1, <3>1 DEF PinnedFilesOnDisk
  <2>3. CASE GetNextLevel(r)
    <3>1. rd'[r].pin = rd[r].pin
      BY <1>3, <2>3 DEF GetNextLevel, Get
    <3>2. QED
      BY <1>1, <1>3, <2>1, <3>1 DEF PinnedFilesOnDisk
  <2>4. CASE GetPin(r)
    <3> DEFINE n == Head(rd[r].cands)
               s == Level(rd[r].level)
    <3>1. rd'[r].pin = IF n <= Len(s) THEN s[n] ELSE 0
      BY <1>3, <2>4 DEF GetPin, Get
    <3>2. n \in Nat \ {0}
      BY <1>3, <2>4, HeadTailProperties DEF GetPin, Get
    <3>3. s \in Seq(Ids) /\ Range(s) \subseteq disk
      BY <1>3 DEF FilesInv, TypeInv, LevelsInv, Live, Level, Get
    <3>4. ASSUME n <= Len(s) PROVE s[n] \in disk
      <4>1. n \in DOMAIN s
        BY <3>2, <3>3, <3>4
      <4>2. QED
        BY <3>3, <4>1 DEF Range
    <3> HIDE DEF n, s
    <3>5. rd'[r].pin # 0 => rd'[r].pin \in disk
      BY <3>1, <3>4
    <3>6. QED
      BY <1>1, <1>3, <2>1, <3>5 DEF PinnedFilesOnDisk
  <2>5. QED
    BY <2>2, <2>3, <2>4
<1>5. QED
  BY <1>2, <1>4 DEF Rules

LEMMA InvRestart ==
  ASSUME FilesInv, CrashRestart PROVE Rules'
<1>1. /\ Range(l0') = OnDisk(0) /\ Range(l1') = OnDisk(1)
  BY RestartFacts DEF FilesInv
<1>2. /\ UNCHANGED <<file, disk>> /\ marked' = {} /\ compacting' = FALSE
      /\ job' = [t \in Tasks |-> NoJob] /\ rd' = [q \in Readers |-> NoGet]
  BY DEF CrashRestart
<1>3. Range(<<>>) = {}
  BY DEF Range
<1>4. \A t \in Tasks : Rest(t)' = {} /\ ~Busy(t)' /\ job'[t].pc = "idle"
  BY <1>2, <1>3 DEF Rest, Busy, NoJob
<1>5. LevelsInv'
  BY <1>1, <1>2 DEF LevelsInv, Live, OnDisk
<1>6. ReplacedInv'
  BY <1>4 DEF ReplacedInv, Replaced, Ready
<1>7. BusyInv'
  BY <1>4 DEF BusyInv, Running, Tasks
<1>8. PinnedFilesOnDisk'
  BY <1>2 DEF PinnedFilesOnDisk, NoGet
<1>9. QED
  BY <1>5, <1>6, <1>7, <1>8 DEF Rules

\* What the jobs of other tasks look like after task t moved on.
LEMMA OtherJobs ==
  ASSUME TypeInv, NEW t \in Tasks, NEW j, job' = [job EXCEPT ![t] = j]
  PROVE  /\ job'[t] = j
         /\ \A u \in Tasks : u # t =>
              /\ job'[u] = job[u] /\ Busy(u)' = Busy(u) /\ Inputs(u)' = Inputs(u)
              /\ Rest(u)' = Rest(u) /\ Outs(u)' = Outs(u)
  BY DEF TypeInv, Busy, Inputs, Rest, Outs

LEMMA InvFlush ==
  ASSUME FilesInv, NEW puts \in SUBSET Keys, NEW dels \in SUBSET Keys,
         Flush(puts, dels)
  PROVE  Rules'
<1> DEFINE fs == <<[level |-> 0, data |-> FlushData(puts, dels)]>>
           n == Len(file) + 1
<1>1. TypeInv /\ LevelsInv /\ ReplacedInv /\ BusyInv /\ PinnedFilesOnDisk
  BY DEF FilesInv
<1>2. /\ fs \in Seq(File) /\ Len(fs) = 1 /\ file' = file \o fs
      /\ \A m \in 1..Len(fs) : \E k \in Keys : fs[m].data[k].ts # 0
      /\ l0' = Append(l0, n) /\ disk' = disk \cup {n}
  BY <1>1, FlushFacts
<1>3. fs[1].level = 0 /\ n = Len(file) + 1
  OBVIOUS
<1> HIDE DEF fs, n
<1>4. /\ Ids \in SUBSET Ids' /\ \A i \in Ids : file'[i] = file[i]
      /\ file'[n] = fs[1] /\ Len(file') = n
  <2>1. 1 \in 1..Len(fs)
    BY <1>2
  <2>2. /\ Ids \in SUBSET Ids' /\ Len(file') = Len(file) + Len(fs)
        /\ \A i \in Ids : file'[i] = file[i]
        /\ \A m \in 1..Len(fs) : file'[Len(file) + m] = fs[m]
    BY <1>1, <1>2, Grow
  <2>3. QED
    BY <1>2, <1>3, <2>1, <2>2
<1>5. n \notin Ids /\ n \in Ids'
  BY <1>1, <1>3, <1>4 DEF Ids, TypeInv
<1>6. UNCHANGED <<marked, l1, compacting, job, rd>>
  BY DEF Flush
<1>7. /\ Range(l0') = Range(l0) \cup {n} /\ Range(l1') = Range(l1)
      /\ Range(l0) \in SUBSET Ids /\ Range(l1) \in SUBSET Ids
  <2>1. l0 \in Seq(Ids') /\ l0 \in Seq(Ids) /\ l1 \in Seq(Ids)
    BY <1>1, <1>4, SeqMonotonic DEF TypeInv
  <2>2. QED
    BY <1>2, <1>5, <1>6, <2>1, RangeFacts
<1>8. Live' = Live \cup {n} /\ marked \subseteq Ids
  BY <1>1, <1>7 DEF Live, TypeInv
<1>9. \A t \in Tasks :
        /\ Busy(t)' = Busy(t) /\ Inputs(t)' = Inputs(t) /\ Rest(t)' = Rest(t)
        /\ Outs(t)' = Outs(t)
        /\ Inputs(t) \in SUBSET Ids /\ Outs(t) \in SUBSET Ids /\ Rest(t) \in SUBSET Ids
  BY <1>1, <1>6, JobType DEF Busy, Inputs, Rest, Outs
<1>10. LevelsInv'
  BY <1>1, <1>2, <1>3, <1>4, <1>5, <1>6, <1>7, <1>8 DEF LevelsInv
<1>11. ReplacedInv'
  <2> SUFFICES ASSUME NEW t \in Tasks PROVE Replaced(t)' /\ Ready(t)'
    BY DEF ReplacedInv
  <2>1. Replaced(t) /\ Ready(t)
    BY <1>1 DEF ReplacedInv
  <2>2. Replaced(t)'
    BY <1>5, <1>6, <1>8, <1>9, <2>1 DEF Replaced
  <2>3. Ready(t)'
    <3> SUFFICES ASSUME job[t].pc = "install" PROVE Ready(t)'
      BY <1>6 DEF Ready
    <3>1. /\ Outs(t) \subseteq disk' /\ Outs(t) \cap marked' = {}
          /\ Outs(t) \cap Live' = {}
      BY <1>2, <1>5, <1>6, <1>8, <1>9, <2>1 DEF Ready
    <3>2. \A i \in Outs(t) : file'[i].level = job[t].level
      BY <1>4, <1>9, <2>1 DEF Ready
    <3>3. QED
      BY <1>6, <1>9, <2>1, <3>1, <3>2 DEF Ready
  <2>4. QED
    BY <2>2, <2>3
<1>12. BusyInv'
  <2>1. \A l \in {0, 1} : Range(Level(l)) \in SUBSET Range(Level(l)')
    BY <1>6, <1>7 DEF Level
  <2>2. \A t \in Tasks : job[t].level \in {0, 1}
    BY <1>1, JobType
  <2>3. ASSUME NEW t \in Autos PROVE Running(t)'
    <3>1. t \in Tasks /\ Running(t)
      BY <1>1 DEF Tasks, BusyInv
    <3>2. QED
      BY <1>4, <1>6, <1>9, <2>1, <2>2, <3>1 DEF Running
  <2>4. QED
    BY <1>1, <1>6, <1>9, <2>3 DEF BusyInv, Tasks
<1>13. PinnedFilesOnDisk'
  BY <1>1, <1>2, <1>6 DEF PinnedFilesOnDisk
<1>14. QED
  BY <1>10, <1>11, <1>12, <1>13 DEF Rules

LEMMA InvAutoSnapshot ==
  ASSUME FilesInv, NEW t \in Tasks, NEW level \in {0, 1}, AutoSnapshot(t, level)
  PROVE  Rules'
<1> DEFINE s == Level(level)
           j(g) == [pc |-> "merge", level |-> level, inputs |-> g,
                    outs |-> <<>>, rest |-> Without(s, Range(g))]
<1>1. TypeInv /\ LevelsInv /\ ReplacedInv /\ BusyInv /\ PinnedFilesOnDisk
  BY DEF FilesInv
<1>2. /\ t \in Autos /\ ~compacting /\ compacting' = TRUE
      /\ UNCHANGED <<file, disk, marked, l0, l1, rd>>
  BY DEF AutoSnapshot
<1>3. PICK g \in Selected(s) : job' = [job EXCEPT ![t] = j(g)]
  BY DEF AutoSnapshot
<1>4. s \in Seq(Ids) /\ Range(s) \in SUBSET Live /\ \A i \in Range(s) : file[i].level = level
  BY <1>1 DEF Level, TypeInv, LevelsInv, Live
<1>5. /\ Range(g) \in SUBSET Range(s) /\ (LeveledOnly => g = s)
      /\ Range(Without(s, Range(g))) = Range(s) \ Range(g)
  BY <1>4, SelectedFacts
<1>6. /\ job'[t] = j(g)
      /\ \A u \in Tasks : u # t =>
           /\ job'[u] = job[u] /\ Busy(u)' = Busy(u) /\ Inputs(u)' = Inputs(u)
           /\ Rest(u)' = Rest(u) /\ Outs(u)' = Outs(u)
  BY <1>1, <1>3, OtherJobs
<1>7. /\ job'[t].pc = "merge" /\ job'[t].level = level
      /\ Inputs(t)' = Range(g) /\ Rest(t)' = Range(s) \ Range(g)
  BY <1>5, <1>6 DEF Inputs, Rest
<1>8. Live' = Live /\ Level(level)' = s
  BY <1>2 DEF Live, Level
<1> HIDE DEF s, j
<1>9. LevelsInv'
  BY <1>1, <1>2, <1>8 DEF LevelsInv
<1>10. ReplacedInv'
  <2> SUFFICES ASSUME NEW u \in Tasks PROVE Replaced(u)' /\ Ready(u)'
    BY DEF ReplacedInv
  <2>1. Replaced(u) /\ Ready(u)
    BY <1>1 DEF ReplacedInv
  <2>2. Replaced(u)'
    BY <1>6, <1>7, <1>8, <2>1 DEF Replaced
  <2>3. Inputs(t)' \in SUBSET Live
    BY <1>4, <1>5, <1>7
  <2>4. Ready(u)'
    BY <1>2, <1>6, <1>7, <1>8, <2>1, <2>3 DEF Ready
  <2>5. QED
    BY <2>2, <2>4
<1>11. BusyInv'
  <2>1. \A u \in Autos : ~Busy(u) /\ u \in Tasks /\ u \notin Manuals
    BY <1>1, <1>2, CompactionAssumption DEF BusyInv, Running, Tasks
  <2>2. Running(t)'
    BY <1>2, <1>4, <1>5, <1>7, <1>8 DEF Running
  <2>3. \A u \in Autos : u # t => ~Busy(u)' /\ Running(u)'
    BY <1>6, <2>1 DEF Running
  <2>4. LeveledOnly \/ t \in Manuals => Rest(t)' = {}
    BY <1>2, <1>5, <1>7, <2>1
  <2>5. \A u \in Manuals : u # t /\ u \in Tasks
    BY <1>2, CompactionAssumption DEF Tasks
  <2>6. QED
    BY <1>1, <1>2, <1>6, <2>2, <2>3, <2>4, <2>5 DEF BusyInv
<1>12. PinnedFilesOnDisk'
  BY <1>1, <1>2 DEF PinnedFilesOnDisk
<1>13. QED
  BY <1>9, <1>10, <1>11, <1>12 DEF Rules

LEMMA InvManualSnapshot ==
  ASSUME FilesInv, NEW t \in Tasks, ManualSnapshot(t)
  PROVE  Rules'
<1> DEFINE inputs == Without(l0 \o l1, marked)
           j == [pc |-> "merge", level |-> 1, inputs |-> inputs,
                 outs |-> <<>>, rest |-> <<>>]
<1>1. TypeInv /\ LevelsInv /\ ReplacedInv /\ BusyInv /\ PinnedFilesOnDisk
  BY DEF FilesInv
<1>2. /\ t \in Manuals /\ job' = [job EXCEPT ![t] = j]
      /\ UNCHANGED <<file, disk, marked, l0, l1, compacting, rd>>
  BY DEF ManualSnapshot
<1>3. Range(inputs) \in SUBSET Live /\ Range(<<>>) = {}
  <2>1. l0 \in Seq(Ids) /\ l1 \in Seq(Ids)
    BY <1>1 DEF TypeInv
  <2>2. l0 \o l1 \in Seq(Ids) /\ Range(l0 \o l1) = Live /\ Range(<<>>) = {}
    BY <2>1, ConcatProperties, RangeFacts DEF Live
  <2>3. Range(inputs) = Range(l0 \o l1) \ marked
    BY <2>2, WithoutFacts
  <2>4. QED
    BY <2>2, <2>3
<1>4. /\ job'[t] = j
      /\ \A u \in Tasks : u # t =>
           /\ job'[u] = job[u] /\ Busy(u)' = Busy(u) /\ Inputs(u)' = Inputs(u)
           /\ Rest(u)' = Rest(u) /\ Outs(u)' = Outs(u)
  BY <1>1, <1>2, OtherJobs
<1>5. /\ job'[t].pc = "merge" /\ job'[t].level = 1
      /\ Inputs(t)' \in SUBSET Live /\ Rest(t)' = {}
  BY <1>3, <1>4 DEF Inputs, Rest
<1>6. Live' = Live /\ \A l \in {0, 1} : Level(l)' = Level(l)
  BY <1>2 DEF Live, Level
<1> HIDE DEF j, inputs
<1>7. LevelsInv'
  BY <1>1, <1>2, <1>6 DEF LevelsInv
<1>8. ReplacedInv'
  <2> SUFFICES ASSUME NEW u \in Tasks PROVE Replaced(u)' /\ Ready(u)'
    BY DEF ReplacedInv
  <2>1. Replaced(u) /\ Ready(u)
    BY <1>1 DEF ReplacedInv
  <2>2. Replaced(u)'
    BY <1>4, <1>5, <1>6, <2>1 DEF Replaced
  <2>3. Ready(u)'
    BY <1>2, <1>4, <1>5, <1>6, <2>1 DEF Ready
  <2>4. QED
    BY <2>2, <2>3
<1>9. BusyInv'
  <2>1. \A u \in Autos : u # t /\ u \in Tasks /\ job[u].level \in {0, 1}
    BY <1>1, <1>2, CompactionAssumption, JobType DEF Tasks
  <2>2. \A u \in Autos : Running(u)'
    BY <1>1, <1>2, <1>4, <1>6, <2>1 DEF BusyInv, Running
  <2>3. \A u \in Manuals : u \in Tasks
    BY DEF Tasks
  <2>4. QED
    BY <1>1, <1>4, <1>5, <2>1, <2>2, <2>3 DEF BusyInv
<1>10. PinnedFilesOnDisk'
  BY <1>1, <1>2 DEF PinnedFilesOnDisk
<1>11. QED
  BY <1>7, <1>8, <1>9, <1>10 DEF Rules

\* The ids that a merge adds.
LEMMA MergeIds ==
  ASSUME TypeInv, NEW t \in Tasks, NEW cuts,
         Merge(t, cuts) \/ MergeFails(t, cuts)
  PROVE  /\ Ids \in SUBSET Ids' /\ disk' = disk \cup (Ids' \ Ids)
         /\ \A i \in Ids : file'[i] = file[i]
         /\ \A i \in Ids' \ Ids : file'[i].level = job[t].level
         /\ UNCHANGED <<marked, l0, l1, rd>>
         /\ Merge(t, cuts) =>
              /\ \E s : /\ job' = [job EXCEPT ![t] = [job[t] EXCEPT !.pc = "install",
                                                                   !.outs = s]]
                        /\ Range(s) = Ids' \ Ids
<1> PICK fs : MergeWrites(t, cuts, fs)
  BY MergeFacts
<1>1. /\ fs \in Seq(File) /\ file' = file \o fs
      /\ \A n \in 1..Len(fs) : \E k \in Keys : fs[n].data[k].ts # 0
      /\ \A n \in 1..Len(fs) : fs[n].level = job[t].level
      /\ disk' = disk \cup Range(NewIds(fs))
      /\ Merge(t, cuts) =>
           job' = [job EXCEPT ![t] = [job[t] EXCEPT !.pc = "install",
                                                    !.outs = NewIds(fs)]]
  BY DEF MergeWrites
<1>2. /\ Ids \in SUBSET Ids' /\ \A i \in Ids : file'[i] = file[i]
      /\ Range(NewIds(fs)) = Ids' \ Ids
      /\ \A i \in Range(NewIds(fs)) : \E n \in 1..Len(fs) : file'[i] = fs[n]
  BY <1>1, Grow
<1>3. ASSUME NEW i \in Ids' \ Ids PROVE file'[i].level = job[t].level
  <2>1. PICK n \in 1..Len(fs) : file'[i] = fs[n]
    BY <1>2
  <2>2. fs[n].level = job[t].level
    BY <1>1
  <2>3. QED
    BY <2>1, <2>2
<1>4. UNCHANGED <<marked, l0, l1, rd>>
  BY DEF Merge, MergeFails
<1>5. QED
  BY <1>1, <1>2, <1>3, <1>4

LEMMA InvMerge ==
  ASSUME FilesInv, NEW t \in Tasks, NEW cuts, Merge(t, cuts)
  PROVE  Rules'
<1>1. TypeInv /\ LevelsInv /\ ReplacedInv /\ BusyInv /\ PinnedFilesOnDisk
  BY DEF FilesInv
<1>2. /\ Ids \in SUBSET Ids' /\ disk' = disk \cup (Ids' \ Ids)
      /\ \A i \in Ids : file'[i] = file[i]
      /\ \A i \in Ids' \ Ids : file'[i].level = job[t].level
      /\ UNCHANGED <<marked, l0, l1, rd>>
  BY <1>1, MergeIds
<1>3. PICK s : /\ job' = [job EXCEPT ![t] = [job[t] EXCEPT !.pc = "install",
                                                          !.outs = s]]
               /\ Range(s) = Ids' \ Ids
  BY <1>1, MergeIds
<1>4. compacting' = compacting /\ job[t].pc = "merge"
  BY DEF Merge
<1>5. /\ job'[t] = [job[t] EXCEPT !.pc = "install", !.outs = s]
      /\ \A u \in Tasks : u # t =>
           /\ job'[u] = job[u] /\ Busy(u)' = Busy(u) /\ Inputs(u)' = Inputs(u)
           /\ Rest(u)' = Rest(u) /\ Outs(u)' = Outs(u)
  BY <1>1, <1>3, OtherJobs
<1>6. /\ job'[t].pc = "install" /\ job'[t].level = job[t].level
      /\ Inputs(t)' = Inputs(t) /\ Rest(t)' = Rest(t) /\ Outs(t)' = Ids' \ Ids
  <2>1. job[t] \in Job
    BY <1>1, JobType
  <2>2. /\ job'[t].pc = "install" /\ job'[t].level = job[t].level
        /\ job'[t].inputs = job[t].inputs /\ job'[t].rest = job[t].rest
        /\ job'[t].outs = s
    BY <1>5, <2>1 DEF Job
  <2>3. QED
    BY <1>3, <2>2 DEF Inputs, Rest, Outs
<1>7. \A u \in Tasks :
        Inputs(u)' = Inputs(u) /\ Rest(u)' = Rest(u) /\ (Busy(u)' <=> Busy(u))
  <2>1. Busy(t)' /\ Busy(t)
    BY <1>4, <1>6 DEF Busy
  <2>2. QED
    BY <1>5, <1>6, <2>1
<1>8. \A u \in Tasks :
        /\ Inputs(u) \in SUBSET Ids /\ Outs(u) \in SUBSET Ids /\ Rest(u) \in SUBSET Ids
  BY <1>1, JobType
<1>9. /\ Live' = Live /\ \A l \in {0, 1} : Level(l)' = Level(l)
      /\ Live \in SUBSET Ids /\ marked \in SUBSET Ids
      /\ Range(l0) \in SUBSET Ids /\ Range(l1) \in SUBSET Ids
  BY <1>1, <1>2, RangeOfSeq DEF Live, Level, TypeInv
<1>10. LevelsInv'
  BY <1>1, <1>2, <1>9 DEF LevelsInv
<1>11. ReplacedInv'
  <2> SUFFICES ASSUME NEW u \in Tasks PROVE Replaced(u)' /\ Ready(u)'
    BY DEF ReplacedInv
  <2>1. Replaced(u) /\ Ready(u)
    BY <1>1 DEF ReplacedInv
  <2>2. Replaced(u)'
    BY <1>5, <1>6, <1>9, <2>1 DEF Replaced
  <2>3. CASE u = t
    <3>1. Outs(t)' \cap marked' = {} /\ Outs(t)' \cap Live' = {}
      BY <1>2, <1>6, <1>9
    <3>2. Outs(t)' \subseteq disk' /\ \A i \in Outs(t)' : file'[i].level = job'[t].level
      BY <1>2, <1>6
    <3>3. \A v \in Tasks : Outs(t)' \cap Inputs(v)' = {}
      BY <1>6, <1>7, <1>8
    <3>4. \A v \in Tasks : v # t => Outs(t)' \cap Outs(v)' = {}
      BY <1>5, <1>6, <1>8
    <3>5. QED
      BY <2>2, <2>3, <3>1, <3>2, <3>3, <3>4 DEF Ready
  <2>4. CASE u # t
    <3>1. /\ job'[u] = job[u] /\ Outs(u)' = Outs(u) /\ Outs(u) \in SUBSET Ids
          /\ Outs(u) \cap Outs(t)' = {}
      BY <1>5, <1>6, <1>8, <2>4
    <3>2. job[u].pc = "install" =>
            /\ Outs(u) \subseteq disk' /\ Outs(u) \cap marked' = {}
            /\ Outs(u) \cap Live' = {}
            /\ \A i \in Outs(u) : file'[i].level = job[u].level
      BY <1>2, <1>9, <2>1, <3>1 DEF Ready
    <3>3. job[u].pc = "install" =>
            /\ \A v \in Tasks : Outs(u) \cap Inputs(v)' = {}
            /\ \A v \in Tasks : v # u /\ job'[v].pc = "install" =>
                 Outs(u) \cap Outs(v)' = {}
      BY <1>5, <1>7, <2>1, <3>1 DEF Ready
    <3>4. QED
      BY <2>2, <3>1, <3>2, <3>3 DEF Ready
  <2>5. QED
    BY <2>2, <2>3, <2>4
<1>12. BusyInv'
  <2>1. \A u \in Tasks : job'[u].level = job[u].level /\ job[u].level \in {0, 1}
    BY <1>1, <1>5, <1>6, JobType
  <2>2. ASSUME NEW u \in Autos PROVE Running(u)'
    <3>1. u \in Tasks /\ Running(u)
      BY <1>1 DEF BusyInv, Tasks
    <3>2. QED
      BY <1>2, <1>4, <1>7, <1>8, <1>9, <2>1, <3>1 DEF Running
  <2>3. QED
    BY <1>1, <1>7, <2>1, <2>2 DEF BusyInv, Tasks
<1>13. PinnedFilesOnDisk'
  BY <1>1, <1>2 DEF PinnedFilesOnDisk
<1>14. QED
  BY <1>10, <1>11, <1>12, <1>13 DEF Rules

\* A compaction that gives up, having created files or not.
LEMMA InvAbandon ==
  ASSUME FilesInv, NEW t \in Tasks, Busy(t), Abandon(t),
         Ids \in SUBSET Ids', \A i \in Ids : file'[i] = file[i],
         disk \subseteq disk', UNCHANGED <<marked, l0, l1, rd>>
  PROVE  Rules'
<1>1. TypeInv /\ LevelsInv /\ ReplacedInv /\ BusyInv /\ PinnedFilesOnDisk
  BY DEF FilesInv
<1>2. job' = [job EXCEPT ![t] = NoJob] /\ compacting' = (compacting /\ t \notin Autos)
  BY DEF Abandon
<1>3. /\ job'[t] = NoJob
      /\ \A u \in Tasks : u # t =>
           /\ job'[u] = job[u] /\ Busy(u)' = Busy(u) /\ Inputs(u)' = Inputs(u)
           /\ Rest(u)' = Rest(u) /\ Outs(u)' = Outs(u)
  BY <1>1, <1>2, OtherJobs
<1>4. job'[t].pc = "idle" /\ ~Busy(t)' /\ Inputs(t)' = {} /\ Rest(t)' = {}
  <2>1. Range(<<>>) = {}
    BY DEF Range
  <2>2. QED
    BY <1>3, <2>1 DEF NoJob, Busy, Inputs, Rest
<1>5. /\ Live' = Live /\ \A l \in {0, 1} : Level(l)' = Level(l)
      /\ Range(l0) \in SUBSET Ids /\ Range(l1) \in SUBSET Ids
  BY <1>1, RangeOfSeq DEF Live, Level, TypeInv
<1>6. LevelsInv'
  BY <1>1, <1>5 DEF LevelsInv
<1>7. \A u \in Tasks :
        /\ Inputs(u) \in SUBSET Ids /\ Outs(u) \in SUBSET Ids
        /\ job[u].level \in {0, 1}
  BY <1>1, JobType
<1>8. ReplacedInv'
  <2> SUFFICES ASSUME NEW u \in Tasks PROVE Replaced(u)' /\ Ready(u)'
    BY DEF ReplacedInv
  <2>1. Replaced(u) /\ Ready(u)
    BY <1>1 DEF ReplacedInv
  <2>2. Replaced(u)'
    BY <1>3, <1>4, <1>5, <2>1 DEF Replaced
  <2>3. Ready(u)'
    BY <1>3, <1>4, <1>5, <1>7, <2>1 DEF Ready
  <2>4. QED
    BY <2>2, <2>3
<1>9. BusyInv'
  <2>1. ASSUME NEW u \in Autos PROVE Running(u)'
    <3>1. u \in Tasks /\ Running(u) /\ (t \in Autos /\ Busy(u) => u = t)
      BY <1>1 DEF BusyInv, Tasks
    <3>2. CASE u = t
      BY <1>4, <3>2 DEF Running
    <3>3. CASE u # t
      BY <1>2, <1>3, <1>5, <1>7, <3>1, <3>3 DEF Running
    <3>4. QED
      BY <3>2, <3>3
  <2>2. QED
    BY <1>1, <1>3, <1>4, <2>1 DEF BusyInv, Tasks
<1>10. PinnedFilesOnDisk'
  BY <1>1 DEF PinnedFilesOnDisk
<1>11. QED
  BY <1>6, <1>8, <1>9, <1>10 DEF Rules

LEMMA InvFails ==
  ASSUME FilesInv, NEW t \in Tasks, NEW cuts,
         MergeFails(t, cuts) \/ MergeAborts(t) \/ InstallTimesOut(t)
  PROVE  Rules'
<1>1. TypeInv
  BY DEF FilesInv
<1>2. Busy(t) /\ Abandon(t) /\ UNCHANGED <<marked, l0, l1, rd>>
  BY DEF MergeFails, MergeAborts, InstallTimesOut, Busy
<1>3. /\ Ids \in SUBSET Ids' /\ disk \subseteq disk'
      /\ \A i \in Ids : file'[i] = file[i]
  <2>1. CASE MergeFails(t, cuts)
    BY <1>1, <2>1, MergeIds
  <2>2. CASE MergeAborts(t) \/ InstallTimesOut(t)
    BY <2>2 DEF MergeAborts, InstallTimesOut, Ids
  <2>3. QED
    BY <2>1, <2>2
<1>4. QED
  BY <1>2, <1>3, InvAbandon

\* What an install leaves in the live map: its outputs, and of the files that
\* were live those that are not its inputs.
LEMMA InstallFacts ==
  ASSUME FilesInv, SafeMix, NEW t \in Tasks, Install(t)
  PROVE  /\ Live' \in SUBSET (Live \cup Outs(t)) /\ Inputs(t) \cap Live' = {}
         /\ \A i \in Range(l0') : file[i].level = 0
         /\ \A i \in Range(l1') : file[i].level = 1
<1>1. TypeInv /\ LevelsInv /\ ReplacedInv /\ BusyInv
  BY DEF FilesInv
<1>2. job[t].pc = "install" /\ Busy(t)
  BY DEF Install, Busy
<1>3. /\ Outs(t) \cap Live = {} /\ Outs(t) \cap Inputs(t) = {}
      /\ \A i \in Outs(t) : file[i].level = job[t].level
  BY <1>1, <1>2 DEF ReplacedInv, Ready
<1>4. /\ l0 \in Seq(Ids) /\ l1 \in Seq(Ids) /\ job[t].outs \in Seq(Ids)
      /\ job[t].rest \in Seq(Ids)
      /\ Concurrent(t, l0) \in Seq(Ids) /\ Concurrent(t, l1) \in Seq(Ids)
  BY <1>1, JobType, ConcurrentFacts DEF TypeInv
<1>5. /\ Range(Concurrent(t, l0)) = Range(l0) \ (Inputs(t) \cup Rest(t) \cup marked)
      /\ Range(Concurrent(t, l1)) = Range(l1) \ (Inputs(t) \cup Rest(t) \cup marked)
  BY <1>1, <1>4, ConcurrentFacts
<1>6. /\ \A i \in Range(l0) : file[i].level = 0
      /\ \A i \in Range(l1) : file[i].level = 1
      /\ Live = Range(l0) \cup Range(l1) /\ Live' = Range(l0') \cup Range(l1')
  BY <1>1 DEF LevelsInv, Live
<1>7. CASE t \in Autos
  <2> DEFINE s == Level(job[t].level)
             new == job[t].rest \o job[t].outs \o Concurrent(t, s)
  <2>1. /\ job[t].level = 0 => l0' = new /\ l1' = l1
        /\ job[t].level # 0 => l1' = new /\ l0' = l0
    BY <1>7 DEF Install, Level
  <2>2. s \in Seq(Ids) /\ Concurrent(t, s) \in Seq(Ids)
    BY <1>4 DEF Level
  <2>3. Range(new) = Rest(t) \cup Outs(t) \cup Range(Concurrent(t, s))
    <3>1. job[t].rest \o job[t].outs \in Seq(Ids)
      BY <1>4, ConcatProperties
    <3>2. Range(job[t].rest \o job[t].outs) = Rest(t) \cup Outs(t)
      BY <1>4, RangeFacts DEF Rest, Outs
    <3>3. Range(new) = Range(job[t].rest \o job[t].outs) \cup Range(Concurrent(t, s))
      <4> DEFINE old == job[t].rest \o job[t].outs
                 more == Concurrent(t, s)
      <4>1. old \in Seq(Ids) /\ more \in Seq(Ids)
        BY <2>2, <3>1
      <4> HIDE DEF old, more
      <4>2. Range(old \o more) = Range(old) \cup Range(more)
        BY <4>1, RangeConcatenation
      <4>3. QED
        BY <4>2 DEF old, more
    <3>4. QED
      BY <3>2, <3>3
  <2>4. Range(Concurrent(t, s)) = Range(s) \ (Inputs(t) \cup Rest(t) \cup marked)
    BY <1>5 DEF Level
  <2>5. /\ Rest(t) \in SUBSET Range(s) /\ Inputs(t) \cap Rest(t) = {}
        /\ \A i \in Inputs(t) : file[i].level = job[t].level
    BY <1>1, <1>2, <1>7 DEF BusyInv, Running
  <2>6. job[t].level \in {0, 1}
    BY <1>1, JobType
  <2>7. s = IF job[t].level = 0 THEN l0 ELSE l1
    BY DEF Level
  <2> HIDE DEF new, s
  <2>8. Inputs(t) \cap Range(new) = {}
    BY <1>3, <2>3, <2>4, <2>5
  <2>9. Range(new) \in SUBSET (Range(s) \cup Outs(t))
    BY <2>3, <2>4, <2>5
  <2>10. CASE job[t].level = 0
    <3>1. l0' = new /\ l1' = l1 /\ s = l0
      BY <2>1, <2>7, <2>10
    <3>2. Inputs(t) \cap Range(l1) = {}
      BY <1>6, <2>5, <2>10
    <3>3. QED
      BY <1>3, <1>6, <2>8, <2>9, <2>10, <3>1, <3>2
  <2>11. CASE job[t].level = 1
    <3>1. l1' = new /\ l0' = l0 /\ s = l1
      BY <2>1, <2>7, <2>11
    <3>2. Inputs(t) \cap Range(l0) = {}
      BY <1>6, <2>5, <2>11
    <3>3. QED
      BY <1>3, <1>6, <2>8, <2>9, <2>11, <3>1, <3>2
  <2>12. QED
    BY <2>6, <2>10, <2>11
<1>8. CASE t \notin Autos
  <2> DEFINE new == job[t].outs \o Concurrent(t, l1)
  <2>1. l0' = Concurrent(t, l0) /\ l1' = SortLeveled(new)
    BY <1>8 DEF Install
  <2>2. new \in Seq(Ids) /\ Range(new) = Outs(t) \cup Range(Concurrent(t, l1))
    BY <1>4, ConcatProperties, RangeFacts DEF Outs
  <2> HIDE DEF new
  <2>3. Range(l1') = Range(new)
    BY <1>1, <2>1, <2>2, SortFacts
  <2>4. job[t].level = 1
    BY <1>1, <1>2, <1>8 DEF BusyInv, Tasks
  <2>5. QED
    BY <1>3, <1>5, <1>6, <2>1, <2>2, <2>3, <2>4
<1>9. QED
  BY <1>7, <1>8

LEMMA InvInstall ==
  ASSUME FilesInv, SafeMix, NEW t \in Tasks, Install(t)
  PROVE  Rules'
<1>1. TypeInv /\ LevelsInv /\ ReplacedInv /\ BusyInv /\ PinnedFilesOnDisk
  BY DEF FilesInv
<1>2. /\ job[t].pc = "install" /\ Busy(t) /\ UNCHANGED <<file, disk, marked, rd>>
      /\ compacting' = IF t \in Autos THEN FALSE ELSE compacting
  BY DEF Install, Busy
<1>3. /\ Live' \in SUBSET (Live \cup Outs(t)) /\ Inputs(t) \cap Live' = {}
      /\ \A i \in Range(l0') : file[i].level = 0
      /\ \A i \in Range(l1') : file[i].level = 1
  BY InstallFacts
<1>4. job[t] \in Job
  BY <1>1, JobType
<1>5. job' = [job EXCEPT ![t] = [job[t] EXCEPT !.pc = "mark"]]
  BY <1>1 DEF Install, TypeInv
<1>6. /\ job'[t] = [job[t] EXCEPT !.pc = "mark"]
      /\ \A u \in Tasks : u # t =>
           /\ job'[u] = job[u] /\ Busy(u)' = Busy(u) /\ Inputs(u)' = Inputs(u)
           /\ Rest(u)' = Rest(u) /\ Outs(u)' = Outs(u)
  BY <1>1, <1>5, OtherJobs
<1>7. job'[t].pc = "mark" /\ ~Busy(t)' /\ Inputs(t)' = Inputs(t) /\ Rest(t)' = Rest(t)
  BY <1>4, <1>6 DEF Job, Busy, Inputs, Rest
<1>8. LevelsInv'
  BY <1>1, <1>2, <1>3 DEF LevelsInv, ReplacedInv, Ready
<1>9. ReplacedInv'
  <2> SUFFICES ASSUME NEW u \in Tasks PROVE Replaced(u)' /\ Ready(u)'
    BY DEF ReplacedInv
  <2>1. Replaced(u) /\ Ready(u) /\ Ready(t)
    BY <1>1 DEF ReplacedInv
  <2>2. CASE u = t
    BY <1>3, <1>7, <2>2 DEF Replaced, Ready
  <2>3. CASE u # t
    <3>1. job[u].pc = "install" => Outs(u) \cap Live' = {}
      BY <1>2, <1>3, <2>1, <2>3 DEF Ready
    <3>2. Ready(u)'
      BY <1>2, <1>6, <1>7, <2>1, <2>3, <3>1 DEF Ready
    <3>3. Inputs(u) \cap Outs(t) = {}
      BY <1>2, <2>1 DEF Ready
    <3>4. Replaced(u)'
      BY <1>3, <1>6, <2>1, <2>3, <3>3 DEF Replaced
    <3>5. QED
      BY <3>2, <3>4
  <2>4. QED
    BY <2>2, <2>3
<1>10. BusyInv'
  <2>1. ASSUME NEW u \in Autos PROVE Running(u)'
    <3>1. u \in Tasks /\ Running(u) /\ (t \in Autos /\ Busy(u) => u = t)
      BY <1>1, <1>2 DEF BusyInv, Tasks
    <3>2. CASE u = t
      BY <1>7, <3>2 DEF Running
    <3>3. CASE u # t /\ t \in Autos
      BY <1>6, <3>1, <3>3 DEF Running
    <3>4. CASE t \notin Autos
      <4>1. t \in Manuals /\ LeveledOnly /\ u # t
        BY <3>4 DEF Tasks, SafeMix
      <4>2. QED
        BY <1>2, <1>6, <3>1, <3>4, <4>1 DEF Running
    <3>5. QED
      BY <3>2, <3>3, <3>4
  <2>2. QED
    BY <1>1, <1>6, <1>7, <2>1 DEF BusyInv, Tasks
<1>11. PinnedFilesOnDisk'
  BY <1>1, <1>2 DEF PinnedFilesOnDisk
<1>12. QED
  BY <1>8, <1>9, <1>10, <1>11 DEF Rules

\* A step of the reclaim: it may mark or unlink inputs, and shortens its list.
LEMMA InvReclaim ==
  ASSUME FilesInv, NEW t \in Tasks, Mark(t) \/ Unlink(t) \/ Reclaimed(t)
  PROVE  Rules'
<1>1. TypeInv /\ LevelsInv /\ ReplacedInv /\ BusyInv /\ PinnedFilesOnDisk
  BY DEF FilesInv
<1>2. /\ job[t].pc \in {"mark", "unlink"} /\ UNCHANGED <<file, l0, l1, compacting, rd>>
  BY DEF Mark, Unlink, Reclaimed
<1>3. job[t] \in Job /\ Inputs(t) \cap Live = {}
  BY <1>1, <1>2, JobType DEF ReplacedInv, Replaced
<1>4. marked \subseteq marked' /\ marked' \subseteq marked \cup Inputs(t)
  BY DEF Mark, Unlink, Reclaimed, Inputs
<1>5. /\ disk \ disk' \subseteq Inputs(t)
      /\ \A r \in Readers : rd[r].pin # 0 /\ rd[r].pin \in disk => rd[r].pin \in disk'
  <2>1. CASE Mark(t) \/ Reclaimed(t)
    BY <2>1 DEF Mark, Reclaimed
  <2>2. CASE Unlink(t)
    <3>1. Head(job[t].inputs) \in Inputs(t)
      <4>1. job[t].inputs \in Seq(Ids) /\ job[t].inputs # <<>>
        BY <1>3, <2>2 DEF Job, Unlink
      <4>2. QED
        BY <4>1, RangeFacts DEF Inputs
    <3>2. disk' = disk \/ disk' = disk \ {Head(job[t].inputs)}
      BY <2>2 DEF Unlink
    <3>3. \A r \in Readers : rd[r].pin # 0 => rd[r].pin \in Pinned
      BY DEF Pinned
    <3>4. Head(job[t].inputs) \in Pinned => disk' = disk
      BY <2>2 DEF Unlink
    <3>5. QED
      BY <3>1, <3>2, <3>3, <3>4
  <2>3. QED
    BY <2>1, <2>2
<1>6. PICK j : /\ job' = [job EXCEPT ![t] = j] /\ j.pc \in {"unlink", "idle"}
               /\ Range(j.inputs) \in SUBSET Inputs(t)
               /\ Range(j.rest) = Rest(t) \/ Range(j.rest) = {}
  <2>1. CASE Mark(t)
    <3> DEFINE j == [job[t] EXCEPT !.pc = "unlink"]
    <3>1. job' = [job EXCEPT ![t] = j]
      BY <1>1, <2>1 DEF Mark, TypeInv
    <3>2. j.pc = "unlink" /\ j.inputs = job[t].inputs /\ j.rest = job[t].rest
      BY <1>3 DEF Job
    <3> HIDE DEF j
    <3>3. QED
      BY <3>1, <3>2 DEF Inputs, Rest
  <2>2. CASE Unlink(t)
    <3> DEFINE j == [job[t] EXCEPT !.inputs = Tail(job[t].inputs)]
    <3>1. job' = [job EXCEPT ![t] = j] /\ job[t].inputs # <<>> /\ job[t].pc = "unlink"
      BY <1>1, <2>2 DEF Unlink, TypeInv
    <3>2. j.pc = "unlink" /\ j.inputs = Tail(job[t].inputs) /\ j.rest = job[t].rest
      BY <1>3, <3>1 DEF Job
    <3>3. Range(Tail(job[t].inputs)) \in SUBSET Inputs(t)
      <4>1. job[t].inputs \in Seq(Ids)
        BY <1>3 DEF Job
      <4>2. Range(job[t].inputs) = {Head(job[t].inputs)} \cup Range(Tail(job[t].inputs))
        BY <3>1, <4>1, RangeFacts
      <4>3. QED
        BY <4>2 DEF Inputs
    <3> HIDE DEF j
    <3>4. QED
      BY <3>1, <3>2, <3>3 DEF Rest
  <2>3. CASE Reclaimed(t)
    <3>1. job' = [job EXCEPT ![t] = NoJob] /\ Range(<<>>) = {}
      BY <2>3 DEF Reclaimed, Range
    <3>2. NoJob.pc = "idle" /\ NoJob.inputs = <<>> /\ NoJob.rest = <<>>
      BY DEF NoJob
    <3>3. QED
      BY <3>1, <3>2
  <2>4. QED
    BY <2>1, <2>2, <2>3
<1>7. /\ job'[t] = j
      /\ \A u \in Tasks : u # t =>
           /\ job'[u] = job[u] /\ Busy(u)' = Busy(u) /\ Inputs(u)' = Inputs(u)
           /\ Rest(u)' = Rest(u) /\ Outs(u)' = Outs(u)
  BY <1>1, <1>6, OtherJobs
<1>8. /\ Inputs(t)' \in SUBSET Inputs(t) /\ job'[t].pc # "install" /\ ~Busy(t)'
      /\ Rest(t)' = Rest(t) \/ Rest(t)' = {}
  BY <1>6, <1>7 DEF Inputs, Rest, Busy
<1>9. Live' = Live /\ \A l \in {0, 1} : Level(l)' = Level(l)
  BY <1>2 DEF Live, Level
<1>10. LevelsInv'
  BY <1>1, <1>2, <1>3, <1>4, <1>5, <1>9 DEF LevelsInv
<1>11. ReplacedInv'
  <2> SUFFICES ASSUME NEW u \in Tasks PROVE Replaced(u)' /\ Ready(u)'
    BY DEF ReplacedInv
  <2>1. Replaced(u) /\ Ready(u)
    BY <1>1 DEF ReplacedInv
  <2>2. CASE u = t
    BY <1>3, <1>8, <1>9, <2>2 DEF Replaced, Ready
  <2>3. CASE u # t
    <3>1. Replaced(u)'
      BY <1>7, <1>9, <2>1, <2>3 DEF Replaced
    <3>2. job[u].pc = "install" => Outs(u) \cap Inputs(t) = {}
      BY <2>1 DEF Ready
    <3>3. job[u].pc = "install" => Outs(u) \subseteq disk' /\ Outs(u) \cap marked' = {}
      BY <1>4, <1>5, <2>1, <3>2 DEF Ready
    <3>4. Ready(u)'
      BY <1>2, <1>7, <1>8, <1>9, <2>1, <2>3, <3>2, <3>3 DEF Ready
    <3>5. QED
      BY <3>1, <3>4
  <2>4. QED
    BY <2>2, <2>3
<1>12. BusyInv'
  <2>1. ASSUME NEW u \in Autos PROVE Running(u)'
    <3>1. u \in Tasks /\ Running(u)
      BY <1>1 DEF BusyInv, Tasks
    <3>2. job[u].level \in {0, 1}
      BY <1>1, <3>1, JobType
    <3>3. CASE u = t
      BY <1>8, <3>3 DEF Running
    <3>4. CASE u # t
      BY <1>2, <1>7, <1>9, <3>1, <3>2, <3>4 DEF Running
    <3>5. QED
      BY <3>3, <3>4
  <2>2. QED
    BY <1>1, <1>7, <1>8, <2>1 DEF BusyInv, Tasks
<1>13. PinnedFilesOnDisk'
  BY <1>1, <1>2, <1>5 DEF PinnedFilesOnDisk
<1>14. QED
  BY <1>10, <1>11, <1>12, <1>13 DEF Rules

LEMMA InvStep ==
  ASSUME FilesInv, SafeMix, [Next]_vars PROVE FilesInv'
<1>1. TypeInv /\ TypeInv'
  BY TypeStep DEF FilesInv
<1>2. work.tasks \subseteq Tasks /\ work.readers \subseteq Readers /\ work.keys \subseteq Keys
  BY <1>1, WorkloadAssumption DEF TypeInv
<1>3. CASE UNCHANGED vars
  BY <1>1, <1>3 DEF vars, FilesInv, LevelsInv, ReplacedInv, Replaced, Ready, BusyInv,
                    Running, Live, Busy, Inputs, Outs, Rest, Level, PinnedFilesOnDisk
<1>4. CASE \E puts, dels \in SUBSET Keys : Flush(puts, dels)
  BY <1>1, <1>4, InvFlush DEF FilesInv, Rules
<1>5. CASE \E t \in work.tasks : TaskStep(t)
  <2>1. PICK t \in Tasks : TaskStep(t)
    BY <1>2, <1>5
  <2>2. CASE \E cuts \in SUBSET Keys : Merge(t, cuts)
    BY <1>1, <2>2, InvMerge DEF FilesInv, Rules
  <2>3. CASE \/ \E cuts \in SUBSET Keys : MergeFails(t, cuts)
             \/ MergeAborts(t) \/ InstallTimesOut(t)
    BY <1>1, <2>3, InvFails DEF FilesInv, Rules
  <2>4. CASE \E level \in {0, 1} : AutoSnapshot(t, level)
    BY <1>1, <2>4, InvAutoSnapshot DEF FilesInv, Rules
  <2>5. CASE ManualSnapshot(t)
    BY <1>1, <2>5, InvManualSnapshot DEF FilesInv, Rules
  <2>6. CASE Install(t)
    BY <1>1, <2>6, InvInstall DEF FilesInv, Rules
  <2>7. CASE Mark(t) \/ Unlink(t) \/ Reclaimed(t)
    BY <1>1, <2>7, InvReclaim DEF FilesInv, Rules
  <2>8. QED
    BY <2>1, <2>2, <2>3, <2>4, <2>5, <2>6, <2>7 DEF TaskStep
<1>6. CASE \E r \in work.readers :
             \/ \E k \in work.keys : GetStart(r, k)
             \/ GetPin(r) \/ GetRead(r) \/ GetNextLevel(r)
  BY <1>1, <1>2, <1>6, Constants, InvGets DEF FilesInv, Rules
<1>7. CASE CrashRestart
  BY <1>1, <1>7, InvRestart DEF FilesInv, Rules
<1>8. QED
  BY <1>3, <1>4, <1>5, <1>6, <1>7 DEF Next

\* FilesInv is an invariant: what is live is on disk and unmarked, and what a
\* compaction is to install nobody else knows.
LEMMA FilesInvariant ==
  ASSUME SafeMix PROVE Spec => []FilesInv
<1>1. Init => FilesInv
  BY InvInit
<1>2. FilesInv /\ [Next]_vars => FilesInv'
  BY InvStep
<1>3. QED
  BY <1>1, <1>2, PTL DEF Spec

\* LiveFilesOnDisk holds in every reachable state under levelled selection, or
\* without compact_all: reclaim_compacted_inputs never unlinks a file that the
\* live map lists, whatever number of compactions, gets and crashes interleave.
THEOREM ReclaimSparesLive ==
  ASSUME SafeMix PROVE Spec => []LiveFilesOnDisk
<1>1. FilesInv => LiveFilesOnDisk
  BY DEF FilesInv, LevelsInv, Live, LiveFilesOnDisk
<1>2. QED
  BY <1>1, FilesInvariant, PTL

\* PinnedFilesOnDisk holds as well: a get that has pinned a file finds it, even
\* if the file is replaced and reclaimed meanwhile.
THEOREM ReclaimSparesPinned ==
  ASSUME SafeMix PROVE Spec => []PinnedFilesOnDisk
<1>1. FilesInv => PinnedFilesOnDisk
  BY DEF FilesInv
<1>2. QED
  BY <1>1, FilesInvariant, PTL

-----------------------------------------------------------------------------
(* Compaction changes no value.                                            *)

\* The workloads without faults run one kind of compaction: background ones,
\* which `compacting` keeps apart, or a single compact_all.
SoloWorkloads ==
  \A w \in Workloads : w.faults = 0 =>
    \/ w.tasks \subseteq Autos
    \/ w.tasks \subseteq Manuals /\ \A t, u \in w.tasks : t = u

\* A file holds nothing newer than what was flushed last; of two files the
\* first is older where both hold a key; the key ranges of two files are apart.
Agrees(i) ==
  \A k \in Held(i) : /\ At(i, k).ts <= truth[k].ts
                     /\ At(i, k).ts = truth[k].ts => At(i, k) = truth[k]
Older(i, j) == \A k \in Held(i) \cap Held(j) : At(i, k).ts < At(j, k).ts
Apart(i, j) == \/ \A x \in Held(i), y \in Held(j) : x < y
               \/ \A x \in Held(i), y \in Held(j) : y < x

\* The entry flushed last is live, or it is a tombstone and the key is not live.
Kept(k) == \E i \in Live : k \in Held(i) /\ At(i, k) = truth[k]
Gone(k) == Visible(truth[k]) = 0 /\ \A i \in Live : k \notin Held(i)

\* The live files, newest last, level 1 below level 0.
TruthInv ==
  /\ \A i \in Live : Agrees(i)
  /\ \A k \in Keys : Kept(k) \/ Gone(k)
OrderInv ==
  /\ \A m, n \in DOMAIN l0 : m < n => Older(l0[m], l0[n])
  /\ \A i \in Range(l1), j \in Range(l0) : Older(i, j)
  /\ \A i, j \in Range(l1) : i # j => Apart(i, j)
  /\ \A m, n \in DOMAIN l1 : m < n => Rank(l1[m]) <= Rank(l1[n])

\* A running compaction took all that was live; what came since is newer.
Snapshot(t) ==
  Busy(t) =>
    /\ Inputs(t) \subseteq Live /\ Live \ Inputs(t) \subseteq Range(l0)
    /\ \A i \in Inputs(t), j \in Live \ Inputs(t) : Older(i, j)

\* File j has the newest entry for k among the files of S.
Settles(j, S, k) == k \in Held(j) /\ \A i \in S : At(i, k).ts <= At(j, k).ts

\* The outputs hold the newest entries that are no tombstones, in ranges that
\* are apart.
Written(t) ==
  job[t].pc = "install" =>
    /\ \A i \in Outs(t) : \A k \in Held(i) : \E j \in Inputs(t) :
         Settles(j, Inputs(t), k) /\ ~At(j, k).del /\ At(i, k) = At(j, k)
    /\ \A k \in Keys : (\E j \in Inputs(t) : k \in Held(j)) =>
         \/ \E i \in Outs(t) : k \in Held(i)
         \/ \E j \in Inputs(t) : Settles(j, Inputs(t), k) /\ At(j, k).del
    /\ \A m, n \in DOMAIN job[t].outs : m # n => Apart(job[t].outs[m], job[t].outs[n])

\* One compaction runs at a time, and background ones stay in level 0.
SoloInv ==
  /\ \A t \in Tasks : t \notin work.tasks => job[t].pc = "idle"
  /\ \A t, u \in Tasks : Busy(t) /\ Busy(u) => t = u
  /\ work.tasks \subseteq Autos => \A i \in Ids : file[i].level = 0

ViewParts ==
  TruthInv /\ OrderInv /\ SoloInv /\ \A t \in Tasks : Snapshot(t) /\ Written(t)
ViewInv == work.faults = 0 => ViewParts

\* Where the key ranges are apart and the list is sorted, find_sstable_for_key
\* goes to the file that holds the key.
LEMMA FindFacts ==
  ASSUME TypeInv, OrderInv, NEW k \in Keys, NEW j \in Range(l1), k \in Held(j)
  PROVE  \E n \in DOMAIN l1 : FindSstable(l1, k) = {n} /\ l1[n] = j
<1> DEFINE idx == {n \in DOMAIN l1 : Largest(l1[n]) >= k}
<1>1. DOMAIN l1 = 1..Len(l1) /\ Len(l1) \in Nat /\ \A n \in DOMAIN l1 : l1[n] \in Ids
  BY DEF TypeInv
<1>2. PICK p \in DOMAIN l1 : l1[p] = j
  BY DEF Range
<1>3. k \in Nat
  BY Constants
<1>4. p \in idx /\ Smallest(j) <= k
  BY <1>1, <1>2, <1>3, KeyRange
<1>5. idx \in SUBSET Nat /\ idx # {}
  BY <1>1, <1>4
<1>6. \A n \in idx : n \in DOMAIN l1 /\ Largest(l1[n]) >= k
  OBVIOUS
<1>7. FindSstable(l1, k) = {n \in {Min(idx)} : Smallest(l1[n]) <= k}
  BY <1>5 DEF FindSstable
<1> HIDE DEF idx
<1>8. Min(idx) \in idx /\ \A n \in idx : Min(idx) <= n
  BY <1>5, MinNat
<1>9. PICK q \in DOMAIN l1 : q = Min(idx) /\ q <= p /\ Largest(l1[q]) >= k
  BY <1>4, <1>6, <1>8
<1>10. l1[q] = j
  <2> SUFFICES ASSUME l1[q] # j PROVE FALSE
    OBVIOUS
  <2> DEFINE f == l1[q]
  <2>1. f \in Ids /\ f \in Range(l1) /\ j \in Ids
    BY <1>1, <1>2 DEF Range
  <2>2. Apart(f, j)
    BY <2>1 DEF OrderInv
  <2>3. /\ Smallest(f) \in Held(f) /\ Largest(f) \in Held(f)
        /\ Smallest(f) \in Nat /\ Largest(f) \in Nat
        /\ Smallest(j) \in Held(j) /\ Largest(j) \in Held(j)
        /\ Smallest(j) \in Nat /\ Largest(j) \in Nat
    BY <2>1, KeyRange
  <2>4. q < p /\ q \in Nat /\ p \in Nat
    BY <1>1, <1>2, <1>9
  <2>5. Rank(f) <= Rank(j)
    BY <1>2, <2>4 DEF OrderInv
  <2>6. k < Largest(f) \/ k = Largest(f)
    BY <1>3, <1>9, <2>3
  <2> HIDE DEF f
  <2>7. Largest(j) < Smallest(f) /\ Largest(j) < Largest(f)
    BY <1>3, <2>2, <2>3, <2>6 DEF Apart
  <2>8. Smallest(j) <= NumKeys /\ NumKeys \in Nat
    <3>1. Held(j) \in SUBSET Keys
      BY <2>1, KeyRange
    <3>2. QED
      BY <2>3, <3>1, Constants
  <2>9. Rank(j) < Rank(f)
    BY <2>3, <2>7, <2>8, LeadingDecides DEF Rank
  <2>10. Rank(f) \in Nat /\ Rank(j) \in Nat
    BY <2>1, KeyRange DEF f
  <2>11. QED
    BY <2>5, <2>9, <2>10
<1>11. FindSstable(l1, k) = {q}
  BY <1>4, <1>7, <1>9, <1>10
<1>12. QED
  BY <1>10, <1>11

\* What TruthInv and OrderInv are for: every get finds the value flushed last.
LEMMA ViewIsRight ==
  ASSUME TypeInv, TruthInv, OrderInv
  PROVE  ViewIsTruth
<1> SUFFICES ASSUME NEW k \in Keys PROVE Visible(View(k)) = Visible(truth[k])
  BY DEF ViewIsTruth
<1> DEFINE top == Newest(Range(l0), k)
           S == {l1[n] : n \in FindSstable(l1, k)}
<1>1. /\ l0 \in Seq(Ids) /\ l1 \in Seq(Ids)
      /\ Range(l0) \in SUBSET Ids /\ Range(l1) \in SUBSET Ids
  BY RangeOfSeq DEF TypeInv
<1>2. View(k) = IF top.ts # 0 THEN top ELSE Newest(S, k)
  BY DEF View
<1>3. S \in SUBSET Range(l1)
  <2>1. FindSstable(Level(1), k) \in SUBSET DOMAIN Level(1)
    BY CandidatesType
  <2>2. QED
    BY <2>1 DEF Level, Range
<1>4. /\ top.ts # 0 <=> \E i \in Range(l0) : k \in Held(i)
      /\ \A i \in Range(l0) : At(i, k).ts <= top.ts
      /\ top.ts # 0 => \E i \in Range(l0) : top = At(i, k)
      /\ top \in Entry
  BY <1>1, NewestFacts
<1>5. /\ Newest(S, k).ts # 0 <=> \E i \in S : k \in Held(i)
      /\ Newest(S, k).ts # 0 => \E i \in S : Newest(S, k) = At(i, k)
      /\ Newest(S, k).ts = 0 => Newest(S, k) = NoEntry
  BY <1>1, <1>3, NewestFacts
<1>6. /\ \A i \in Live : Agrees(i)
      /\ Kept(k) \/ Gone(k)
      /\ \A i \in Range(l1), j \in Range(l0) : Older(i, j)
      /\ Live = Range(l0) \cup Range(l1)
  BY DEF TruthInv, OrderInv, Live
<1>7. \A i \in Live : At(i, k).ts \in Nat
  BY <1>1, <1>6, EntryType
<1>8. truth[k].ts \in Nat
  BY DEF TypeInv, Data, Entry
<1> HIDE DEF top, S
<1>9. CASE Kept(k)
  <2>1. PICK j \in Live : k \in Held(j) /\ At(j, k) = truth[k]
    BY <1>9 DEF Kept
  <2>2. CASE top.ts # 0
    <3>1. PICK i \in Range(l0) : top = At(i, k)
      BY <1>4, <2>2
    <3>2. k \in Held(i) /\ At(i, k).ts <= truth[k].ts
      BY <1>6, <2>2, <3>1 DEF Held, Agrees
    <3>3. j \in Range(l0)
      <4>1. j \in Range(l1) => At(j, k).ts < At(i, k).ts
        BY <1>6, <2>1, <3>2 DEF Older
      <4>2. QED
        BY <1>6, <1>7, <1>8, <2>1, <3>2, <4>1
    <3>4. At(i, k).ts = truth[k].ts
      BY <1>4, <1>6, <1>7, <1>8, <2>1, <3>1, <3>2, <3>3
    <3>5. top = truth[k]
      BY <1>6, <3>1, <3>2, <3>4 DEF Agrees
    <3>6. QED
      BY <1>2, <2>2, <3>5
  <2>3. CASE top.ts = 0
    <3>1. j \in Range(l1)
      BY <1>4, <1>6, <2>1, <2>3
    <3>2. PICK n \in DOMAIN l1 : FindSstable(l1, k) = {n} /\ l1[n] = j
      BY <2>1, <3>1, FindFacts
    <3>3. S = {j}
      BY <3>2 DEF S
    <3>4. Newest(S, k) = At(j, k)
      BY <1>5, <2>1, <3>3
    <3>5. QED
      BY <1>2, <2>1, <2>3, <3>4
  <2>4. QED
    BY <2>2, <2>3
<1>10. CASE Gone(k)
  <2>1. Visible(truth[k]) = 0 /\ \A i \in Live : k \notin Held(i)
    BY <1>10 DEF Gone
  <2>2. top.ts = 0
    BY <1>4, <1>6, <2>1
  <2>3. Newest(S, k) = NoEntry
    BY <1>3, <1>5, <1>6, <2>1
  <2>4. Visible(NoEntry) = 0
    BY DEF Visible, NoEntry
  <2>5. QED
    BY <1>2, <2>1, <2>2, <2>3, <2>4
<1>11. QED
  BY <1>6, <1>9, <1>10

\* Files never change: what compares two of them stays true.
FilesStay == Ids \in SUBSET Ids' /\ \A i \in Ids : file'[i] = file[i]
LEMMA Stable ==
  ASSUME TypeInv, FilesStay
  PROVE  /\ \A i \in Ids : Held(i)' = Held(i) /\ \A k \in Keys : At(i, k)' = At(i, k)
         /\ \A i \in Ids : Rank(i)' = Rank(i)
         /\ \A i, j \in Ids : Older(i, j)' <=> Older(i, j)
         /\ \A i, j \in Ids : Apart(i, j)' <=> Apart(i, j)
         /\ truth' = truth => \A i \in Ids : Agrees(i)' <=> Agrees(i)
<1>1. \A i \in Ids : \A k \in Keys : At(i, k)' = At(i, k)
  BY DEF At, FilesStay
<1>2. \A i \in Ids : Held(i)' = Held(i)
  BY <1>1 DEF Held
<1>3. \A i \in Ids : Rank(i)' = Rank(i)
  BY <1>2 DEF Rank, Largest, Smallest
<1>4. \A i \in Ids : Held(i) \in SUBSET Keys
  BY DEF Held
<1>5. \A i, j \in Ids : Older(i, j)' <=> Older(i, j)
  BY <1>1, <1>2, <1>4 DEF Older
<1>6. \A i, j \in Ids : Apart(i, j)' <=> Apart(i, j)
  BY <1>2 DEF Apart
<1>7. ASSUME truth' = truth, NEW i \in Ids PROVE Agrees(i)' <=> Agrees(i)
  BY <1>1, <1>2, <1>4, <1>7 DEF Agrees
<1>8. QED
  BY <1>1, <1>2, <1>3, <1>5, <1>6, <1>7

\* Steps that leave the lists and the truth alone keep their relations.
LEMMA TruthFrame ==
  ASSUME TypeInv, FilesStay, UNCHANGED <<l0, l1, truth>>, TruthInv, OrderInv
  PROVE  TruthInv' /\ OrderInv'
<1>1. /\ \A i \in Ids : Held(i)' = Held(i) /\ \A k \in Keys : At(i, k)' = At(i, k)
      /\ \A i \in Ids : Rank(i)' = Rank(i)
      /\ \A i, j \in Ids : Older(i, j)' <=> Older(i, j)
      /\ \A i, j \in Ids : Apart(i, j)' <=> Apart(i, j)
      /\ \A i \in Ids : Agrees(i)' <=> Agrees(i)
  BY Stable
<1>2. /\ Live' = Live /\ Live \in SUBSET Ids
      /\ Range(l0) \in SUBSET Ids /\ Range(l1) \in SUBSET Ids
      /\ \A n \in DOMAIN l0 : l0[n] \in Ids
      /\ \A n \in DOMAIN l1 : l1[n] \in Ids
  BY RangeOfSeq DEF Live, TypeInv
<1>3. \A i \in Live : Agrees(i)'
  BY <1>1, <1>2 DEF TruthInv
<1>4. ASSUME NEW k \in Keys PROVE Kept(k)' \/ Gone(k)'
  <2>1. CASE Kept(k)
    BY <1>1, <1>2, <2>1 DEF Kept
  <2>2. CASE Gone(k)
    BY <1>1, <1>2, <2>2 DEF Gone, Visible
  <2>3. QED
    BY <2>1, <2>2 DEF TruthInv
<1>5. TruthInv'
  BY <1>2, <1>3, <1>4 DEF TruthInv
<1>6. OrderInv'
  BY <1>1, <1>2 DEF OrderInv
<1>7. QED
  BY <1>5, <1>6

\* So do the outputs of compactions that do not move ...
LEMMA WrittenFrame ==
  ASSUME TypeInv, FilesStay, NEW t \in Tasks, job'[t] = job[t], Written(t)
  PROVE  Written(t)'
<1>1. /\ \A i \in Ids : Held(i)' = Held(i) /\ \A k \in Keys : At(i, k)' = At(i, k)
      /\ \A i, j \in Ids : Apart(i, j)' <=> Apart(i, j)
  BY Stable
<1>2. /\ Inputs(t) \in SUBSET Ids /\ Outs(t) \in SUBSET Ids /\ job[t].outs \in Seq(Ids)
      /\ \A i \in Ids : Held(i) \in SUBSET Keys
  BY JobType DEF Held
<1>3. /\ Inputs(t)' = Inputs(t) /\ Outs(t)' = Outs(t)
      /\ job'[t].pc = job[t].pc /\ job'[t].outs = job[t].outs
  BY DEF Inputs, Outs
<1>4. \A j \in Inputs(t), k \in Keys :
        Settles(j, Inputs(t), k)' <=> Settles(j, Inputs(t), k)
  BY <1>1, <1>2, <1>3 DEF Settles
<1>5. \A m \in DOMAIN job[t].outs : job[t].outs[m] \in Ids
  BY <1>2
<1> SUFFICES ASSUME job[t].pc = "install"
             PROVE  /\ \A i \in Outs(t) : \A k \in Held(i)' : \E j \in Inputs(t) :
                         /\ Settles(j, Inputs(t), k)'
                         /\ ~At(j, k)'.del /\ At(i, k)' = At(j, k)'
                    /\ \A k \in Keys : (\E j \in Inputs(t) : k \in Held(j)') =>
                         \/ \E i \in Outs(t) : k \in Held(i)'
                         \/ \E j \in Inputs(t) :
                              Settles(j, Inputs(t), k)' /\ At(j, k)'.del
                    /\ \A m, n \in DOMAIN job[t].outs : m # n =>
                         Apart(job[t].outs[m], job[t].outs[n])'
  BY <1>3 DEF Written
<1>6. ASSUME NEW i \in Outs(t), NEW k \in Held(i)
      PROVE  \E j \in Inputs(t) : /\ Settles(j, Inputs(t), k)'
                                  /\ ~At(j, k)'.del /\ At(i, k)' = At(j, k)'
  <2>1. k \in Keys
    BY <1>2
  <2>2. PICK j \in Inputs(t) :
          Settles(j, Inputs(t), k) /\ ~At(j, k).del /\ At(i, k) = At(j, k)
    BY DEF Written
  <2>3. QED
    BY <1>1, <1>2, <1>4, <2>1, <2>2
<1>7. ASSUME NEW k \in Keys, NEW j \in Inputs(t), k \in Held(j)
      PROVE  \/ \E i \in Outs(t) : k \in Held(i)'
             \/ \E jj \in Inputs(t) : Settles(jj, Inputs(t), k)' /\ At(jj, k)'.del
  <2>1. \/ \E i \in Outs(t) : k \in Held(i)
        \/ \E jj \in Inputs(t) : Settles(jj, Inputs(t), k) /\ At(jj, k).del
    BY <1>7 DEF Written
  <2>2. QED
    BY <1>1, <1>2, <1>4, <2>1
<1>8. \A m, n \in DOMAIN job[t].outs : m # n => Apart(job[t].outs[m], job[t].outs[n])'
  <2>1. \A m, n \in DOMAIN job[t].outs : m # n =>
          Apart(job[t].outs[m], job[t].outs[n])
    BY DEF Written
  <2>2. QED
    BY <1>1, <1>3, <1>5, <2>1 DEF Apart
<1>9. QED
  BY <1>1, <1>2, <1>6, <1>7, <1>8

\* ... and their snapshots.
LEMMA JobFrame ==
  ASSUME TypeInv, FilesStay, UNCHANGED <<l0, l1>>, NEW t \in Tasks,
         job'[t] = job[t] \/ job'[t].pc \in {"idle", "mark", "unlink"},
         Snapshot(t), Written(t)
  PROVE  Snapshot(t)' /\ Written(t)'
<1>1. CASE job'[t].pc \in {"idle", "mark", "unlink"}
  BY <1>1 DEF Snapshot, Written, Busy
<1>2. CASE job'[t] = job[t]
  <2>1. Live' = Live /\ Live \in SUBSET Ids /\ Inputs(t) \in SUBSET Ids
    BY RangeOfSeq, JobType DEF Live, TypeInv
  <2>2. Inputs(t)' = Inputs(t) /\ (Busy(t)' <=> Busy(t))
    BY <1>2 DEF Inputs, Busy
  <2>3. \A i, j \in Ids : Older(i, j)' <=> Older(i, j)
    BY Stable
  <2>4. Snapshot(t)'
    BY <2>1, <2>2, <2>3 DEF Snapshot
  <2>5. QED
    BY <1>2, <2>4, WrittenFrame
<1>3. QED
  BY <1>1, <1>2

\* Which tasks may run.
LEMMA SoloFacts ==
  ASSUME TypeInv, SoloInv, SoloWorkloads, work.faults = 0,
         NEW t \in Tasks, t \in work.tasks \/ job[t].pc # "idle"
  PROVE  /\ t \in work.tasks
         /\ t \in Autos => work.tasks \subseteq Autos
         /\ t \in Manuals => \A u \in Tasks : u # t => job[u].pc = "idle"
<1>1. t \in work.tasks
  BY DEF SoloInv
<1>2. \/ work.tasks \subseteq Autos
      \/ work.tasks \subseteq Manuals /\ \A u, v \in work.tasks : u = v
  BY DEF SoloWorkloads, TypeInv
<1>3. QED
  BY <1>1, <1>2, CompactionAssumption DEF SoloInv

\* Background compactions alone leave level 1 empty.
LEMMA LevelOneEmpty ==
  ASSUME FilesInv, SoloInv, work.tasks \subseteq Autos
  PROVE  l1 = <<>> /\ Range(l1) = {} /\ Live = Range(l0)
<1>1. l1 \in Seq(Ids) /\ Range(l1) \in SUBSET Ids
  BY RangeOfSeq DEF FilesInv, TypeInv
<1>2. Range(l1) = {}
  BY <1>1 DEF FilesInv, LevelsInv, SoloInv
<1>3. QED
  BY <1>1, <1>2, RangeFacts DEF Live

\* Steps of gets, and steps of a compaction that only ends or reclaims.
LEMMA ViewQuiet ==
  ASSUME TypeInv, ViewParts, file' = file,
         UNCHANGED <<work, l0, l1, truth>>,
         \A t \in Tasks : \/ job'[t] = job[t]
                          \/ /\ job'[t].pc \in {"idle", "mark", "unlink"}
                             /\ t \in work.tasks
  PROVE  ViewParts'
<1>1. FilesStay
  BY DEF FilesStay, Ids
<1>2. TruthInv' /\ OrderInv'
  BY <1>1, TruthFrame DEF ViewParts
<1>3. \A t \in Tasks : Snapshot(t)' /\ Written(t)'
  BY <1>1, JobFrame DEF ViewParts
<1>4. SoloInv'
  <2>1. SoloInv
    BY DEF ViewParts
  <2>2. \A t \in Tasks : t \notin work'.tasks => job'[t].pc = "idle"
    BY <2>1 DEF SoloInv
  <2>3. \A t \in Tasks : Busy(t)' => Busy(t)
    BY DEF Busy
  <2>4. Ids' = Ids
    BY DEF Ids
  <2>5. QED
    BY <2>1, <2>2, <2>3, <2>4 DEF SoloInv
<1>5. QED
  BY <1>2, <1>3, <1>4 DEF ViewParts

\* A snapshot takes all that is live.
LEMMA ViewSnapshot ==
  ASSUME FilesInv, ViewParts, LeveledOnly, SoloWorkloads, work.faults = 0,
         NEW t \in work.tasks, t \in Tasks,
         ManualSnapshot(t) \/ \E level \in {0, 1} : AutoSnapshot(t, level)
  PROVE  ViewParts'
<1>1. TypeInv /\ TruthInv /\ OrderInv /\ SoloInv /\ LevelsInv /\ BusyInv
  BY DEF FilesInv, ViewParts
<1>2. UNCHANGED <<work, file, l0, l1, truth>> /\ FilesStay
  BY DEF ManualSnapshot, AutoSnapshot, bounds, FilesStay, Ids
<1>3. /\ t \in Autos => work.tasks \subseteq Autos
      /\ t \in Manuals => \A u \in Tasks : u # t => job[u].pc = "idle"
  BY <1>1, SoloFacts
<1>4. Live' = Live
  BY <1>2 DEF Live
<1>5. /\ \E j : job' = [job EXCEPT ![t] = j]
      /\ Inputs(t)' = Live /\ job'[t].pc = "merge"
      /\ \A u \in Tasks : u # t => ~Busy(u)
  <2>1. CASE ManualSnapshot(t)
    <3> DEFINE inputs == Without(l0 \o l1, marked)
               j == [pc |-> "merge", level |-> 1, inputs |-> inputs,
                     outs |-> <<>>, rest |-> <<>>]
    <3>1. t \in Manuals /\ job' = [job EXCEPT ![t] = j]
      BY <2>1 DEF ManualSnapshot
    <3>2. l0 \in Seq(Ids) /\ l1 \in Seq(Ids)
      BY <1>1 DEF TypeInv
    <3>3. l0 \o l1 \in Seq(Ids) /\ Range(l0 \o l1) = Live
      BY <3>2, ConcatProperties, RangeFacts DEF Live
    <3>4. Range(inputs) = Live \ marked /\ Live \ marked = Live
      BY <1>1, <3>3, WithoutFacts DEF LevelsInv
    <3>5. job'[t] = j
      BY <1>1, <3>1, OtherJobs
    <3>6. job'[t].pc = "merge" /\ job'[t].inputs = inputs
      BY <3>5
    <3> HIDE DEF inputs
    <3> HIDE DEF j
    <3>7. Inputs(t)' = Live
      BY <3>4, <3>6 DEF Inputs
    <3>8. QED
      BY <1>3, <3>1, <3>6, <3>7 DEF Busy
  <2>2. ASSUME NEW level \in {0, 1}, AutoSnapshot(t, level)
        PROVE  /\ \E j : job' = [job EXCEPT ![t] = j]
               /\ Inputs(t)' = Live /\ job'[t].pc = "merge"
               /\ \A u \in Tasks : u # t => ~Busy(u)
    <3> DEFINE s == Level(level)
               j(g) == [pc |-> "merge", level |-> level, inputs |-> g,
                        outs |-> <<>>, rest |-> Without(s, Range(g))]
    <3>1. t \in Autos /\ ~compacting /\ ShouldCompact(level)
      BY <2>2 DEF AutoSnapshot
    <3>2. l1 = <<>> /\ Live = Range(l0)
      BY <1>1, <1>3, <3>1, LevelOneEmpty
    <3>3. level = 0 /\ s = l0
      BY <3>1, <3>2 DEF ShouldCompact, Level
    <3>4. PICK g \in Selected(s) : job' = [job EXCEPT ![t] = j(g)]
      BY <2>2 DEF AutoSnapshot
    <3>5. g = l0
      BY <3>3, <3>4 DEF Selected
    <3>6. job'[t] = j(g)
      BY <1>1, <3>4, OtherJobs
    <3>7. job'[t].pc = "merge" /\ Inputs(t)' = Live
      BY <3>2, <3>5, <3>6 DEF Inputs
    <3>8. ASSUME NEW u \in Tasks, u # t PROVE ~Busy(u)
      <4>1. CASE u \in Autos
        BY <1>1, <3>1, <4>1 DEF BusyInv, Running
      <4>2. CASE u \notin Autos
        BY <1>1, <1>3, <3>1, <4>2 DEF SoloInv, Busy
      <4>3. QED
        BY <4>1, <4>2
    <3> HIDE DEF j
    <3>9. QED
      BY <3>4, <3>7, <3>8
  <2>3. QED
    BY <2>1, <2>2
<1>6. TruthInv' /\ OrderInv'
  BY <1>1, <1>2, TruthFrame
<1>7. PICK j : job' = [job EXCEPT ![t] = j]
  BY <1>5
<1>8. \A u \in Tasks : u # t => job'[u] = job[u]
  BY <1>1, <1>7, OtherJobs
<1>9. Snapshot(t)' /\ Written(t)'
  BY <1>4, <1>5 DEF Snapshot, Written
<1>10. \A u \in Tasks : u # t => Snapshot(u)' /\ Written(u)'
  BY <1>1, <1>2, <1>8, JobFrame DEF ViewParts
<1>11. SoloInv'
  <2>1. \A u \in Tasks : u # t => ~Busy(u)'
    BY <1>5, <1>8 DEF Busy
  <2>2. \A u \in Tasks : u \notin work'.tasks => job'[u].pc = "idle"
    BY <1>1, <1>2, <1>8 DEF SoloInv
  <2>3. Ids' = Ids
    BY <1>2 DEF Ids
  <2>4. QED
    BY <1>1, <1>2, <2>1, <2>2, <2>3 DEF SoloInv
<1>12. QED
  BY <1>6, <1>9, <1>10, <1>11 DEF ViewParts

\* A merge writes the newest entry of every key, or drops a tombstone.
LEMMA MergeContent ==
  ASSUME TypeInv, NEW t \in Tasks, NEW cuts, Merge(t, cuts)
  PROVE  /\ FilesStay /\ Written(t)' /\ Inputs(t)' = Inputs(t)
         /\ \A i \in Ids' \ Ids : Inputs(t) # {}
<1> PICK fs : MergeWrites(t, cuts, fs)
  BY MergeFacts
<1> DEFINE S == Inputs(t)
           N == Range(NewIds(fs))
<1>1. /\ fs \in Seq(File) /\ file' = file \o fs
      /\ \A n \in 1..Len(fs) : \E k \in Keys : fs[n].data[k].ts # 0
  BY DEF MergeWrites
<1>2. /\ \A n \in 1..Len(fs) : \A k \in Keys :
           fs[n].data[k] \in {NoEntry, Deduplicate(S, k)}
      /\ \A k \in Keys : Deduplicate(S, k).ts # 0 =>
           \E n \in 1..Len(fs) : fs[n].data[k] = Deduplicate(S, k)
  BY DEF MergeWrites
<1>3. /\ InKeyOrder(fs)
      /\ job' = [job EXCEPT ![t] = [job[t] EXCEPT !.pc = "install",
                                                  !.outs = NewIds(fs)]]
  BY DEF MergeWrites
<1>4. /\ FilesStay
      /\ \A i \in N : \E n \in 1..Len(fs) : file'[i] = fs[n]
      /\ \A n \in 1..Len(fs) : Len(file) + n \in N /\ file'[Len(file) + n] = fs[n]
      /\ N = Ids' \ Ids
  BY <1>1, Grow DEF FilesStay
<1>5. /\ \A i \in Ids : Held(i)' = Held(i) /\ \A k \in Keys : At(i, k)' = At(i, k)
  BY <1>4, Stable
<1>6. S \in SUBSET Ids /\ job[t] \in Job
  BY JobType
<1>7. \A i \in N : \A k \in Keys : At(i, k)' = file'[i].data[k]
  BY DEF At
<1>8. NewIds(fs) = [n \in 1..Len(fs) |-> Len(file) + n]
  BY DEF NewIds
<1>9. job'[t].outs = NewIds(fs) /\ Outs(t)' = N /\ Inputs(t)' = S /\ job'[t].pc = "install"
  <2>1. job'[t] = [job[t] EXCEPT !.pc = "install", !.outs = NewIds(fs)]
    BY <1>3, OtherJobs
  <2>2. /\ job'[t].outs = NewIds(fs) /\ job'[t].inputs = job[t].inputs
        /\ job'[t].pc = "install"
    BY <1>6, <2>1 DEF Job
  <2>3. QED
    BY <2>2 DEF Outs, Inputs
<1> HIDE DEF S, N
<1>10. ASSUME NEW k \in Keys, Newest(S, k).ts # 0
       PROVE  \E j \in S : Newest(S, k) = At(j, k) /\ Settles(j, S, k)
  <2>1. PICK j \in S : Newest(S, k) = At(j, k)
    BY <1>6, <1>10, NewestFacts
  <2>2. \A i \in S : At(i, k).ts <= Newest(S, k).ts
    BY <1>6, NewestFacts
  <2>3. QED
    BY <1>10, <2>1, <2>2 DEF Settles, Held
<1>11. \A j \in S, k \in Keys : Settles(j, Inputs(t), k)' <=> Settles(j, S, k)
  BY <1>5, <1>6, <1>9 DEF Settles
<1>12. ASSUME NEW i \in N, NEW k \in Held(i)'
       PROVE  \E j \in S : /\ Settles(j, Inputs(t), k)'
                           /\ ~At(j, k)'.del /\ At(i, k)' = At(j, k)'
  <2>1. k \in Keys /\ At(i, k)'.ts # 0
    BY DEF Held
  <2>2. PICK n \in 1..Len(fs) : file'[i] = fs[n]
    BY <1>4
  <2>3. At(i, k)' \in {NoEntry, Deduplicate(S, k)}
    BY <1>2, <1>7, <2>1, <2>2
  <2>4. At(i, k)' = Deduplicate(S, k) /\ Deduplicate(S, k).ts # 0
    BY <2>1, <2>3 DEF NoEntry
  <2>5. Deduplicate(S, k) = Newest(S, k) /\ Newest(S, k).ts # 0 /\ ~Newest(S, k).del
    BY <1>6, <2>1, <2>4, DeduplicateFacts
  <2>6. PICK j \in S : Newest(S, k) = At(j, k) /\ Settles(j, S, k)
    BY <1>10, <2>1, <2>5
  <2>7. QED
    BY <1>5, <1>6, <1>11, <2>1, <2>4, <2>5, <2>6
<1>13. ASSUME NEW k \in Keys, NEW j \in S, k \in Held(j)'
       PROVE  \/ \E i \in N : k \in Held(i)'
              \/ \E jj \in S : Settles(jj, Inputs(t), k)' /\ At(jj, k)'.del
  <2>1. Newest(S, k).ts # 0
    BY <1>5, <1>6, <1>13, NewestFacts
  <2>2. PICK jj \in S : Newest(S, k) = At(jj, k) /\ Settles(jj, S, k)
    BY <1>10, <2>1
  <2>3. CASE Newest(S, k).del
    BY <1>5, <1>6, <1>11, <2>2, <2>3
  <2>4. CASE ~Newest(S, k).del
    <3>1. Deduplicate(S, k).ts # 0
      BY <1>6, <2>1, <2>4, DeduplicateFacts
    <3>2. PICK n \in 1..Len(fs) : fs[n].data[k] = Deduplicate(S, k)
      BY <1>2, <3>1
    <3>3. Len(file) + n \in N /\ file'[Len(file) + n] = fs[n]
      BY <1>4
    <3>4. PICK i \in N : file'[i] = fs[n]
      BY <3>3
    <3>5. At(i, k)'.ts # 0
      BY <1>7, <3>1, <3>2, <3>4
    <3>6. QED
      BY <3>5 DEF Held
  <2>5. QED
    BY <2>3, <2>4
<1>14. ASSUME NEW m \in 1..Len(fs), NEW n \in 1..Len(fs), m # n, NEW a, NEW b,
              a = Len(file) + m, b = Len(file) + n
       PROVE  Apart(a, b)'
  <2>1. a \in N /\ file'[a] = fs[m] /\ b \in N /\ file'[b] = fs[n]
    BY <1>4, <1>14
  <2>2. /\ \A x \in Held(a)' : x \in Keys /\ fs[m].data[x].ts # 0
        /\ \A x \in Held(b)' : x \in Keys /\ fs[n].data[x].ts # 0
    BY <2>1 DEF Held, At
  <2>3. m < n \/ n < m
    BY <1>14
  <2>4. \/ \A x \in Held(a)', y \in Held(b)' : x < y
        \/ \A x \in Held(a)', y \in Held(b)' : y < x
    BY <1>3, <2>2, <2>3 DEF InKeyOrder
  <2>5. QED
    BY <2>4 DEF Apart
<1>15. Written(t)'
  <2>1. ASSUME NEW m \in DOMAIN job'[t].outs, NEW n \in DOMAIN job'[t].outs, m # n
        PROVE  Apart(job[t].outs[m], job[t].outs[n])'
    <3>1. m \in 1..Len(fs) /\ n \in 1..Len(fs)
      BY <1>8, <1>9
    <3>2. PICK a, b : a = Len(file) + m /\ b = Len(file) + n
      OBVIOUS
    <3>3. job'[t].outs[m] = a /\ job'[t].outs[n] = b
      BY <1>8, <1>9, <3>1, <3>2
    <3>4. Apart(a, b)'
      BY <1>14, <2>1, <3>1, <3>2
    <3>5. QED
      BY <3>3, <3>4 DEF Apart, Held, At
  <2>2. QED
    BY <1>9, <1>12, <1>13, <2>1 DEF Written
<1>16. ASSUME NEW i \in N PROVE S # {}
  <2>1. PICK k \in Keys : k \in Held(i)'
    <3>1. PICK n \in 1..Len(fs) : file'[i] = fs[n]
      BY <1>4
    <3>2. PICK k \in Keys : fs[n].data[k].ts # 0
      BY <1>1
    <3>3. At(i, k)'.ts # 0
      BY <1>7, <3>1, <3>2
    <3>4. QED
      BY <3>3 DEF Held
  <2>2. QED
    BY <1>12, <2>1
<1>17. QED
  BY <1>4, <1>9, <1>15, <1>16 DEF S

LEMMA ViewMerge ==
  ASSUME FilesInv, ViewParts, NEW t \in Tasks, NEW cuts, Merge(t, cuts)
  PROVE  ViewParts'
<1>1. TypeInv /\ TruthInv /\ OrderInv /\ SoloInv /\ BusyInv
  BY DEF FilesInv, ViewParts
<1>2. UNCHANGED <<work, l0, l1, truth>> /\ job[t].pc = "merge" /\ Busy(t)
  BY DEF Merge, bounds, Busy
<1>3. /\ FilesStay /\ Written(t)' /\ Inputs(t)' = Inputs(t)
      /\ \A i \in Ids' \ Ids : Inputs(t) # {}
  BY <1>1, MergeContent
<1>4. PICK s : job' = [job EXCEPT ![t] = [job[t] EXCEPT !.pc = "install",
                                                       !.outs = s]]
  BY <1>1, MergeIds
<1>5. \A u \in Tasks : u # t => job'[u] = job[u]
  BY <1>1, <1>4, OtherJobs
<1>6. TruthInv' /\ OrderInv'
  BY <1>1, <1>2, <1>3, TruthFrame
<1>7. ASSUME NEW u \in Tasks, u # t PROVE Snapshot(u)' /\ Written(u)'
  BY <1>1, <1>2, <1>3, <1>5, <1>7, JobFrame DEF ViewParts
<1>8. Live' = Live /\ Live \in SUBSET Ids /\ Inputs(t) \in SUBSET Ids
  BY <1>1, <1>2, RangeOfSeq, JobType DEF Live, TypeInv
<1>9. Snapshot(t)'
  <2>1. /\ Inputs(t) \subseteq Live /\ Live \ Inputs(t) \subseteq Range(l0)
        /\ \A i \in Inputs(t), j \in Live \ Inputs(t) : Older(i, j)
    BY <1>2 DEF ViewParts, Snapshot
  <2>2. \A i, j \in Ids : Older(i, j)' <=> Older(i, j)
    BY <1>1, <1>3, Stable
  <2>3. QED
    BY <1>2, <1>3, <1>8, <2>1, <2>2 DEF Snapshot
<1>10. SoloInv'
  <2>1. \A u \in Tasks : u \notin work'.tasks => job'[u].pc = "idle"
    BY <1>1, <1>2, <1>5 DEF SoloInv
  <2>2. \A u \in Tasks : Busy(u)' => Busy(u)
    BY <1>2, <1>5 DEF Busy
  <2>3. ASSUME work.tasks \subseteq Autos, NEW i \in Ids' PROVE file'[i].level = 0
    <3>1. CASE i \in Ids
      BY <1>1, <1>3, <2>3, <3>1 DEF SoloInv, FilesStay
    <3>2. CASE i \notin Ids
      <4>1. PICK j \in Inputs(t) : TRUE
        BY <1>3, <2>3, <3>2
      <4>2. t \in Autos
        BY <1>1, <1>2, <2>3 DEF SoloInv
      <4>3. file[j].level = job[t].level /\ file[j].level = 0
        BY <1>1, <1>2, <1>8, <2>3, <4>1, <4>2 DEF BusyInv, Running, SoloInv
      <4>4. QED
        BY <1>1, <2>3, <3>2, <4>3, MergeIds
    <3>3. QED
      BY <3>1, <3>2
  <2>4. QED
    BY <1>1, <1>2, <2>1, <2>2, <2>3 DEF SoloInv
<1>11. QED
  BY <1>3, <1>6, <1>7, <1>9, <1>10 DEF ViewParts

\* Without keeps the order of a list.
LEMMA WithoutOrder ==
  ASSUME NEW T, NEW s \in Seq(T), NEW S,
         NEW m \in DOMAIN Without(s, S), NEW n \in DOMAIN Without(s, S), m < n
  PROVE  \E p, q \in DOMAIN s :
           p < q /\ s[p] = Without(s, S)[m] /\ s[q] = Without(s, S)[n]
<1> DEFINE P == {x \in DOMAIN s : s[x] \notin S}
           c == Cardinality(P)
           a == Ascending(P)
<1>1. DOMAIN s = 1..Len(s) /\ Len(s) \in Nat
  OBVIOUS
<1>2. P \in SUBSET DOMAIN s /\ P \in SUBSET Nat /\ IsFiniteSet(P)
  <2>1. IsFiniteSet(1..Len(s))
    BY <1>1, FS_Interval
  <2>2. QED
    BY <1>1, <2>1, FS_Subset
<1>3. Without(s, S) = [x \in 1..c |-> s[a[x]]]
  BY DEF Without, Pick
<1> HIDE DEF P
<1>4. /\ c \in Nat /\ a \in [1..c -> P]
      /\ \A x, y \in 1..c : x < y => a[x] < a[y]
  BY <1>2, AscendingFacts
<1> HIDE DEF a, c
<1>5. m \in 1..c /\ n \in 1..c
  BY <1>3
<1>6. a[m] \in DOMAIN s /\ a[n] \in DOMAIN s /\ a[m] < a[n]
  BY <1>2, <1>4, <1>5
<1>7. Without(s, S)[m] = s[a[m]] /\ Without(s, S)[n] = s[a[n]]
  BY <1>3, <1>5
<1>8. QED
  BY <1>6, <1>7

\* The lists that an install leaves: the inputs make place for the outputs,
\* which go before, or below, what was flushed meanwhile.
LEMMA InstallLists ==
  ASSUME FilesInv, ViewParts, LeveledOnly, SoloWorkloads, work.faults = 0,
         NEW t \in Tasks, Install(t)
  PROVE  LET C == Concurrent(t, l0) IN
         /\ C \in Seq(Ids) /\ Range(C) = Live \ Inputs(t)
         /\ \/ /\ t \in Autos /\ l0' = job[t].outs \o C /\ Range(l1') = {}
            \/ /\ t \in Autos /\ Outs(t) = {} /\ Inputs(t) = {}
               /\ l0' = l0 /\ Range(l1') = {} /\ Live = Range(l0)
            \/ /\ l0' = C /\ l1' = SortLeveled(job[t].outs)
         /\ Live' = (Live \ Inputs(t)) \cup Outs(t)
<1> DEFINE C == Concurrent(t, l0)
           D == Concurrent(t, l1)
<1>1. TypeInv /\ LevelsInv /\ BusyInv /\ SoloInv /\ Snapshot(t) /\ Written(t)
  BY DEF FilesInv, ViewParts
<1>2. job[t].pc = "install" /\ Busy(t)
  BY DEF Install, Busy
<1>3. /\ Inputs(t) \subseteq Live /\ Live \ Inputs(t) \subseteq Range(l0)
  BY <1>1, <1>2 DEF Snapshot
<1>4. Live = Range(l0) \cup Range(l1) /\ Live' = Range(l0') \cup Range(l1')
  BY DEF Live
<1>5. /\ l0 \in Seq(Ids) /\ l1 \in Seq(Ids) /\ job[t].outs \in Seq(Ids)
      /\ job[t].rest \in Seq(Ids)
  BY <1>1, JobType DEF TypeInv
<1>6. Rest(t) = {} /\ job[t].rest = <<>>
  BY <1>1, <1>5, RangeFacts DEF BusyInv, Rest
<1>7. C \in Seq(Ids) /\ Range(C) = Live \ Inputs(t)
  BY <1>1, <1>3, <1>4, <1>5, <1>6, ConcurrentFacts DEF LevelsInv
<1>8. ASSUME Range(l1) \subseteq Inputs(t) PROVE D = <<>>
  <2>1. D \in Seq(Ids) /\ Range(D) = {}
    BY <1>1, <1>5, <1>8, ConcurrentFacts
  <2>2. QED
    BY <2>1, RangeFacts
<1>9. job[t].rest \o job[t].outs = job[t].outs
  BY <1>5, <1>6
<1> HIDE DEF C, D
<1>10. CASE t \in Manuals
  <2>1. t \notin Autos
    BY <1>10, CompactionAssumption
  <2>2. l0' = C /\ l1' = SortLeveled(job[t].outs \o D)
    BY <2>1 DEF Install, C, D
  <2>3. Range(l1) \subseteq Inputs(t)
    <3>1. ASSUME NEW i \in Range(l1), i \notin Inputs(t) PROVE FALSE
      <4>1. i \in Range(l0)
        BY <1>3, <1>4, <3>1
      <4>2. file[i].level = 0 /\ file[i].level = 1
        BY <1>1, <3>1, <4>1 DEF LevelsInv
      <4>3. QED
        BY <4>2
    <3>2. QED
      BY <3>1
  <2>4. job[t].outs \o D = job[t].outs
    BY <1>5, <1>8, <2>3
  <2>5. Range(l1') = Outs(t)
    BY <1>1, <1>5, <2>2, <2>4, SortFacts DEF Outs
  <2>6. QED
    BY <1>4, <1>7, <2>2, <2>4, <2>5 DEF C
<1>11. CASE t \in Autos
  <2>1. work.tasks \subseteq Autos
    BY <1>1, <1>2, <1>11, SoloFacts
  <2>2. l1 = <<>> /\ Range(l1) = {} /\ Live = Range(l0)
    BY <1>1, <2>1, LevelOneEmpty
  <2>3. CASE job[t].level = 0
    <3>1. l0' = job[t].outs \o C /\ l1' = l1
      BY <1>9, <1>11, <2>3 DEF Install, C
    <3>2. Range(l0') = Outs(t) \cup Range(C)
      BY <1>5, <1>7, <3>1, RangeFacts DEF Outs
    <3>3. QED
      BY <1>4, <1>7, <1>11, <2>2, <3>1, <3>2 DEF C
  <2>4. CASE job[t].level # 0
    <3>1. Inputs(t) = {}
      <4>1. ASSUME NEW i \in Inputs(t) PROVE FALSE
        <5>1. i \in Ids /\ file[i].level = job[t].level
          BY <1>1, <1>2, <1>11, <4>1, JobType DEF BusyInv, Running
        <5>2. QED
          BY <1>1, <2>1, <2>4, <5>1 DEF SoloInv
      <4>2. QED
        BY <4>1
    <3>2. Outs(t) = {}
      <4>1. ASSUME NEW i \in Outs(t) PROVE FALSE
        <5>1. i \in Ids /\ Held(i) # {}
          BY <1>1, JobType DEF TypeInv
        <5>2. QED
          BY <1>1, <1>2, <3>1, <5>1 DEF Written
      <4>2. QED
        BY <4>1
    <3>3. l0' = l0 /\ l1' = job[t].outs \o D
      BY <1>9, <1>11, <2>4 DEF Install, D
    <3>4. D = <<>> /\ job[t].outs = <<>>
      <4>1. D = <<>>
        BY <1>8, <2>2
      <4>2. job[t].outs = <<>>
        BY <1>5, <3>2, RangeFacts DEF Outs
      <4>3. QED
        BY <4>1, <4>2
    <3>5. Range(l1') = {}
      BY <1>5, <3>3, <3>4, RangeFacts
    <3>6. QED
      BY <1>4, <1>7, <1>11, <2>2, <3>1, <3>2, <3>3, <3>5 DEF C
  <2>5. QED
    BY <2>3, <2>4
<1>12. QED
  BY <1>10, <1>11 DEF Tasks

\* An output agrees with the truth, and what was flushed meanwhile is newer.
LEMMA OutputFacts ==
  ASSUME TypeInv, ViewParts, NEW t \in Tasks, job[t].pc = "install"
  PROVE  /\ \A i \in Outs(t) : Agrees(i)
         /\ \A i \in Outs(t), j \in Live \ Inputs(t) : Older(i, j)
         /\ \A m, n \in DOMAIN job[t].outs :
              m # n => Older(job[t].outs[m], job[t].outs[n])
<1>1. Snapshot(t) /\ Written(t) /\ TruthInv /\ Busy(t)
  BY DEF ViewParts, Busy
<1>2. /\ Inputs(t) \subseteq Live
      /\ \A i \in Inputs(t), j \in Live \ Inputs(t) : Older(i, j)
  BY <1>1 DEF Snapshot
<1>3. \A i \in Outs(t) : \A k \in Held(i) : \E j \in Inputs(t) :
        k \in Held(j) /\ At(i, k) = At(j, k)
  BY <1>1 DEF Written, Settles
<1>4. \A i \in Outs(t) : Agrees(i)
  BY <1>1, <1>2, <1>3 DEF TruthInv, Agrees
<1>5. \A i \in Outs(t), j \in Live \ Inputs(t) : Older(i, j)
  BY <1>2, <1>3 DEF Older
<1>6. ASSUME NEW m \in DOMAIN job[t].outs, NEW n \in DOMAIN job[t].outs, m # n
      PROVE  Older(job[t].outs[m], job[t].outs[n])
  <2> DEFINE a == job[t].outs[m]
             b == job[t].outs[n]
  <2>1. Apart(a, b)
    BY <1>1, <1>6 DEF Written
  <2>2. a \in Ids /\ b \in Ids
    BY JobType
  <2>3. \A x \in Held(a) \cup Held(b) : x \in Nat
    BY <2>2, Constants DEF Held
  <2> HIDE DEF a, b
  <2>4. Held(a) \cap Held(b) = {}
    BY <2>1, <2>3 DEF Apart
  <2>5. Older(a, b)
    BY <2>4 DEF Older
  <2>6. QED
    BY <2>5 DEF a, b
<1>7. QED
  BY <1>4, <1>5, <1>6

\* An install keeps the newer files behind, and above, the older ones.
LEMMA InstallOrder ==
  ASSUME FilesInv, ViewParts, LeveledOnly, SoloWorkloads, work.faults = 0,
         NEW t \in Tasks, Install(t)
  PROVE  OrderInv'
<1> DEFINE outs == job[t].outs
           C == Concurrent(t, l0)
<1>1. TypeInv /\ OrderInv /\ Written(t) /\ job[t].pc = "install" /\ file' = file
  BY DEF FilesInv, ViewParts, Install
<1>2. /\ outs \in Seq(Ids) /\ l0 \in Seq(Ids) /\ Outs(t) \in SUBSET Ids
      /\ Live \in SUBSET Ids
  BY <1>1, JobType, RangeOfSeq DEF TypeInv, Live
<1>3. /\ C \in Seq(Ids) /\ Range(C) = Live \ Inputs(t)
      /\ \/ /\ t \in Autos /\ l0' = outs \o C /\ Range(l1') = {}
         \/ /\ t \in Autos /\ l0' = l0 /\ Range(l1') = {}
         \/ /\ l0' = C /\ l1' = SortLeveled(outs)
  BY InstallLists
<1>4. /\ \A i \in Outs(t), j \in Live \ Inputs(t) : Older(i, j)
      /\ \A m, n \in DOMAIN outs : m # n => Older(outs[m], outs[n])
  BY <1>1, OutputFacts
<1>5. \A n \in DOMAIN outs : outs[n] \in Outs(t)
  BY DEF Outs, Range
<1>6. \A n \in DOMAIN C : C[n] \in Live \ Inputs(t)
  BY <1>3 DEF Range
<1>7. ASSUME NEW m \in DOMAIN C, NEW n \in DOMAIN C, m < n PROVE Older(C[m], C[n])
  <2>1. PICK p, q \in DOMAIN l0 : p < q /\ l0[p] = C[m] /\ l0[q] = C[n]
    BY <1>2, <1>7, WithoutOrder DEF C, Concurrent
  <2>2. QED
    BY <1>1, <2>1 DEF OrderInv
<1> HIDE DEF C
<1>8. \A i, j \in Ids : /\ Older(i, j)' <=> Older(i, j)
                        /\ Apart(i, j)' <=> Apart(i, j) /\ Rank(i)' = Rank(i)
  BY <1>1, Stable DEF FilesStay, Ids
<1>9. l0' \in Seq(Ids)
  <2>1. outs \o C \in Seq(Ids)
    BY <1>2, <1>3, ConcatProperties
  <2>2. QED
    BY <1>2, <1>3, <2>1
<1>10. ASSUME NEW m \in DOMAIN l0', NEW n \in DOMAIN l0', m < n
       PROVE  Older(l0'[m], l0'[n])
  <2>1. CASE l0' = outs \o C
    <3>1. /\ Len(outs) \in Nat /\ Len(C) \in Nat /\ DOMAIN l0' = 1..Len(outs) + Len(C)
          /\ DOMAIN outs = 1..Len(outs) /\ DOMAIN C = 1..Len(C)
          /\ \A i \in DOMAIN l0' : l0'[i] = IF i <= Len(outs) THEN outs[i]
                                            ELSE C[i - Len(outs)]
      BY <1>2, <1>3, <2>1, ConcatProperties
    <3> HIDE DEF outs
    <3>2. m \in Nat /\ n \in Nat
      BY <3>1
    <3>3. CASE n <= Len(outs)
      <4>1. m \in DOMAIN outs /\ n \in DOMAIN outs /\ m # n
        BY <1>10, <3>1, <3>2, <3>3
      <4>2. l0'[m] = outs[m] /\ l0'[n] = outs[n]
        BY <1>10, <3>1, <3>2, <3>3
      <4>3. QED
        BY <1>4, <4>1, <4>2
    <3>4. CASE m <= Len(outs) /\ ~(n <= Len(outs))
      <4>1. m \in DOMAIN outs /\ n - Len(outs) \in DOMAIN C
        BY <1>10, <3>1, <3>2, <3>4
      <4>2. l0'[m] = outs[m] /\ l0'[n] = C[n - Len(outs)]
        BY <3>1, <3>4
      <4>3. QED
        BY <1>4, <1>5, <1>6, <4>1, <4>2
    <3>5. CASE ~(m <= Len(outs)) /\ ~(n <= Len(outs))
      <4>1. /\ m - Len(outs) \in DOMAIN C /\ n - Len(outs) \in DOMAIN C
            /\ m - Len(outs) < n - Len(outs)
        BY <1>10, <3>1, <3>2, <3>5
      <4>2. l0'[m] = C[m - Len(outs)] /\ l0'[n] = C[n - Len(outs)]
        BY <3>1, <3>5
      <4>3. QED
        BY <1>7, <4>1, <4>2
    <3>6. m <= Len(outs) \/ ~(m <= Len(outs))
      OBVIOUS
    <3>7. QED
      BY <3>3, <3>4, <3>5
  <2>2. CASE l0' = l0
    BY <1>1, <1>10, <2>2 DEF OrderInv
  <2>3. CASE l0' = C
    BY <1>7, <1>10, <2>3
  <2>4. QED
    BY <1>3, <2>1, <2>2, <2>3
<1>11. /\ Range(l1') \subseteq Outs(t)
       /\ Range(l1') # {} => Range(l0') = Live \ Inputs(t) /\ l1' = SortLeveled(outs)
       /\ l1' \in Seq(Ids')
  <2>1. Range(SortLeveled(outs)) = Range(outs) /\ Range(outs) = Outs(t)
    BY <1>1, <1>2, SortFacts DEF Outs
  <2>2. TypeInv'
    BY <1>1, TypeTasks
  <2>3. QED
    BY <1>3, <2>1, <2>2 DEF TypeInv
<1>12. \A i \in Range(l1'), j \in Range(l0') : Older(i, j)
  BY <1>4, <1>11
<1>13. ASSUME NEW i \in Range(l1'), NEW j \in Range(l1'), i # j PROVE Apart(i, j)
  <2>1. i \in Outs(t) /\ j \in Outs(t)
    BY <1>11
  <2>2. PICK m, n \in DOMAIN outs : outs[m] = i /\ outs[n] = j
    BY <2>1 DEF Outs, Range
  <2>3. QED
    BY <1>1, <1>13, <2>2 DEF Written
<1>14. ASSUME NEW m \in DOMAIN l1', NEW n \in DOMAIN l1', m < n
       PROVE  Rank(l1'[m]) <= Rank(l1'[n])
  <2>1. l1' = SortLeveled(outs)
    BY <1>11 DEF Range
  <2>2. /\ Len(l1') = Len(outs) /\ l1' \in Seq(Ids)
        /\ \A x, y \in 1..Len(outs) : x < y => Rank(l1'[x]) <= Rank(l1'[y])
    BY <1>1, <1>2, <2>1, SortFacts
  <2>3. m \in 1..Len(outs) /\ n \in 1..Len(outs)
    BY <2>2
  <2>4. QED
    BY <1>14, <2>2, <2>3
<1> HIDE DEF outs
<1>15. QED
  <2>1. /\ \A n \in DOMAIN l0' : l0'[n] \in Ids
        /\ Range(l0') \in SUBSET Ids
    BY <1>9, RangeOfSeq
  <2>2. Range(l1') \in SUBSET Ids /\ \A n \in DOMAIN l1' : l1'[n] \in Ids
    BY <1>2, <1>11 DEF Range
  <2>3. \A m, n \in DOMAIN l0' : m < n => Older(l0[m], l0[n])'
    BY <1>1, <1>10 DEF Older, Held, At
  <2>4. \A i \in Range(l1'), j \in Range(l0') : Older(i, j)'
    BY <1>8, <1>12, <2>1, <2>2
  <2>5. \A i, j \in Range(l1') : i # j => Apart(i, j)'
    <3>1. \A i, j \in Range(l1') : i # j => Apart(i, j)
      BY <1>13
    <3>2. QED
      BY <1>1, <3>1 DEF Apart, Held, At
  <2>6. \A m, n \in DOMAIN l1' : m < n => (Rank(l1[m]) <= Rank(l1[n]))'
    BY <1>1, <1>14 DEF Rank, Largest, Smallest, Held, At
  <2>7. QED
    BY <2>3, <2>4, <2>5, <2>6 DEF OrderInv

\* An install keeps what was flushed last, or drops the tombstone with all the
\* entries that it covers.
LEMMA InstallTruth ==
  ASSUME FilesInv, ViewParts, LeveledOnly, SoloWorkloads, work.faults = 0,
         NEW t \in Tasks, Install(t)
  PROVE  TruthInv'
<1>1. /\ TypeInv /\ TruthInv /\ Written(t) /\ Snapshot(t) /\ Busy(t)
      /\ job[t].pc = "install" /\ UNCHANGED <<file, truth>>
  BY DEF FilesInv, ViewParts, Install, Busy
<1>2. Outs(t) \in SUBSET Ids /\ Inputs(t) \in SUBSET Ids /\ Live \in SUBSET Ids
  BY <1>1, JobType, RangeOfSeq DEF TypeInv, Live
<1>3. Live' = (Live \ Inputs(t)) \cup Outs(t)
  BY InstallLists
<1>4. \A i \in Live \cup Outs(t) : Agrees(i)
  BY <1>1, OutputFacts DEF TruthInv
<1>5. /\ Inputs(t) \subseteq Live
      /\ \A i \in Inputs(t), j \in Live \ Inputs(t) : Older(i, j)
  BY <1>1 DEF Snapshot
<1>6. /\ \A i \in Outs(t) : \A k \in Held(i) : \E j \in Inputs(t) :
           Settles(j, Inputs(t), k) /\ ~At(j, k).del /\ At(i, k) = At(j, k)
      /\ \A k \in Keys : (\E j \in Inputs(t) : k \in Held(j)) =>
           \/ \E i \in Outs(t) : k \in Held(i)
           \/ \E j \in Inputs(t) : Settles(j, Inputs(t), k) /\ At(j, k).del
  BY <1>1 DEF Written
<1>7. \A i \in Live' : Agrees(i)'
  BY <1>1, <1>3, <1>4 DEF Agrees, Held, At
<1>8. ASSUME NEW k \in Keys
      PROVE  \/ \E i \in Live' : k \in Held(i) /\ At(i, k) = truth[k]
             \/ Visible(truth[k]) = 0 /\ \A i \in Live' : k \notin Held(i)
  <2>1. truth[k].ts \in Nat /\ \A i \in Ids : At(i, k).ts \in Nat
    BY <1>1, EntryType DEF TypeInv, Data, Entry
  <2>2. CASE Gone(k)
    <3>1. Visible(truth[k]) = 0 /\ \A i \in Live : k \notin Held(i)
      BY <2>2 DEF Gone
    <3>2. \A i \in Outs(t) : k \notin Held(i)
      BY <1>5, <1>6, <3>1 DEF Settles
    <3>3. QED
      BY <1>3, <3>1, <3>2
  <2>3. CASE Kept(k)
    <3>1. PICK i \in Live : k \in Held(i) /\ At(i, k) = truth[k]
      BY <2>3 DEF Kept
    <3>2. CASE i \notin Inputs(t)
      BY <1>3, <3>1, <3>2
    <3>3. CASE i \in Inputs(t)
      <4>1. ASSUME NEW j \in Inputs(t), Settles(j, Inputs(t), k)
            PROVE  At(j, k) = truth[k] /\ k \in Held(j)
        <5>1. k \in Held(j) /\ At(i, k).ts <= At(j, k).ts
          BY <3>3, <4>1 DEF Settles
        <5>2. /\ At(j, k).ts <= truth[k].ts
              /\ At(j, k).ts = truth[k].ts => At(j, k) = truth[k]
          BY <1>4, <1>5, <5>1 DEF Agrees
        <5>3. QED
          BY <1>2, <2>1, <3>1, <5>1, <5>2
      <4>2. CASE \E o \in Outs(t) : k \in Held(o)
        <5>1. PICK o \in Outs(t) : k \in Held(o)
          BY <4>2
        <5>2. PICK j \in Inputs(t) :
                Settles(j, Inputs(t), k) /\ At(o, k) = At(j, k)
          BY <1>6, <5>1
        <5>3. At(o, k) = truth[k]
          BY <4>1, <5>2
        <5>4. QED
          BY <1>3, <5>1, <5>3
      <4>3. CASE ~\E o \in Outs(t) : k \in Held(o)
        <5>1. PICK j \in Inputs(t) : Settles(j, Inputs(t), k) /\ At(j, k).del
          BY <1>6, <3>1, <3>3, <4>3
        <5>2. At(j, k) = truth[k] /\ k \in Held(j)
          BY <4>1, <5>1
        <5>3. Visible(truth[k]) = 0
          BY <5>1, <5>2 DEF Visible
        <5>4. ASSUME NEW h \in Live \ Inputs(t), k \in Held(h) PROVE FALSE
          <6>1. At(j, k).ts < At(h, k).ts
            BY <1>5, <5>2, <5>4 DEF Older
          <6>2. At(h, k).ts <= truth[k].ts
            BY <1>4, <5>4 DEF Agrees
          <6>3. QED
            BY <1>2, <2>1, <5>2, <6>1, <6>2
        <5>5. QED
          BY <1>3, <4>3, <5>3, <5>4
      <4>4. QED
        BY <4>2, <4>3
    <3>4. QED
      BY <3>2, <3>3
  <2>4. QED
    BY <1>1, <2>2, <2>3 DEF TruthInv
<1>9. ASSUME NEW k \in Keys PROVE Kept(k)' \/ Gone(k)'
  BY <1>1, <1>8 DEF Kept, Gone, Held, At
<1>10. QED
  BY <1>7, <1>9 DEF TruthInv

LEMMA ViewInstall ==
  ASSUME FilesInv, ViewParts, LeveledOnly, SoloWorkloads, work.faults = 0,
         NEW t \in Tasks, Install(t)
  PROVE  ViewParts'
<1>1. /\ TypeInv /\ SoloInv /\ Busy(t) /\ job[t].pc = "install"
      /\ UNCHANGED <<work, file>> /\ job' = [job EXCEPT ![t].pc = "mark"]
  BY DEF FilesInv, ViewParts, Install, bounds, Busy
<1>2. TruthInv' /\ OrderInv'
  BY InstallTruth, InstallOrder
<1>3. /\ job'[t].pc = "mark" /\ \A u \in Tasks : u # t => job'[u] = job[u]
  BY <1>1, JobType DEF TypeInv, Job
<1>4. \A u \in Tasks : ~Busy(u)'
  BY <1>1, <1>3 DEF SoloInv, Busy
<1>5. \A u \in Tasks : Snapshot(u)' /\ Written(u)'
  BY <1>4 DEF Snapshot, Written, Busy
<1>6. SoloInv'
  <2>1. \A u \in Tasks : u \notin work'.tasks => job'[u].pc = "idle"
    BY <1>1, <1>3 DEF SoloInv
  <2>2. Ids' = Ids
    BY <1>1 DEF Ids
  <2>3. QED
    BY <1>1, <1>4, <2>1, <2>2 DEF SoloInv
<1>7. QED
  BY <1>2, <1>5, <1>6 DEF ViewParts

\* What a flush adds: one file of level 0, whose entries are now the truth and
\* newer than those of every file that agreed with it before.
Flushed(n, W) ==
  /\ FilesStay /\ n \notin Ids /\ Ids' = Ids \cup {n} /\ file'[n].level = 0
  /\ l0' = Append(l0, n) /\ Held(n)' = W
  /\ \A k \in W : At(n, k)' = truth'[k] /\ truth[k].ts < truth'[k].ts
  /\ \A k \in Keys \ W : truth'[k] = truth[k]
  /\ \A k \in Keys : truth'[k].ts \in Nat
LEMMA FlushContent ==
  ASSUME TypeInv, NEW puts \in SUBSET Keys, NEW dels \in SUBSET Keys,
         Flush(puts, dels), NEW n, n = Len(file) + 1
  PROVE  Flushed(n, puts \cup dels)
<1> DEFINE new == FlushData(puts, dels)
           f == [level |-> 0, data |-> new]
           fs == <<f>>
<1>1. /\ FlushTs \in Nat /\ FlushTs >= 1
      /\ \A k \in Keys : truth[k].ts < FlushTs
      /\ new \in Data /\ fs \in Seq(File) /\ Len(fs) = 1
      /\ \A m \in 1..Len(fs) : \E k \in Keys : fs[m].data[k].ts # 0
      /\ file' = file \o fs
      /\ truth' = [k \in Keys |-> IF k \in puts \cup dels THEN new[k] ELSE truth[k]]
      /\ l0' = Append(l0, Len(file) + 1)
  BY FlushFacts
<1>2. /\ \A k \in puts \cup dels : new[k].ts = FlushTs
      /\ \A k \in Keys \ (puts \cup dels) : new[k].ts = 0
  BY DEF FlushData, NoEntry
<1> HIDE DEF new
<1>3. fs[1] = f
  OBVIOUS
<1>4. f.level = 0 /\ f.data = new
  OBVIOUS
<1> HIDE DEF f, fs
<1>5. /\ Ids \in SUBSET Ids' /\ \A i \in Ids : file'[i] = file[i]
      /\ Len(file') = Len(file) + 1 /\ file'[Len(file) + 1] = fs[1]
  <2>1. /\ Ids \in SUBSET Ids' /\ \A i \in Ids : file'[i] = file[i]
        /\ Len(file') = Len(file) + Len(fs)
        /\ \A m \in 1..Len(fs) : file'[Len(file) + m] = fs[m]
    BY <1>1, Grow
  <2>2. 1 \in 1..Len(fs)
    BY <1>1
  <2>3. file'[Len(file) + 1] = fs[1]
    BY <2>1, <2>2
  <2>4. QED
    BY <1>1, <2>1, <2>3
<1>6. Len(file) \in Nat
  BY DEF TypeInv
<1>7. FilesStay /\ n \notin Ids /\ Ids' = Ids \cup {n}
  BY <1>5, <1>6 DEF FilesStay, Ids
<1>8. file'[n] = f
  BY <1>3, <1>5
<1>9. \A k \in Keys : At(n, k)' = new[k]
  BY <1>4, <1>8 DEF At
<1>10. Held(n)' = puts \cup dels
  <2>1. \A k \in Keys : At(n, k)'.ts # 0 <=> k \in puts \cup dels
    BY <1>1, <1>2, <1>9
  <2>2. QED
    BY <2>1 DEF Held
<1>11. \A k \in puts \cup dels : At(n, k)' = truth'[k] /\ truth[k].ts < truth'[k].ts
  BY <1>1, <1>2, <1>9
<1>12. \A k \in Keys : truth'[k].ts \in Nat
  <2>1. \A k \in Keys : truth[k].ts \in Nat
    BY DEF TypeInv, Data, Entry
  <2>2. QED
    BY <1>1, <1>2, <2>1
<1>13. QED
  BY <1>1, <1>4, <1>7, <1>8, <1>10, <1>11, <1>12 DEF Flushed

\* A flush puts the newest file on top, also while a compaction runs.
LEMMA ViewFlush ==
  ASSUME FilesInv, ViewParts, NEW puts \in SUBSET Keys, NEW dels \in SUBSET Keys,
         Flush(puts, dels)
  PROVE  ViewParts'
<1> DEFINE W == puts \cup dels
<1>1. TypeInv /\ TruthInv /\ OrderInv /\ SoloInv
  BY DEF FilesInv, ViewParts
<1>2. UNCHANGED <<work, l1, job>>
  BY DEF Flush, bounds
<1>3. PICK n : n = Len(file) + 1
  OBVIOUS
<1>4. /\ FilesStay /\ n \notin Ids /\ Ids' = Ids \cup {n} /\ file'[n].level = 0
      /\ l0' = Append(l0, n) /\ Held(n)' = W
      /\ \A k \in W : At(n, k)' = truth'[k] /\ truth[k].ts < truth'[k].ts
      /\ \A k \in Keys \ W : truth'[k] = truth[k]
      /\ \A k \in Keys : truth'[k].ts \in Nat
  <2>1. Flushed(n, W)
    BY <1>1, <1>3, FlushContent
  <2>2. QED
    BY <2>1 DEF Flushed
<1>5. W \in SUBSET Keys
  OBVIOUS
<1> HIDE DEF W
<1>6. /\ \A i \in Ids : Held(i)' = Held(i) /\ \A k \in Keys : At(i, k)' = At(i, k)
      /\ \A i, j \in Ids : Older(i, j)' <=> Older(i, j)
      /\ \A i, j \in Ids : Apart(i, j)' <=> Apart(i, j)
      /\ \A i \in Ids : Rank(i)' = Rank(i)
      /\ \A i \in Ids : Held(i) \in SUBSET Keys
  BY <1>1, <1>4, Stable DEF Held
<1>7. /\ l0 \in Seq(Ids) /\ l1 \in Seq(Ids) /\ Live \in SUBSET Ids
      /\ Range(l0) \in SUBSET Ids /\ Range(l1) \in SUBSET Ids
  BY <1>1, RangeOfSeq DEF TypeInv, Live
<1>8. l0 \in Seq(Ids \cup {n})
  BY <1>7
<1>9. Range(l0') = Range(l0) \cup {n} /\ Live' = Live \cup {n}
  <2>1. Range(l0') = Range(l0) \cup {n}
    BY <1>4, <1>8, RangeFacts
  <2>2. QED
    BY <1>2, <2>1 DEF Live
<1>10. \A k \in Keys : truth[k].ts \in Nat /\ \A i \in Ids : At(i, k).ts \in Nat
  BY <1>1, EntryType DEF TypeInv, Data, Entry
<1>11. ASSUME NEW i \in Live PROVE Agrees(i)' /\ Older(i, n)'
  <2>1. i \in Ids /\ Agrees(i)
    BY <1>1, <1>7 DEF TruthInv
  <2>2. ASSUME NEW k \in Held(i)'
        PROVE  /\ k \in Keys /\ At(i, k)'.ts <= truth'[k].ts
               /\ k \in W => At(i, k)'.ts < truth'[k].ts
               /\ At(i, k)'.ts = truth'[k].ts => At(i, k)' = truth'[k]
    <3>1. k \in Keys /\ k \in Held(i) /\ At(i, k)' = At(i, k)
      BY <1>6, <2>1
    <3>2. At(i, k).ts <= truth[k].ts /\ (At(i, k).ts = truth[k].ts => At(i, k) = truth[k])
      BY <2>1, <3>1 DEF Agrees
    <3>3. CASE k \in W
      BY <1>4, <1>10, <2>1, <3>1, <3>2, <3>3
    <3>4. CASE k \notin W
      BY <1>4, <3>1, <3>2, <3>4
    <3>5. QED
      BY <3>3, <3>4
  <2>3. Agrees(i)'
    BY <2>2 DEF Agrees
  <2>4. Older(i, n)'
    BY <1>4, <2>2 DEF Older
  <2>5. QED
    BY <2>3, <2>4
<1>12. Agrees(n)'
  BY <1>4, <1>5 DEF Agrees
<1>13. ASSUME NEW k \in Keys PROVE Kept(k)' \/ Gone(k)'
  <2>1. CASE k \in W
    BY <1>4, <1>9, <2>1 DEF Kept
  <2>2. CASE k \notin W /\ Kept(k)
    <3>1. PICK i \in Live : k \in Held(i) /\ At(i, k) = truth[k]
      BY <2>2 DEF Kept
    <3>2. k \in Held(i)' /\ At(i, k)' = truth'[k]
      BY <1>4, <1>6, <1>7, <2>2, <3>1
    <3>3. QED
      BY <1>9, <3>2 DEF Kept
  <2>3. CASE k \notin W /\ Gone(k)
    <3>1. Visible(truth'[k]) = 0
      BY <1>4, <2>3 DEF Gone
    <3>2. \A i \in Live' : k \notin Held(i)'
      BY <1>4, <1>6, <1>7, <1>9, <2>3 DEF Gone
    <3>3. QED
      BY <3>1, <3>2 DEF Gone, Visible
  <2>4. QED
    BY <1>1, <2>1, <2>2, <2>3 DEF TruthInv
<1>14. TruthInv'
  BY <1>9, <1>11, <1>12, <1>13 DEF TruthInv
<1>15. OrderInv'
  <2>1. /\ Len(l0) \in Nat /\ DOMAIN l0 = 1..Len(l0) /\ DOMAIN l0' = 1..Len(l0) + 1
        /\ \A m \in 1..Len(l0) : l0'[m] = l0[m]
        /\ l0'[Len(l0) + 1] = n
    BY <1>4, <1>8
  <2>2. \A m \in DOMAIN l0 : l0[m] \in Ids /\ l0[m] \in Live
    BY <1>7 DEF Live, Range
  <2>3. ASSUME NEW p \in DOMAIN l0', NEW q \in DOMAIN l0', p < q
        PROVE  Older(l0[p], l0[q])'
    <3>1. p \in 1..Len(l0) /\ (q \in 1..Len(l0) \/ q = Len(l0) + 1)
      BY <2>1, <2>3
    <3>2. PICK a, b : a = l0'[p] /\ b = l0'[q]
      OBVIOUS
    <3>3. Older(a, b)'
      <4>1. CASE q \in 1..Len(l0)
        <5>1. a = l0[p] /\ b = l0[q] /\ a \in Ids /\ b \in Ids
          BY <2>1, <2>2, <3>1, <3>2, <4>1
        <5>2. Older(l0[p], l0[q])
          BY <1>1, <2>1, <2>3, <3>1, <4>1 DEF OrderInv
        <5>3. QED
          BY <1>6, <5>1, <5>2
      <4>2. CASE q = Len(l0) + 1
        BY <1>11, <2>1, <2>2, <3>1, <3>2, <4>2
      <4>3. QED
        BY <3>1, <4>1, <4>2
    <3>4. QED
      BY <3>2, <3>3 DEF Older, Held, At
  <2>4. ASSUME NEW i \in Range(l1'), NEW j \in Range(l0') PROVE Older(i, j)'
    <3>1. i \in Range(l1) /\ i \in Live /\ i \in Ids
      BY <1>2, <1>7 DEF Live
    <3>2. CASE j \in Range(l0)
      BY <1>1, <1>6, <1>7, <3>1, <3>2 DEF OrderInv
    <3>3. CASE j = n
      BY <1>11, <3>1, <3>3
    <3>4. QED
      BY <1>9, <3>2, <3>3
  <2>5. \A i, j \in Range(l1') : i # j => Apart(i, j)'
    BY <1>1, <1>2, <1>6, <1>7 DEF OrderInv
  <2>6. \A p, q \in DOMAIN l1' : p < q => (Rank(l1[p]) <= Rank(l1[q]))'
    <3>1. \A p \in DOMAIN l1 : l1[p] \in Ids
      BY <1>7
    <3>2. QED
      BY <1>1, <1>2, <1>6, <3>1 DEF OrderInv
  <2>7. QED
    BY <2>3, <2>4, <2>5, <2>6 DEF OrderInv
<1>16. ASSUME NEW u \in Tasks PROVE Snapshot(u)' /\ Written(u)'
  <2>1. Snapshot(u) /\ Written(u) /\ Inputs(u) \in SUBSET Ids
    BY <1>1, JobType DEF ViewParts
  <2>2. Written(u)'
    BY <1>1, <1>2, <1>4, <2>1, WrittenFrame
  <2>3. Inputs(u)' = Inputs(u) /\ (Busy(u)' <=> Busy(u))
    BY <1>2 DEF Inputs, Busy
  <2>4. ASSUME Busy(u), NEW i \in Inputs(u), NEW j \in Live' \ Inputs(u)
        PROVE  Older(i, j)'
    <3>1. i \in Live /\ i \in Ids
      BY <2>1, <2>4 DEF Snapshot
    <3>2. CASE j = n
      BY <1>11, <3>1, <3>2
    <3>3. CASE j \in Live
      BY <1>6, <1>7, <2>1, <2>4, <3>1, <3>3 DEF Snapshot
    <3>4. QED
      BY <1>9, <3>2, <3>3
  <2>5. Busy(u) => Inputs(u) \subseteq Live' /\ Live' \ Inputs(u) \subseteq Range(l0')
    BY <1>9, <2>1 DEF Snapshot
  <2>6. Snapshot(u)'
    BY <2>3, <2>4, <2>5 DEF Snapshot
  <2>7. QED
    BY <2>2, <2>6
<1>17. SoloInv'
  <2>1. \A u \in Tasks : Busy(u)' <=> Busy(u)
    BY <1>2 DEF Busy
  <2>2. work.tasks \subseteq Autos => \A i \in Ids' : file'[i].level = 0
    BY <1>1, <1>4 DEF SoloInv, FilesStay
  <2>3. QED
    BY <1>1, <1>2, <2>1, <2>2 DEF SoloInv
<1>18. QED
  BY <1>14, <1>15, <1>16, <1>17 DEF ViewParts

\* Steps that end a compaction or belong to its reclaim.
LEMMA ViewReclaim ==
  ASSUME TypeInv, ViewParts, NEW t \in work.tasks, t \in Tasks,
         MergeAborts(t) \/ Mark(t) \/ Unlink(t) \/ Reclaimed(t)
  PROVE  ViewParts'
<1>1. UNCHANGED <<work, file, l0, l1, truth>>
  BY DEF MergeAborts, Mark, Unlink, Reclaimed, bounds
<1>2. job \in [Tasks -> Job] /\ job[t] \in Job
  BY DEF TypeInv
<1>3. /\ job'[t].pc \in {"idle", "mark", "unlink"}
      /\ \A u \in Tasks : u # t => job'[u] = job[u]
  <2>1. CASE MergeAborts(t) \/ Reclaimed(t)
    BY <1>2, <2>1 DEF MergeAborts, Reclaimed, Abandon, NoJob
  <2>2. CASE Mark(t)
    BY <1>2, <2>2 DEF Mark, Job
  <2>3. CASE Unlink(t)
    BY <1>2, <2>3 DEF Unlink, Job
  <2>4. QED
    BY <2>1, <2>2, <2>3
<1>4. QED
  BY <1>1, <1>3, ViewQuiet

LEMMA ViewInit ==
  ASSUME Init PROVE ViewParts
<1>1. /\ l0 = <<>> /\ l1 = <<>> /\ Ids = {} /\ \A t \in Tasks : job[t].pc = "idle"
      /\ truth = [k \in Keys |-> NoEntry]
  BY EmptySeq DEF Init, Ids, NoJob
<1>2. DOMAIN l0 = {} /\ DOMAIN l1 = {} /\ Range(l0) = {} /\ Range(l1) = {} /\ Live = {}
  BY <1>1 DEF Range, Live
<1>3. TruthInv
  BY <1>1, <1>2 DEF TruthInv, Gone, Visible, NoEntry
<1>4. OrderInv
  BY <1>2 DEF OrderInv
<1>5. SoloInv
  BY <1>1 DEF SoloInv, Busy
<1>6. \A t \in Tasks : Snapshot(t) /\ Written(t)
  BY <1>1 DEF Snapshot, Written, Busy
<1>7. QED
  BY <1>3, <1>4, <1>5, <1>6 DEF ViewParts

LEMMA ViewStep ==
  ASSUME FilesInv, ViewParts, LeveledOnly, SoloWorkloads, work.faults = 0,
         [Next]_vars
  PROVE  ViewParts'
<1>1. TypeInv
  BY DEF FilesInv
<1>2. work.tasks \subseteq Tasks
  BY <1>1, WorkloadAssumption DEF TypeInv
<1>3. ~MayFail
  BY <1>1 DEF MayFail, TypeInv
<1>4. CASE UNCHANGED vars
  BY <1>1, <1>4, ViewQuiet DEF vars
<1>5. CASE \E puts, dels \in SUBSET Keys : Flush(puts, dels)
  BY <1>5, ViewFlush
<1>6. CASE \E t \in work.tasks : TaskStep(t)
  <2>1. PICK t \in work.tasks : TaskStep(t)
    BY <1>6
  <2>2. t \in Tasks
    BY <1>2
  <2>3. CASE \E cuts \in SUBSET Keys : Merge(t, cuts)
    BY <2>2, <2>3, ViewMerge
  <2>4. CASE ManualSnapshot(t) \/ \E level \in {0, 1} : AutoSnapshot(t, level)
    BY <2>2, <2>4, ViewSnapshot
  <2>5. CASE Install(t)
    BY <2>2, <2>5, ViewInstall
  <2>6. CASE MergeAborts(t) \/ Mark(t) \/ Unlink(t) \/ Reclaimed(t)
    BY <1>1, <2>2, <2>6, ViewReclaim
  <2>7. CASE InstallTimesOut(t) \/ \E cuts \in SUBSET Keys : MergeFails(t, cuts)
    BY <1>3, <2>7 DEF InstallTimesOut, MergeFails
  <2>8. QED
    BY <2>1, <2>3, <2>4, <2>5, <2>6, <2>7 DEF TaskStep
<1>7. CASE \E r \in work.readers :
             \/ \E k \in work.keys : GetStart(r, k)
             \/ GetPin(r) \/ GetRead(r) \/ GetNextLevel(r)
  <2>1. UNCHANGED <<work, file, l0, l1, truth, job>>
    BY <1>7 DEF GetStart, GetPin, GetRead, GetNextLevel, bounds
  <2>2. QED
    BY <1>1, <2>1, ViewQuiet
<1>8. CASE CrashRestart
  BY <1>3, <1>8 DEF CrashRestart
<1>9. QED
  BY <1>4, <1>5, <1>6, <1>7, <1>8 DEF Next

\* No step changes the workload.
LEMMA WorkStays ==
  ASSUME [Next]_vars PROVE work' = work
  BY DEF Next, vars, Flush, TaskStep, AutoSnapshot, ManualSnapshot, Merge, MergeFails,
         MergeAborts, Install, InstallTimesOut, Mark, Unlink, Reclaimed, GetStart,
         GetPin, GetRead, GetNextLevel, CrashRestart, bounds

LEMMA ViewInvariant ==
  ASSUME LeveledOnly, SoloWorkloads PROVE Spec => []ViewInv
<1>1. Init => ViewInv
  BY ViewInit DEF ViewInv, ViewParts
<1>2. FilesInv /\ ViewInv /\ [Next]_vars => ViewInv'
  <2>1. ViewInv <=> (work.faults = 0 => ViewParts)
    BY DEF ViewInv, ViewParts
  <2>2. ViewInv' <=> (work'.faults = 0 => ViewParts')
    BY DEF ViewInv, ViewParts
  <2>3. QED
    BY <2>1, <2>2, WorkStays, ViewStep
<1>3. Spec => []FilesInv
  BY FilesInvariant DEF SafeMix
<1>4. QED
  BY <1>1, <1>2, <1>3, PTL DEF Spec

\* Under levelled selection, while background compactions, or one compact_all,
\* have the levels to themselves: CompactionIsInvisible holds in every
\* reachable state.  Whatever is flushed while merge_sstables_safe runs and
\* wherever create_new_sstables cuts the outputs, get_from_sstables gives each
\* key the value flushed last, tombstones and all.
THEOREM CompactionInvisible ==
  ASSUME LeveledOnly, SoloWorkloads PROVE Spec => []CompactionIsInvisible
<1>1. FilesInv /\ ViewInv => CompactionIsInvisible
  BY ViewIsRight DEF FilesInv, ViewInv, ViewParts, CompactionIsInvisible
<1>2. Spec => []FilesInv
  BY FilesInvariant DEF SafeMix
<1>3. QED
  BY <1>1, <1>2, ViewInvariant, PTL

-----------------------------------------------------------------------------
(* A restart changes no value.                                             *)

\* A single background task.  With two, one may unlink a tombstone that the
\* other's inputs still need: `compacting` is given back before the reclaim.
OneBackgroundTask == \A a, b \in Autos : a = b

\* In a list of files each is older than the next; and where it holds a value
\* for k, a tombstone for k comes later.
Ordered(s) == \A m, n \in DOMAIN s : m < n => Older(s[m], s[n])
Covered(s, k) ==
  \A m \in DOMAIN s : k \in Held(s[m]) /\ ~At(s[m], k).del =>
    \E n \in DOMAIN s : m < n /\ k \in Held(s[n]) /\ At(s[n], k).del

\* What a background compaction still has to unlink: the entry flushed last or
\* older ones, and of a key that is not live, tombstones after values.
LeftOver(t) ==
  job[t].pc \in {"mark", "unlink"} =>
    /\ Inputs(t) \subseteq disk /\ \A i \in Inputs(t) : Agrees(i)
    /\ \A k \in Keys : (\A i \in Live : k \notin Held(i)) => Covered(job[t].inputs, k)

\* Every file in data_dir is live, an output to install or an input to unlink.
Accounted(i) ==
  \/ i \in Live
  \/ \E t \in Tasks : \/ job[t].pc = "install" /\ i \in Outs(t)
                      \/ job[t].pc \in {"mark", "unlink"} /\ i \in Inputs(t)
DiskParts ==
  /\ \A i \in disk : Accounted(i)
  /\ \A t \in Tasks : LeftOver(t) /\ Ordered(job[t].inputs)
  /\ \A r \in Readers : rd[r].pin = 0
DiskInv == work = Alone(Autos) => DiskParts

\* Files never change, and neither do these relations.
LEMMA ListStable ==
  ASSUME TypeInv, FilesStay, NEW s \in Seq(Ids)
  PROVE  /\ Ordered(s)' <=> Ordered(s)
         /\ \A k \in Keys : Covered(s, k)' <=> Covered(s, k)
<1>1. /\ \A i \in Ids : Held(i)' = Held(i) /\ \A k \in Keys : At(i, k)' = At(i, k)
      /\ \A i, j \in Ids : Older(i, j)' <=> Older(i, j)
  BY Stable
<1>2. \A n \in DOMAIN s : s[n] \in Ids
  OBVIOUS
<1>3. Ordered(s)' <=> Ordered(s)
  BY <1>1, <1>2 DEF Ordered
<1>4. ASSUME NEW k \in Keys PROVE Covered(s, k)' <=> Covered(s, k)
  BY <1>1, <1>2 DEF Covered
<1>5. QED
  BY <1>3, <1>4

LEMMA ListNext ==
  ASSUME NEW t, NEW s, job'[t].inputs = s
  PROVE  /\ Ordered(job[t].inputs)' <=> Ordered(s)'
         /\ \A k : Covered(job[t].inputs, k)' <=> Covered(s, k)'
  BY DEF Ordered, Covered, Older, Held, At

\* The tail of an ordered list, and its head.
LEMMA TailFacts ==
  ASSUME TypeInv, NEW s \in Seq(Ids), s # <<>>, Ordered(s)
  PROVE  /\ Ordered(Tail(s)) /\ Head(s) \notin Range(Tail(s))
         /\ \A k \in Keys : Covered(s, k) => Covered(Tail(s), k)
<1>1. /\ Head(s) \in Ids /\ Tail(s) \in Seq(Ids) /\ Len(Tail(s)) = Len(s) - 1
      /\ \A i \in 1..Len(Tail(s)) : Tail(s)[i] = s[i + 1]
  BY HeadTailProperties
<1>2. /\ Len(s) \in Nat /\ Len(s) >= 1 /\ Head(s) = s[1]
      /\ DOMAIN s = 1..Len(s) /\ DOMAIN Tail(s) = 1..Len(s) - 1
  BY <1>1
<1>3. \A n \in DOMAIN Tail(s) : n \in Nat /\ n + 1 \in DOMAIN s /\ Tail(s)[n] = s[n + 1]
  BY <1>1, <1>2
<1>4. Ordered(Tail(s))
  BY <1>3 DEF Ordered
<1>5. ASSUME NEW n \in DOMAIN Tail(s), Tail(s)[n] = Head(s) PROVE FALSE
  <2>1. 1 \in DOMAIN s /\ n + 1 \in DOMAIN s /\ 1 < n + 1 /\ s[n + 1] = s[1]
    BY <1>2, <1>3, <1>5
  <2>2. Older(s[1], s[n + 1])
    BY <2>1 DEF Ordered
  <2>3. PICK i \in Ids : i = s[1] /\ Older(i, i)
    BY <1>1, <1>2, <2>1, <2>2
  <2>4. PICK k \in Keys : k \in Held(i)
    BY <2>3 DEF TypeInv, Held
  <2>5. At(i, k).ts \in Nat
    BY EntryType
  <2>6. QED
    BY <2>3, <2>4, <2>5 DEF Older
<1>6. ASSUME NEW k \in Keys, Covered(s, k) PROVE Covered(Tail(s), k)
  <2> SUFFICES ASSUME NEW m \in DOMAIN Tail(s), k \in Held(Tail(s)[m]),
                      ~At(Tail(s)[m], k).del
               PROVE  \E n \in DOMAIN Tail(s) :
                        m < n /\ k \in Held(Tail(s)[n]) /\ At(Tail(s)[n], k).del
    BY DEF Covered
  <2>1. m \in Nat /\ m + 1 \in DOMAIN s /\ Tail(s)[m] = s[m + 1]
    BY <1>3
  <2>2. PICK n \in DOMAIN s : m + 1 < n /\ k \in Held(s[n]) /\ At(s[n], k).del
    BY <1>6, <2>1 DEF Covered
  <2>3. n - 1 \in DOMAIN Tail(s) /\ m < n - 1 /\ Tail(s)[n - 1] = s[n]
    BY <1>1, <1>2, <2>1, <2>2
  <2>4. QED
    BY <2>2, <2>3
<1>7. QED
  BY <1>4, <1>5, <1>6 DEF Range

\* What Alone(Autos) says of the workload.
LEMMA AloneFacts ==
  ASSUME work = Alone(Autos)
  PROVE  work.tasks = Autos /\ work.readers = {} /\ work.faults = 0
  BY DEF Alone, AloneWith

LEMMA OnlyTask ==
  ASSUME SoloInv, OneBackgroundTask, work = Alone(Autos),
         NEW t \in Tasks, t \in work.tasks \/ job[t].pc # "idle"
  PROVE  t \in Autos /\ \A u \in Tasks : u # t => job[u].pc = "idle"
  BY AloneFacts DEF SoloInv, OneBackgroundTask, Tasks

\* What DiskParts is for: the newest entry in data_dir has the value of the
\* entry flushed last.
LEMMA RestartIsRight ==
  ASSUME FilesInv, ViewParts, DiskParts, OneBackgroundTask, work = Alone(Autos)
  PROVE  RestartIsTruth
<1>1. TypeInv /\ TruthInv /\ SoloInv /\ LevelsInv
  BY DEF FilesInv, ViewParts
<1>2. disk \in SUBSET Ids /\ Live \in SUBSET disk
  BY <1>1 DEF TypeInv, LevelsInv
<1>3. OnDisk(1) = {} /\ OnDisk(0) = disk
  <2>1. \A i \in disk : file[i].level = 0
    BY <1>1, <1>2, AloneFacts DEF SoloInv
  <2>2. QED
    BY <2>1 DEF OnDisk
<1>4. \A i \in disk : Agrees(i)
  <2>1. ASSUME NEW i \in disk PROVE Agrees(i)
    <3>1. CASE i \in Live
      BY <1>1, <3>1 DEF TruthInv
    <3>2. ASSUME NEW t \in Tasks, job[t].pc = "install", i \in Outs(t) PROVE Agrees(i)
      BY <1>1, <3>2, OutputFacts
    <3>3. ASSUME NEW t \in Tasks, job[t].pc \in {"mark", "unlink"}, i \in Inputs(t)
          PROVE  Agrees(i)
      BY <3>3 DEF DiskParts, LeftOver
    <3>4. QED
      BY <3>1, <3>2, <3>3 DEF DiskParts, Accounted
  <2>2. QED
    BY <2>1
<1> SUFFICES ASSUME NEW k \in Keys, NEW e \in RestartView(k)
             PROVE  Visible(e) = Visible(truth[k])
  BY DEF RestartIsTruth
<1> DEFINE top == Newest(disk, k)
<1>5. e = top
  <2>1. RestartPicks(k) = {}
    BY <1>3 DEF RestartPicks
  <2>2. top.ts = 0 => top = NoEntry
    BY <1>1, <1>2, NewestFacts
  <2>3. RestartView(k) = IF top.ts # 0 THEN {top} ELSE {NoEntry}
    BY <1>3, <2>1 DEF RestartView
  <2> HIDE DEF top
  <2>4. QED
    BY <2>2, <2>3
<1>6. /\ top.ts # 0 <=> \E i \in disk : k \in Held(i)
      /\ top.ts = 0 => top = NoEntry
      /\ \A i \in disk : At(i, k).ts <= top.ts
      /\ top.ts # 0 => \E i \in disk : top = At(i, k)
  BY <1>1, <1>2, NewestFacts
<1>7. truth[k].ts \in Nat /\ \A i \in disk : At(i, k).ts \in Nat
  BY <1>1, <1>2, EntryType DEF TypeInv, Data, Entry
<1> HIDE DEF top
<1>8. CASE Kept(k)
  <2>1. PICK i \in Live : k \in Held(i) /\ At(i, k) = truth[k]
    BY <1>8 DEF Kept
  <2>2. PICK j \in disk : top = At(j, k) /\ k \in Held(j)
    BY <1>2, <1>6, <2>1 DEF Held
  <2>3. At(j, k).ts <= truth[k].ts /\ (At(j, k).ts = truth[k].ts => At(j, k) = truth[k])
    BY <1>4, <2>2 DEF Agrees
  <2>4. truth[k].ts <= At(j, k).ts
    BY <1>2, <1>6, <2>1, <2>2
  <2>5. QED
    BY <1>5, <1>7, <2>2, <2>3, <2>4
<1>9. CASE Gone(k)
  <2>1. Visible(truth[k]) = 0 /\ \A i \in Live : k \notin Held(i)
    BY <1>9 DEF Gone
  <2>2. CASE top.ts = 0
    BY <1>5, <1>6, <2>1, <2>2 DEF Visible, NoEntry
  <2>3. CASE top.ts # 0
    <3>1. PICK j \in disk : top = At(j, k) /\ k \in Held(j)
      BY <1>6, <2>3 DEF Held
    <3>2. ASSUME NEW t \in Tasks, job[t].pc = "install", j \in Outs(t) PROVE FALSE
      <4>1. Written(t) /\ Snapshot(t) /\ Busy(t)
        BY <3>2 DEF ViewParts, Busy
      <4>2. PICK i \in Inputs(t) : k \in Held(i)
        BY <3>1, <3>2, <4>1 DEF Written, Settles
      <4>3. QED
        BY <2>1, <4>1, <4>2 DEF Snapshot
    <3>3. PICK t \in Tasks : job[t].pc \in {"mark", "unlink"} /\ j \in Inputs(t)
      BY <2>1, <3>1, <3>2 DEF DiskParts, Accounted
    <3>4. /\ Inputs(t) \subseteq disk /\ Covered(job[t].inputs, k)
          /\ Ordered(job[t].inputs)
      BY <2>1, <3>3 DEF DiskParts, LeftOver
    <3>5. PICK m \in DOMAIN job[t].inputs : job[t].inputs[m] = j
      BY <3>3 DEF Inputs, Range
    <3>6. ASSUME ~top.del PROVE FALSE
      <4>1. PICK n \in DOMAIN job[t].inputs : m < n /\ k \in Held(job[t].inputs[n])
        BY <3>1, <3>4, <3>5, <3>6 DEF Covered
      <4>2. PICK h \in Inputs(t) : h = job[t].inputs[n] /\ Older(j, h)
        BY <3>4, <3>5, <4>1 DEF Ordered, Inputs, Range
      <4>3. At(j, k).ts < At(h, k).ts /\ At(h, k).ts <= top.ts
        BY <1>6, <3>1, <3>4, <4>1, <4>2 DEF Older
      <4>4. QED
        BY <1>7, <3>1, <3>4, <4>3
    <3>7. QED
      BY <1>5, <2>1, <3>6 DEF Visible
  <2>4. QED
    BY <2>2, <2>3
<1>10. QED
  BY <1>1, <1>8, <1>9 DEF TruthInv

\* A file in data_dir that is not live belongs to the one task.
LEMMA AccountedFor ==
  ASSUME SoloInv, DiskParts, OneBackgroundTask, work = Alone(Autos),
         NEW t \in Tasks, t \in work.tasks, NEW i \in disk
  PROVE  \/ i \in Live
         \/ job[t].pc = "install" /\ i \in Outs(t)
         \/ job[t].pc \in {"mark", "unlink"} /\ i \in Inputs(t)
<1>1. \A u \in Tasks : u # t => job[u].pc = "idle"
  BY OnlyTask
<1>2. QED
  BY <1>1 DEF DiskParts, Accounted

\* A step of the one task has to be looked at for its own inputs and for the
\* files in data_dir.
LEMMA DiskTask ==
  ASSUME TypeInv, SoloInv, DiskParts, OneBackgroundTask, work = Alone(Autos),
         FilesStay, NEW t \in Tasks, t \in work.tasks, rd' = rd,
         \A u \in Tasks : u # t => job'[u] = job[u],
         LeftOver(t)', Ordered(job[t].inputs)', \A i \in disk' : Accounted(i)'
  PROVE  DiskParts'
<1>1. ASSUME NEW u \in Tasks, u # t PROVE LeftOver(u)' /\ Ordered(job[u].inputs)'
  <2>1. job'[u] = job[u] /\ job'[u].pc = "idle"
    BY <1>1, OnlyTask
  <2>2. PICK s \in Seq(Ids) : s = job[u].inputs
    BY JobType
  <2>3. job'[u].inputs = s
    BY <2>1, <2>2
  <2>4. Ordered(s)
    BY <2>2 DEF DiskParts
  <2>5. Ordered(s)'
    BY <2>4, ListStable
  <2>6. Ordered(job[u].inputs)'
    BY <2>3, <2>5, ListNext
  <2>7. LeftOver(u)'
    BY <2>1 DEF LeftOver
  <2>8. QED
    BY <2>6, <2>7
<1>2. \A u \in Tasks : LeftOver(u)' /\ Ordered(job[u].inputs)'
  BY <1>1
<1>3. QED
  BY <1>2 DEF DiskParts

\* The snapshot of a background compaction is level 0, older files first.
LEMMA DiskSnapshot ==
  ASSUME FilesInv, ViewParts, DiskParts, LeveledOnly, OneBackgroundTask,
         work = Alone(Autos), NEW t \in Tasks, t \in work.tasks,
         ManualSnapshot(t) \/ \E level \in {0, 1} : AutoSnapshot(t, level)
  PROVE  DiskParts'
<1>1. TypeInv /\ SoloInv /\ OrderInv
  BY DEF FilesInv, ViewParts
<1>2. t \in Autos /\ t \notin Manuals /\ work.tasks \subseteq Autos
  BY AloneFacts, CompactionAssumption
<1>3. PICK level \in {0, 1} : AutoSnapshot(t, level)
  BY <1>2 DEF ManualSnapshot
<1>4. /\ UNCHANGED <<file, disk, l0, l1, rd>> /\ ShouldCompact(level)
      /\ job[t].pc = "idle"
  BY <1>3 DEF AutoSnapshot
<1>5. FilesStay /\ Live' = Live
  BY <1>4 DEF FilesStay, Ids, Live
<1>6. l1 = <<>> /\ l0 \in Seq(Ids)
  BY <1>1, <1>2, LevelOneEmpty DEF TypeInv
<1> DEFINE j(g) == [pc |-> "merge", level |-> level, inputs |-> g, outs |-> <<>>,
                    rest |-> Without(Level(level), Range(g))]
<1>7. level = 0 /\ Level(level) = l0
  BY <1>4, <1>6 DEF ShouldCompact, Level
<1>8. PICK g \in Selected(Level(level)) : job' = [job EXCEPT ![t] = j(g)]
  BY <1>3 DEF AutoSnapshot
<1>9. g = l0
  BY <1>7, <1>8 DEF Selected
<1>10. job'[t] = j(g) /\ \A u \in Tasks : u # t => job'[u] = job[u]
  BY <1>1, <1>8, OtherJobs
<1>11. job'[t].pc = "merge" /\ job'[t].inputs = g
  BY <1>10
<1> HIDE DEF j
<1>12. Ordered(g)
  BY <1>1, <1>9 DEF Ordered, OrderInv
<1>13. Ordered(g)'
  BY <1>1, <1>5, <1>6, <1>9, <1>12, ListStable
<1>14. Ordered(job[t].inputs)'
  BY <1>11, <1>13, ListNext
<1>15. LeftOver(t)'
  BY <1>11 DEF LeftOver
<1>16. \A i \in disk' : Accounted(i)'
  BY <1>1, <1>4, <1>5, AccountedFor DEF Accounted
<1>17. QED
  BY <1>1, <1>4, <1>5, <1>10, <1>14, <1>15, <1>16, DiskTask

\* A merge adds its outputs to data_dir.
LEMMA DiskMerge ==
  ASSUME FilesInv, ViewParts, DiskParts, OneBackgroundTask,
         work = Alone(Autos), NEW t \in Tasks, t \in work.tasks,
         NEW cuts, Merge(t, cuts)
  PROVE  DiskParts'
<1>1. TypeInv /\ SoloInv /\ FilesStay /\ job[t].pc = "merge" /\ UNCHANGED <<l0, l1, rd>>
  BY MergeContent DEF FilesInv, ViewParts, Merge
<1>2. disk' = disk \cup (Ids' \ Ids) /\ Live' = Live
  BY <1>1, MergeIds DEF Live
<1>3. PICK s : /\ job' = [job EXCEPT ![t] = [job[t] EXCEPT !.pc = "install",
                                                          !.outs = s]]
               /\ Range(s) = Ids' \ Ids
  BY <1>1, MergeIds
<1>4. /\ job'[t] = [job[t] EXCEPT !.pc = "install", !.outs = s]
      /\ \A u \in Tasks : u # t => job'[u] = job[u]
  BY <1>1, <1>3, OtherJobs
<1>5. job[t] \in Job /\ job[t].inputs \in Seq(Ids)
  BY <1>1, JobType
<1>6. job'[t].pc = "install" /\ job'[t].inputs = job[t].inputs /\ job'[t].outs = s
  BY <1>4, <1>5 DEF Job
<1>7. Ordered(job[t].inputs)'
  <2>1. PICK g \in Seq(Ids) : g = job[t].inputs
    BY <1>5
  <2>2. Ordered(g)'
    BY <1>1, <2>1, ListStable DEF DiskParts
  <2>3. QED
    BY <1>6, <2>1, <2>2, ListNext
<1>8. LeftOver(t)'
  BY <1>6 DEF LeftOver
<1>9. ASSUME NEW i \in disk' PROVE Accounted(i)'
  <2>1. CASE i \in disk
    BY <1>1, <1>2, <2>1, AccountedFor DEF Accounted
  <2>2. CASE i \in Ids' \ Ids
    <3>1. i \in Outs(t)'
      BY <1>3, <1>6, <2>2 DEF Outs
    <3>2. QED
      BY <1>6, <3>1 DEF Accounted
  <2>3. QED
    BY <1>2, <2>1, <2>2
<1>10. QED
  BY <1>1, <1>4, <1>7, <1>8, <1>9, DiskTask

\* An install turns the inputs into leftovers: a key that the outputs do not
\* hold has a tombstone behind its values.
LEMMA DiskInstall ==
  ASSUME FilesInv, ViewParts, DiskParts, LeveledOnly, SoloWorkloads,
         OneBackgroundTask, work = Alone(Autos),
         NEW t \in Tasks, t \in work.tasks, Install(t)
  PROVE  DiskParts'
<1>1. /\ TypeInv /\ SoloInv /\ TruthInv /\ LevelsInv /\ Written(t) /\ Snapshot(t)
      /\ Busy(t) /\ job[t].pc = "install" /\ UNCHANGED <<file, disk, truth, rd>>
      /\ job' = [job EXCEPT ![t].pc = "mark"]
  BY DEF FilesInv, ViewParts, Install, Busy
<1>2. FilesStay
  BY <1>1 DEF FilesStay, Ids
<1>3. job[t] \in Job /\ job[t].inputs \in Seq(Ids) /\ Inputs(t) \in SUBSET Ids
  BY <1>1, JobType
<1>4. /\ job'[t].pc = "mark" /\ job'[t].inputs = job[t].inputs
      /\ \A u \in Tasks : u # t => job'[u] = job[u]
  BY <1>1, <1>3 DEF TypeInv, Job
<1>5. Inputs(t)' = Inputs(t)
  BY <1>4 DEF Inputs
<1>6. PICK g \in Seq(Ids) : g = job[t].inputs
  BY <1>3
<1>7. Ordered(g) /\ Inputs(t) = Range(g)
  BY <1>6 DEF DiskParts, Inputs
<1>8. Ordered(job[t].inputs)'
  <2>1. Ordered(g)'
    BY <1>1, <1>2, <1>7, ListStable
  <2>2. QED
    BY <1>4, <1>6, <2>1, ListNext
<1>9. Live' = (Live \ Inputs(t)) \cup Outs(t)
  BY AloneFacts, InstallLists
<1>10. Inputs(t) \subseteq Live
  BY <1>1 DEF Snapshot
<1>11. ASSUME NEW k \in Keys, \A i \in Live' : k \notin Held(i)
       PROVE  Covered(g, k)
  <2> SUFFICES ASSUME NEW m \in DOMAIN g, k \in Held(g[m]), ~At(g[m], k).del
               PROVE  \E n \in DOMAIN g :
                        m < n /\ k \in Held(g[n]) /\ At(g[n], k).del
    BY DEF Covered
  <2>1. g[m] \in Inputs(t) /\ DOMAIN g = 1..Len(g) /\ Len(g) \in Nat
    BY <1>7 DEF Range
  <2>2. ~\E i \in Outs(t) : k \in Held(i)
    BY <1>9, <1>11
  <2>3. PICK j \in Inputs(t) : Settles(j, Inputs(t), k) /\ At(j, k).del
    BY <1>1, <2>1, <2>2 DEF Written
  <2>4. k \in Held(j) /\ At(g[m], k).ts <= At(j, k).ts
    BY <2>1, <2>3 DEF Settles
  <2>5. PICK n \in DOMAIN g : g[n] = j
    BY <1>7 DEF Range
  <2>6. ~(n < m)
    <3>1. ASSUME n < m PROVE FALSE
      <4>1. Older(g[n], g[m])
        BY <1>7, <3>1 DEF Ordered
      <4>2. At(j, k).ts < At(g[m], k).ts
        BY <2>4, <2>5, <4>1 DEF Older
      <4>3. At(j, k).ts \in Nat /\ At(g[m], k).ts \in Nat
        BY <1>1, <1>3, <2>1, EntryType
      <4>4. QED
        BY <2>4, <4>2, <4>3
    <3>2. QED
      BY <3>1
  <2>7. n # m
    BY <2>3, <2>5
  <2>8. m < n
    BY <2>1, <2>6, <2>7
  <2>9. QED
    BY <2>3, <2>4, <2>5, <2>8
<1>12. LeftOver(t)'
  <2>1. Inputs(t) \subseteq disk'
    BY <1>1, <1>10 DEF LevelsInv
  <2>2. \A i \in Inputs(t) : Agrees(i)'
    BY <1>1, <1>2, <1>3, <1>10, Stable DEF TruthInv
  <2>3. ASSUME NEW k \in Keys, \A i \in Live' : k \notin Held(i)'
        PROVE  Covered(job[t].inputs, k)'
    <3>1. \A i \in Live' : k \notin Held(i)
      BY <1>1, <2>3 DEF Held, At
    <3>2. Covered(g, k)
      BY <1>11, <3>1
    <3>3. Covered(g, k)'
      BY <1>1, <1>2, <3>2, ListStable
    <3>4. QED
      BY <1>4, <1>6, <3>3, ListNext
  <2>4. QED
    BY <1>5, <2>1, <2>2, <2>3 DEF LeftOver
<1>13. ASSUME NEW i \in disk' PROVE Accounted(i)'
  <2>1. i \in Live \/ i \in Outs(t)
    BY <1>1, AccountedFor
  <2>2. i \in Live' \/ i \in Inputs(t)'
    BY <1>5, <1>9, <2>1
  <2>3. QED
    BY <1>4, <2>2 DEF Accounted
<1>14. QED
  BY <1>1, <1>2, <1>4, <1>8, <1>12, <1>13, DiskTask

\* The reclaim unlinks the older inputs first, and no reader delays it.
LEMMA DiskReclaim ==
  ASSUME FilesInv, ViewParts, DiskParts, OneBackgroundTask, work = Alone(Autos),
         NEW t \in Tasks, t \in work.tasks,
         MergeAborts(t) \/ Mark(t) \/ Unlink(t) \/ Reclaimed(t)
  PROVE  DiskParts'
<1>1. /\ TypeInv /\ SoloInv /\ UNCHANGED <<file, l0, l1, truth, rd>>
  BY DEF FilesInv, ViewParts, MergeAborts, Mark, Unlink, Reclaimed
<1>2. FilesStay /\ Live' = Live
  BY <1>1 DEF FilesStay, Ids, Live
<1>3. job \in [Tasks -> Job] /\ job[t] \in Job
  BY <1>1 DEF TypeInv
<1>4. PICK g \in Seq(Ids) : g = job[t].inputs
  BY <1>1, JobType
<1>5. Ordered(g) /\ Inputs(t) = Range(g) /\ LeftOver(t)
  BY <1>4 DEF DiskParts, Inputs
<1>6. CASE MergeAborts(t) \/ Reclaimed(t)
  <2>1. job' = [job EXCEPT ![t] = NoJob] /\ disk' = disk
    BY <1>6 DEF MergeAborts, Reclaimed, Abandon
  <2>2. /\ job'[t].pc = "idle" /\ job'[t].inputs = <<>>
        /\ \A u \in Tasks : u # t => job'[u] = job[u]
    BY <1>3, <2>1 DEF NoJob
  <2>3. Ordered(job[t].inputs)'
    BY <2>2 DEF Ordered
  <2>4. LeftOver(t)'
    BY <2>2 DEF LeftOver
  <2>5. ASSUME NEW i \in disk' PROVE Accounted(i)'
    <3>1. job[t].pc = "merge" \/ (job[t].pc = "unlink" /\ Inputs(t) = {})
      <4>1. job[t].pc = "merge" \/ (job[t].pc = "unlink" /\ g = <<>>)
        <5>1. CASE MergeAborts(t)
          BY <5>1 DEF MergeAborts
        <5>2. CASE Reclaimed(t)
          <6>1. job[t].pc = "unlink" /\ job[t].inputs = <<>>
            BY <5>2 DEF Reclaimed
          <6>2. QED
            BY <1>4, <6>1
        <5>3. QED
          BY <1>6, <5>1, <5>2
      <4>2. g = <<>> => Range(g) = {}
        BY RangeFacts
      <4>3. QED
        BY <1>5, <4>1, <4>2
    <3>2. i \in Live
      BY <1>1, <2>1, <3>1, AccountedFor
    <3>3. QED
      BY <1>2, <3>2 DEF Accounted
  <2>6. QED
    BY <1>1, <1>2, <2>2, <2>3, <2>4, <2>5, DiskTask
<1>7. CASE Mark(t)
  <2>1. job' = [job EXCEPT ![t].pc = "unlink"] /\ disk' = disk /\ job[t].pc = "mark"
    BY <1>7 DEF Mark
  <2>2. /\ job'[t].pc = "unlink" /\ job'[t].inputs = g
        /\ \A u \in Tasks : u # t => job'[u] = job[u]
    BY <1>3, <1>4, <2>1 DEF Job
  <2>3. Inputs(t)' = Inputs(t)
    BY <1>5, <2>2 DEF Inputs
  <2>4. Ordered(job[t].inputs)'
    BY <1>1, <1>2, <1>5, <2>2, ListStable, ListNext
  <2>5. LeftOver(t)'
    <3>1. /\ Inputs(t) \subseteq disk /\ \A i \in Inputs(t) : Agrees(i)
          /\ \A k \in Keys : (\A i \in Live : k \notin Held(i)) => Covered(g, k)
      BY <1>4, <1>5, <2>1 DEF LeftOver
    <3>2. \A i \in Inputs(t) : Agrees(i)'
      BY <1>1, <3>1 DEF Agrees, Held, At
    <3>3. ASSUME NEW k \in Keys, \A i \in Live' : k \notin Held(i)'
          PROVE  Covered(job[t].inputs, k)'
      <4>1. Covered(g, k)
        BY <1>1, <1>2, <3>1, <3>3 DEF Held, At
      <4>2. Covered(g, k)'
        BY <1>1, <1>2, <4>1, ListStable
      <4>3. QED
        BY <2>2, <4>2, ListNext
    <3>4. QED
      BY <2>1, <2>3, <3>1, <3>2, <3>3 DEF LeftOver
  <2>6. ASSUME NEW i \in disk' PROVE Accounted(i)'
    <3>1. i \in Live \/ i \in Inputs(t)
      BY <1>1, <2>1, AccountedFor
    <3>2. QED
      BY <1>2, <2>2, <2>3, <3>1 DEF Accounted
  <2>7. QED
    BY <1>1, <1>2, <2>2, <2>4, <2>5, <2>6, DiskTask
<1>8. CASE Unlink(t)
  <2>1. /\ job[t].pc = "unlink" /\ g # <<>> /\ job' = [job EXCEPT ![t].inputs = Tail(@)]
        /\ disk' = IF Head(g) \in Pinned THEN disk ELSE disk \ {Head(g)}
    BY <1>4, <1>8 DEF Unlink
  <2>2. PICK h \in Seq(Ids) : h = Tail(g)
    BY <2>1, RangeFacts
  <2>3. /\ job'[t].pc = "unlink" /\ job'[t].inputs = h
        /\ \A u \in Tasks : u # t => job'[u] = job[u]
    BY <1>3, <1>4, <2>1, <2>2 DEF Job
  <2>4. disk' = disk \ {Head(g)}
    <3>1. Pinned = {}
      BY DEF Pinned, DiskParts
    <3>2. QED
      BY <2>1, <3>1
  <2>5. Range(g) = {Head(g)} \cup Range(h)
    BY <2>1, <2>2, RangeFacts
  <2>6. /\ Ordered(h) /\ Head(g) \notin Range(h)
        /\ \A k \in Keys : Covered(g, k) => Covered(h, k)
    BY <1>1, <1>5, <2>1, <2>2, TailFacts
  <2>7. Inputs(t)' = Range(h)
    BY <2>3 DEF Inputs
  <2>8. Ordered(job[t].inputs)'
    BY <1>1, <1>2, <2>3, <2>6, ListStable, ListNext
  <2>9. LeftOver(t)'
    <3>1. /\ Range(g) \subseteq disk /\ \A i \in Range(g) : Agrees(i)
          /\ \A k \in Keys : (\A i \in Live : k \notin Held(i)) => Covered(g, k)
      BY <1>4, <1>5, <2>1 DEF LeftOver
    <3>2. Range(h) \subseteq disk'
      BY <2>4, <2>5, <2>6, <3>1
    <3>3. \A i \in Range(h) : Agrees(i)'
      BY <1>1, <2>5, <3>1 DEF Agrees, Held, At
    <3>4. ASSUME NEW k \in Keys, \A i \in Live' : k \notin Held(i)'
          PROVE  Covered(job[t].inputs, k)'
      <4>1. Covered(h, k)
        BY <1>1, <1>2, <2>6, <3>1, <3>4 DEF Held, At
      <4>2. Covered(h, k)'
        BY <1>1, <1>2, <4>1, ListStable
      <4>3. QED
        BY <2>3, <4>2, ListNext
    <3>5. QED
      BY <2>7, <3>2, <3>3, <3>4 DEF LeftOver
  <2>10. ASSUME NEW i \in disk' PROVE Accounted(i)'
    <3>1. i \in Live \/ i \in Range(g)
      BY <1>1, <1>5, <2>1, <2>4, AccountedFor
    <3>2. i \in Live' \/ i \in Inputs(t)'
      BY <1>2, <2>4, <2>5, <2>7, <3>1
    <3>3. QED
      BY <2>3, <3>2 DEF Accounted
  <2>11. QED
    BY <1>1, <1>2, <2>3, <2>8, <2>9, <2>10, DiskTask
<1>9. QED
  BY <1>6, <1>7, <1>8

\* A flush makes the leftovers older, not wrong.
LEMMA DiskFlush ==
  ASSUME TypeInv, DiskParts, NEW puts \in SUBSET Keys, NEW dels \in SUBSET Keys,
         Flush(puts, dels)
  PROVE  DiskParts'
<1>1. PICK n : n = Len(file) + 1
  OBVIOUS
<1>2. PICK W : W = puts \cup dels /\ Flushed(n, W)
  BY <1>1, FlushContent
<1>3. /\ FilesStay /\ l0' = Append(l0, n) /\ n \notin Ids
      /\ \A k \in W : truth[k].ts < truth'[k].ts
      /\ \A k \in Keys \ W : truth'[k] = truth[k]
      /\ \A k \in Keys : truth'[k].ts \in Nat
  BY <1>2 DEF Flushed
<1>4. UNCHANGED <<l1, job, rd>> /\ disk' = disk \cup {n}
  BY <1>1 DEF Flush
<1>5. Live' = Live \cup {n}
  <2>1. l0 \in Seq(Ids \cup {n})
    BY DEF TypeInv
  <2>2. Range(l0') = Range(l0) \cup {n}
    BY <1>3, <2>1, RangeFacts
  <2>3. QED
    BY <1>4, <2>2 DEF Live
<1>6. \A i \in Ids : Held(i)' = Held(i) /\ \A k \in Keys : At(i, k)' = At(i, k)
  BY <1>3, Stable
<1>7. ASSUME NEW i \in Ids, Agrees(i) PROVE Agrees(i)'
  <2>1. ASSUME NEW k \in Held(i)'
        PROVE  /\ At(i, k)'.ts <= truth'[k].ts
               /\ At(i, k)'.ts = truth'[k].ts => At(i, k)' = truth'[k]
    <3>1. k \in Keys /\ k \in Held(i) /\ At(i, k)' = At(i, k)
      BY <1>6 DEF Held
    <3>2. At(i, k).ts <= truth[k].ts /\ (At(i, k).ts = truth[k].ts => At(i, k) = truth[k])
      BY <1>7, <3>1 DEF Agrees
    <3>3. truth[k].ts \in Nat /\ At(i, k).ts \in Nat
      BY <3>1, EntryType DEF TypeInv, Data, Entry
    <3>4. QED
      BY <1>3, <3>1, <3>2, <3>3
  <2>2. QED
    BY <2>1 DEF Agrees
<1>8. ASSUME NEW t \in Tasks PROVE LeftOver(t)' /\ Ordered(job[t].inputs)'
  <2>1. PICK g \in Seq(Ids) : g = job[t].inputs
    BY JobType
  <2>2. /\ Inputs(t)' = Inputs(t) /\ Inputs(t) \in SUBSET Ids
        /\ job'[t].inputs = g /\ job'[t].pc = job[t].pc
    BY <1>4, <2>1, JobType DEF Inputs
  <2>3. Ordered(g) /\ LeftOver(t)
    BY <2>1 DEF DiskParts
  <2>4. Ordered(job[t].inputs)'
    BY <1>3, <2>2, <2>3, ListStable, ListNext
  <2>5. ASSUME job[t].pc \in {"mark", "unlink"}
        PROVE  /\ Inputs(t) \subseteq disk' /\ \A i \in Inputs(t) : Agrees(i)'
    BY <1>4, <1>7, <2>2, <2>3, <2>5 DEF LeftOver
  <2>6. ASSUME job[t].pc \in {"mark", "unlink"}, NEW k \in Keys,
               \A i \in Live' : k \notin Held(i)'
        PROVE  Covered(job[t].inputs, k)'
    <3>1. Live \in SUBSET Ids
      BY RangeOfSeq DEF Live, TypeInv
    <3>2. \A i \in Live : k \notin Held(i)
      BY <1>5, <1>6, <2>6, <3>1
    <3>3. Covered(g, k)
      BY <2>1, <2>3, <2>6, <3>2 DEF LeftOver
    <3>4. Covered(g, k)'
      BY <1>3, <3>3, ListStable
    <3>5. QED
      BY <2>2, <3>4, ListNext
  <2>7. LeftOver(t)'
    BY <2>2, <2>5, <2>6 DEF LeftOver
  <2>8. QED
    BY <2>4, <2>7
<1>9. ASSUME NEW i \in disk' PROVE Accounted(i)'
  <2>1. CASE i = n
    BY <1>5, <2>1 DEF Accounted
  <2>2. CASE i \in disk
    <3>1. Accounted(i)
      BY <2>2 DEF DiskParts
    <3>2. QED
      BY <1>4, <1>5, <3>1 DEF Accounted, Inputs, Outs
  <2>3. QED
    BY <1>4, <2>1, <2>2
<1>10. QED
  BY <1>4, <1>8, <1>9 DEF DiskParts

LEMMA DiskInit ==
  ASSUME Init PROVE DiskParts
<1>1. /\ disk = {} /\ \A t \in Tasks : job[t].pc = "idle" /\ job[t].inputs = <<>>
      /\ \A r \in Readers : rd[r].pin = 0
  BY DEF Init, NoJob, NoGet
<1>2. \A t \in Tasks : Ordered(job[t].inputs)
  BY <1>1 DEF Ordered
<1>3. \A t \in Tasks : LeftOver(t)
  BY <1>1 DEF LeftOver
<1>4. QED
  BY <1>1, <1>2, <1>3 DEF DiskParts

LEMMA DiskStep ==
  ASSUME FilesInv, ViewParts, DiskParts, LeveledOnly, SoloWorkloads,
         OneBackgroundTask, work = Alone(Autos), [Next]_vars
  PROVE  DiskParts'
<1>1. TypeInv
  BY DEF FilesInv
<1>2. work.tasks \subseteq Tasks
  BY <1>1, WorkloadAssumption DEF TypeInv
<1>3. ~MayFail /\ work.readers = {}
  BY <1>1, AloneFacts DEF MayFail, TypeInv
<1>4. CASE UNCHANGED vars
  <2>1. UNCHANGED <<file, disk, l0, l1, job, rd, truth>>
    BY <1>4 DEF vars
  <2>2. Live' = Live /\ \A t \in Tasks : Inputs(t)' = Inputs(t) /\ Outs(t)' = Outs(t)
    BY <2>1 DEF Live, Inputs, Outs
  <2>3. \A i \in disk' : Accounted(i)'
    BY <2>1, <2>2 DEF DiskParts, Accounted
  <2>4. ASSUME NEW t \in Tasks PROVE LeftOver(t)' /\ Ordered(job[t].inputs)'
    <3>1. LeftOver(t) /\ Ordered(job[t].inputs)
      BY DEF DiskParts
    <3>2. Ordered(job[t].inputs)'
      BY <2>1, <3>1 DEF Ordered, Older, Held, At
    <3>3. \A i : Agrees(i)' <=> Agrees(i)
      BY <2>1 DEF Agrees, Held, At
    <3>4. \A i : Held(i)' = Held(i)
      BY <2>1 DEF Held, At
    <3>5. \A k : Covered(job[t].inputs, k)' <=> Covered(job[t].inputs, k)
      BY <2>1 DEF Covered, Held, At
    <3>6. LeftOver(t)'
      BY <2>1, <2>2, <3>1, <3>3, <3>4, <3>5 DEF LeftOver
    <3>7. QED
      BY <3>2, <3>6
  <2>5. QED
    BY <2>1, <2>3, <2>4 DEF DiskParts
<1>5. CASE \E puts, dels \in SUBSET Keys : Flush(puts, dels)
  BY <1>1, <1>5, DiskFlush
<1>6. CASE \E t \in work.tasks : TaskStep(t)
  <2>1. PICK t \in work.tasks : TaskStep(t)
    BY <1>6
  <2>2. t \in Tasks
    BY <1>2
  <2>3. CASE \E cuts \in SUBSET Keys : Merge(t, cuts)
    BY <2>2, <2>3, DiskMerge
  <2>4. CASE ManualSnapshot(t) \/ \E level \in {0, 1} : AutoSnapshot(t, level)
    BY <2>2, <2>4, DiskSnapshot
  <2>5. CASE Install(t)
    BY <2>2, <2>5, DiskInstall
  <2>6. CASE MergeAborts(t) \/ Mark(t) \/ Unlink(t) \/ Reclaimed(t)
    BY <2>2, <2>6, DiskReclaim
  <2>7. CASE InstallTimesOut(t) \/ \E cuts \in SUBSET Keys : MergeFails(t, cuts)
    BY <1>3, <2>7 DEF InstallTimesOut, MergeFails
  <2>8. QED
    BY <2>1, <2>3, <2>4, <2>5, <2>6, <2>7 DEF TaskStep
<1>7. CASE \E r \in work.readers :
             \/ \E k \in work.keys : GetStart(r, k)
             \/ GetPin(r) \/ GetRead(r) \/ GetNextLevel(r)
  BY <1>3, <1>7
<1>8. CASE CrashRestart
  BY <1>3, <1>8 DEF CrashRestart
<1>9. QED
  BY <1>4, <1>5, <1>6, <1>7, <1>8 DEF Next

\* Under levelled selection with a single background task RestartIsInvisible
\* holds in every reachable state: load_existing_sstables, run at any point of
\* the merge, the install or the unlinking of inputs one by one, brings back
\* every value flushed last and no deleted one.
THEOREM RestartInvisible ==
  ASSUME LeveledOnly, SoloWorkloads, OneBackgroundTask
  PROVE  Spec => []RestartIsInvisible
<1>1. Spec => []FilesInv
  BY FilesInvariant DEF SafeMix
<1>2. Spec => []ViewInv
  BY ViewInvariant
<1>3. Init => DiskInv
  BY DiskInit DEF DiskInv
<1>4. FilesInv /\ ViewInv /\ DiskInv /\ [Next]_vars => DiskInv'
  <2>1. ASSUME FilesInv, ViewInv, DiskInv, [Next]_vars, work' = Alone(Autos)
        PROVE  DiskParts'
    <3>1. work = Alone(Autos)
      BY <2>1, WorkStays
    <3>2. ViewParts
      BY <2>1, <3>1, AloneFacts DEF ViewInv, ViewParts
    <3>3. QED
      BY <2>1, <3>1, <3>2, DiskStep DEF DiskInv
  <2>2. Alone(Autos)' = Alone(Autos)
    BY DEF Alone, AloneWith, Keys
  <2>3. QED
    BY <2>1, <2>2 DEF DiskInv
<1>5. FilesInv /\ ViewInv /\ DiskInv => RestartIsInvisible
  <2>1. ASSUME FilesInv, ViewInv, DiskInv, work = Alone(Autos) PROVE RestartIsTruth
    <3>1. ViewParts
      BY <2>1, AloneFacts DEF ViewInv, ViewParts
    <3>2. QED
      BY <2>1, <3>1, RestartIsRight DEF DiskInv
  <2>2. QED
    BY <2>1 DEF RestartIsInvisible
<1>6. QED
  BY <1>1, <1>2, <1>3, <1>4, <1>5, PTL DEF Spec
=============================================================================
