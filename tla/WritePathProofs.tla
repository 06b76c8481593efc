--------------------------- MODULE WritePathProofs ---------------------------
(***************************************************************************)
(* Proofs about WritePath, for any keys, operations, clients and readers.  *)
(***************************************************************************)
EXTENDS WritePathInv, WritePathKV, FiniteSetsExt, WellFoundedInduction,
        TLAPS

\* A non-empty set of naturals has a least element.
LEMMA LeastNat ==
  ASSUME NEW S \in SUBSET Nat, S # {}
  PROVE  \E m \in S : \A j \in S : m <= j
<1>1. PICK m \in S : \A j \in S : ~(<<j, m>> \in OpToRel(<, Nat))
  BY NatLessThanWellFounded, WFMin
<1>2. \A j \in S : ~(j < m)
  BY <1>1 DEF OpToRel
<1>3. QED
  BY <1>2

\* A bounded non-empty set of naturals has a greatest element, which is what
\* Max returns.
LEMMA MaxNat ==
  ASSUME NEW S \in SUBSET Nat, S # {}, NEW n \in Nat, \A x \in S : x <= n
  PROVE  Max(S) \in S /\ \A x \in S : x <= Max(S)
<1> DEFINE D == {d \in Nat : n - d \in S}
<1>1. D \in SUBSET Nat /\ D # {}
  <2>1. PICK x \in S : TRUE
    OBVIOUS
  <2>2. n - x \in Nat /\ n - (n - x) = x
    BY <2>1
  <2>3. QED
    BY <2>1, <2>2
<1>2. PICK m \in D : \A d \in D : m <= d
  <2> HIDE DEF D
  <2>1. QED
    BY <1>1, LeastNat
<1>3. n - m \in S
  BY <1>2
<1>4. ASSUME NEW x \in S PROVE n - m >= x
  <2>1. n - x \in Nat /\ n - (n - x) = x
    BY <1>4
  <2>2. m <= n - x
    BY <1>2, <1>4, <2>1
  <2>3. QED
    BY <1>1, <1>2, <1>4, <2>1, <2>2
<1>5. \E x \in S : \A y \in S : x >= y
  BY <1>3, <1>4
<1>6. Max(S) \in S /\ \A y \in S : Max(S) >= y
  BY <1>5 DEF Max
<1>7. QED
  BY <1>6

USE DEF memVars, guardVars, opVars, flushVars, histVars, bounds, Tasks, Goto,
        ImmIndex

\* The values the state starts from are well typed.
LEMMA EmptyType ==
  EmptyMemtable \in Memtable /\ NoSst \in SSTable /\ NoGet \in Get
  BY OpsAssumption DEF EmptyMemtable, Memtable, NoSst, SSTable, NoGet, Get

\* What the lookups of get return is an operation or None.
LEMMA LookupType ==
  ASSUME TypeOK, NEW k \in Keys
  PROVE  /\ active[k] \in Ops \cup {None}
         /\ ImmGet(k) \in Ops \cup {None}
         /\ SstGet(l0, k) \subseteq Ops \cup {None}
<1>1. active[k] \in Ops \cup {None}
  BY DEF TypeOK, Memtable
<1>2. ImmGet(k) \in Ops \cup {None}
  <2>1. \A i \in 1..Len(imm) : imm[i][k] \in Ops \cup {None}
    BY DEF TypeOK, Memtable
  <2>2. CASE ImmHits(k) = {}
    BY <2>2 DEF ImmGet
  <2>3. CASE ImmHits(k) # {}
    <3>1. ImmHits(k) \subseteq 1..Len(imm)
      BY DEF ImmHits
    <3> DEFINE i == CHOOSE i \in ImmHits(k) : \A j \in ImmHits(k) : i <= j
    <3>2. PICK m \in ImmHits(k) : \A j \in ImmHits(k) : m <= j
      <4>1. ImmHits(k) \subseteq Nat
        BY <3>1 DEF TypeOK
      <4>2. QED
        BY <4>1, <2>3, LeastNat
    <3>3. i \in ImmHits(k)
      BY <3>2
    <3>4. QED
      BY <3>1, <3>3, <2>1, <2>3 DEF ImmGet
  <2>4. QED
    BY <2>2, <2>3
<1>3. SstGet(l0, k) \subseteq Ops \cup {None}
  BY DEF TypeOK, SstGet, SstNewest, SstHits, SSTable, Memtable
<1>4. QED
  BY <1>1, <1>2, <1>3

\* The program points are labels.
LEMMA LabelType ==
  /\ "idle" \in Label /\ "log" \in Label /\ "apply" \in Label
  /\ "check" \in Label /\ "queued" \in Label /\ "flush" \in Label
  /\ "clone" \in Label /\ "write" \in Label /\ "publish" \in Label
  /\ "remove" \in Label /\ \A t : AfterFlush(t) \in Label
  BY DEF Label, AfterFlush

\* The initial state of the engine is well typed.
LEMMA InitType == Init => TypeOK /\ OpInv
<1>1. Init => TypeOK
  BY OpsAssumption, TasksAssumption, BoundsAssumption, EmptyType, LabelType
  DEF Init, TypeOK
<1>2. Init => OpInv
  BY DEF Init, OpInv, InFlush
<1>3. QED
  BY <1>1, <1>2

\* Every step of the engine keeps its state well typed, and the operations
\* that clients run distinct and unfinished.
LEMMA NextType == TypeOK /\ OpInv /\ [Next]_vars => TypeOK' /\ OpInv'
<1> SUFFICES ASSUME TypeOK, OpInv, [Next]_vars PROVE TypeOK' /\ OpInv'
  OBVIOUS
<1> USE OpsAssumption, TasksAssumption
<1>0. /\ \A c \in Clients : cur[c] \in Ops \cup {None}
      /\ \A c \in Clients : cur[c] # None <=> pc[c] # "idle"
      /\ \A o \in Ops : KeysOf[o] \in SUBSET Keys /\ KeysOf[o] # {}
  BY DEF TypeOK, OpInv
<1>1. ASSUME NEW c \in Clients, NEW o \in Ops, Begin(c, o)
      PROVE  TypeOK' /\ OpInv'
  <2>1. TypeOK'
    BY <1>0, <1>1, LabelType, EmptyType, BoundsAssumption DEF Begin, TypeOK
  <2>2. OpInv'
    BY <1>0, <1>1 DEF Begin, OpInv, TypeOK, InFlush, AfterFlush
  <2>3. QED
    BY <2>1, <2>2
<1>2. ASSUME NEW c \in Clients, NEW k \in Keys, LogItem(c, k)
      PROVE  TypeOK' /\ OpInv'
  <2>1. TypeOK'
    <3>1. cur[c] \in Ops
      BY <1>0, <1>2 DEF LogItem
    <3>2. wal' \in Memtable
      BY <1>2, <3>1 DEF LogItem, Memtable, TypeOK
    <3>3. UNCHANGED <<guardVars, memVars, disk, l0, flushVars, cur, rd, histVars,
                      bounds>>
      BY <1>2 DEF LogItem
    <3>4. /\ walLock' \in {None, c}
          /\ todo' \in [Clients -> SUBSET Keys]
          /\ pc' \in [Tasks -> Label]
      <4>1. todo \in [Clients -> SUBSET Keys] /\ pc \in [Tasks -> Label]
        BY DEF TypeOK
      <4>2. CASE todo[c] = {k}
        BY <1>0, <1>2, <3>1, <4>1, <4>2, LabelType DEF LogItem
      <4>3. CASE todo[c] # {k}
        BY <1>2, <4>1, <4>3 DEF LogItem
      <4>4. QED
        BY <4>2, <4>3
    <3>5. QED
      BY <3>2, <3>3, <3>4 DEF TypeOK
  <2>2. OpInv'
    <3>1. pc[c] = "log" /\ cur[c] \in Ops /\ c \in Tasks
      BY <1>0, <1>2 DEF LogItem
    <3>2. UNCHANGED <<cur, ended, before>>
      BY <1>2 DEF LogItem
    <3>3. /\ \A d \in Clients : d # c => todo'[d] = todo[d] /\ pc'[d] = pc[d]
          /\ \/ todo'[c] = KeysOf[cur[c]] /\ pc'[c] = "apply"
             \/ todo'[c] = todo[c] \ {k} /\ todo[c] # {k} /\ pc'[c] = "log"
          /\ k \in todo[c]
      BY <1>2, <3>1 DEF LogItem, TypeOK
    <3>4. QED
      BY <1>0, <3>1, <3>2, <3>3 DEF OpInv, InFlush
  <2>3. QED
    BY <2>1, <2>2
<1>3. ASSUME NEW c \in Clients, LogFails(c)
      PROVE  TypeOK' /\ OpInv'
  <2>1. TypeOK'
    <3>1. cur[c] \in Ops
      BY <1>0, <1>3 DEF LogFails
    <3>2. wal' \in Memtable
      BY <1>3, <3>1 DEF LogFails, Memtable, TypeOK
    <3>3. QED
      BY <1>3, <3>1, <3>2, LabelType, BoundsAssumption
      DEF LogFails, ReleaseGuard, TypeOK
  <2>2. OpInv'
    BY <1>0, <1>3 DEF LogFails, OpInv, TypeOK, InFlush, AfterFlush
  <2>3. QED
    BY <2>1, <2>2
<1>4. ASSUME NEW c \in Clients, NEW k \in Keys, ApplyItem(c, k)
      PROVE  TypeOK' /\ OpInv'
  <2>1. TypeOK'
    BY <1>0, <1>4, LabelType, EmptyType, BoundsAssumption DEF ApplyItem, Memtable, ReleaseGuard, TypeOK
  <2>2. OpInv'
    BY <1>0, <1>4 DEF ApplyItem, OpInv, TypeOK, InFlush, AfterFlush
  <2>3. QED
    BY <2>1, <2>2
<1>5. ASSUME NEW c \in Clients, CheckFull(c)
      PROVE  TypeOK' /\ OpInv'
  <2>1. TypeOK'
    BY <1>0, <1>5, LabelType, EmptyType, BoundsAssumption DEF CheckFull, TypeOK
  <2>2. OpInv'
    BY <1>0, <1>5 DEF CheckFull, OpInv, TypeOK, InFlush, AfterFlush
  <2>3. QED
    BY <2>1, <2>2
<1>6. ASSUME NEW c \in Clients, Return(c)
      PROVE  TypeOK' /\ OpInv'
  <2>1. TypeOK'
    BY <1>0, <1>6, LabelType, EmptyType, BoundsAssumption DEF Return, TypeOK
  <2>2. OpInv'
    BY <1>0, <1>6 DEF Return, OpInv, TypeOK, InFlush, AfterFlush
  <2>3. QED
    BY <2>1, <2>2
<1>7. CASE QueueExclusive
  <2>1. TypeOK'
    BY <1>0, <1>7, LabelType, EmptyType, BoundsAssumption DEF QueueExclusive, TypeOK
  <2>2. OpInv'
    BY <1>0, <1>7 DEF QueueExclusive, OpInv, TypeOK, InFlush, AfterFlush
  <2>3. QED
    BY <2>1, <2>2
<1>8. CASE AcquireExclusive
  <2>1. TypeOK'
    BY <1>0, <1>8, LabelType, EmptyType, BoundsAssumption DEF AcquireExclusive, TypeOK
  <2>2. OpInv'
    BY <1>0, <1>8 DEF AcquireExclusive, OpInv, TypeOK, InFlush, AfterFlush
  <2>3. QED
    BY <2>1, <2>2
<1>9. ASSUME NEW t \in Closers, BeginShutdown(t)
      PROVE  TypeOK' /\ OpInv'
  <2>1. TypeOK'
    BY <1>0, <1>9, LabelType, EmptyType, BoundsAssumption DEF BeginShutdown, TypeOK
  <2>2. OpInv'
    BY <1>0, <1>9 DEF BeginShutdown, OpInv, TypeOK, InFlush, AfterFlush
  <2>3. QED
    BY <2>1, <2>2
<1>10. ASSUME NEW t \in Tasks, Swap(t)
      PROVE  TypeOK' /\ OpInv'
  <2>1. TypeOK'
    <3>1. Append(imm, active) \in Seq(Memtable) /\ Len(imm) + 1 \in Nat \ {0}
      BY DEF TypeOK
    <3>2. CASE active = EmptyMemtable
      <4>1. pc' = [pc EXCEPT ![t] = AfterFlush(t)] /\ UNCHANGED <<slot, memVars, guardVars>>
        BY <1>10, <3>2 DEF Swap
      <4>2. UNCHANGED <<opVars, wal, disk, l0, sst, seq, rd, histVars, bounds>>
        BY <1>10 DEF Swap
      <4>3. QED
        BY <4>1, <4>2, LabelType DEF TypeOK
    <3>3. CASE active # EmptyMemtable
      <4>1. /\ guardR' \subseteq guardR \cup {t} /\ guardW' = guardW
            /\ pc' = [pc EXCEPT ![t] = "clone"]
            /\ imm' = Append(imm, active) /\ active' = EmptyMemtable
            /\ slot' = [slot EXCEPT ![t] = Len(imm) + 1]
        BY <1>10, <3>3 DEF Swap
      <4>2. UNCHANGED <<opVars, wal, disk, l0, sst, seq, rd, histVars, bounds>>
        BY <1>10 DEF Swap
      <4>3. QED
        BY <3>1, <4>1, <4>2, LabelType, EmptyType DEF TypeOK
    <3>4. QED
      BY <3>2, <3>3
  <2>2. OpInv'
    BY <1>0, <1>10 DEF Swap, OpInv, TypeOK, InFlush, AfterFlush
  <2>3. QED
    BY <2>1, <2>2
<1>11. ASSUME NEW t \in Tasks, Clone(t)
      PROVE  TypeOK' /\ OpInv'
  <2>1. TypeOK'
    <3>1. CASE slot[t] <= Len(imm)
      <4>1. [ts |-> seq, data |-> imm[slot[t]]] \in SSTable
        BY <3>1 DEF SSTable, TypeOK
      <4>2. /\ sst' = [sst EXCEPT ![t] = [ts |-> seq, data |-> imm[slot[t]]]]
            /\ seq' = seq + 1 /\ pc' = [pc EXCEPT ![t] = "write"]
            /\ UNCHANGED <<guardVars, opVars, wal, memVars, disk, l0, slot, rd,
                           histVars, bounds>>
        BY <1>11, <3>1 DEF Clone
      <4>3. QED
        BY <4>1, <4>2, LabelType DEF TypeOK
    <3>2. CASE ~(slot[t] <= Len(imm))
      <4>1. /\ pc' = [pc EXCEPT ![t] = AfterFlush(t)]
            /\ UNCHANGED <<sst, seq, opVars, wal, memVars, disk, l0, slot, rd,
                           histVars, bounds>>
        BY <1>11, <3>2 DEF Clone
      <4>2. guardR' \subseteq guardR /\ guardW' \in {None, guardW}
        BY <1>11, <3>2 DEF Clone, LeaveFlush, ReleaseGuard
      <4>3. QED
        BY <4>1, <4>2, LabelType DEF TypeOK
    <3>3. QED
      BY <3>1, <3>2
  <2>2. OpInv'
    BY <1>0, <1>11 DEF Clone, OpInv, TypeOK, InFlush, AfterFlush
  <2>3. QED
    BY <2>1, <2>2
<1>12. ASSUME NEW t \in Tasks, WriteFile(t)
      PROVE  TypeOK' /\ OpInv'
  <2>1. TypeOK'
    BY <1>0, <1>12, LabelType, EmptyType, BoundsAssumption DEF WriteFile, TypeOK
  <2>2. OpInv'
    BY <1>0, <1>12 DEF WriteFile, OpInv, TypeOK, InFlush, AfterFlush
  <2>3. QED
    BY <2>1, <2>2
<1>13. ASSUME NEW t \in Tasks, FlushFails(t)
      PROVE  TypeOK' /\ OpInv'
  <2>1. TypeOK'
    BY <1>0, <1>13, LabelType, EmptyType, BoundsAssumption DEF FlushFails, ReleaseGuard, TypeOK
  <2>2. OpInv'
    BY <1>0, <1>13 DEF FlushFails, OpInv, TypeOK, InFlush, AfterFlush
  <2>3. QED
    BY <2>1, <2>2
<1>14. ASSUME NEW t \in Tasks, Publish(t)
      PROVE  TypeOK' /\ OpInv'
  <2>1. TypeOK'
    BY <1>0, <1>14, LabelType, EmptyType, BoundsAssumption DEF Publish, TypeOK
  <2>2. OpInv'
    BY <1>0, <1>14 DEF Publish, OpInv, TypeOK, InFlush, AfterFlush
  <2>3. QED
    BY <2>1, <2>2
<1>15. ASSUME NEW t \in Tasks, Remove(t)
      PROVE  TypeOK' /\ OpInv'
  <2>1. TypeOK'
    BY <1>0, <1>15, LabelType, EmptyType, BoundsAssumption DEF Remove, RemoveAtSlot, LeaveFlush, ReleaseGuard, TypeOK
  <2>2. OpInv'
    BY <1>0, <1>15 DEF Remove, OpInv, TypeOK, InFlush, AfterFlush
  <2>3. QED
    BY <2>1, <2>2
<1>16. ASSUME NEW t \in Tasks, Truncate(t)
      PROVE  TypeOK' /\ OpInv'
  <2>1. TypeOK'
    BY <1>0, <1>16, LabelType, EmptyType, BoundsAssumption DEF Truncate, ReleaseGuard, TypeOK
  <2>2. OpInv'
    BY <1>0, <1>16 DEF Truncate, OpInv, TypeOK, InFlush, AfterFlush
  <2>3. QED
    BY <2>1, <2>2
<1>17. CASE SkipTruncate
  <2>1. TypeOK'
    BY <1>0, <1>17, LabelType, EmptyType, BoundsAssumption DEF SkipTruncate, ReleaseGuard, TypeOK
  <2>2. OpInv'
    BY <1>0, <1>17 DEF SkipTruncate, OpInv, TypeOK, InFlush, AfterFlush
  <2>3. QED
    BY <2>1, <2>2
<1>18. ASSUME NEW r \in Readers, NEW k \in Keys, GetActive(r, k)
      PROVE  TypeOK' /\ OpInv'
  <2>1. TypeOK'
    <3>1. /\ [at |-> "done", key |-> k, res |-> active[k], seen |-> acked] \in Get
          /\ [at |-> "imm", key |-> k, res |-> None, seen |-> acked] \in Get
      BY LookupType DEF Get, TypeOK
    <3>2. QED
      <4>1. UNCHANGED <<guardW, opVars, wal, memVars, disk, l0, flushVars, pc,
                        histVars, bounds>>
        BY <1>18 DEF GetActive
      <4>2. rd' \in [Readers -> Get] /\ guardR' \subseteq guardR \cup {r}
        <5>1. rd \in [Readers -> Get]
          BY DEF TypeOK
        <5>2. CASE active[k] # None
          BY <1>18, <3>1, <5>1, <5>2 DEF GetActive
        <5>3. CASE active[k] = None
          BY <1>18, <3>1, <5>1, <5>3 DEF GetActive
        <5>4. QED
          BY <5>2, <5>3
      <4>3. QED
        BY <4>1, <4>2 DEF TypeOK
  <2>2. OpInv'
    BY <1>0, <1>18 DEF GetActive, OpInv, TypeOK, InFlush, AfterFlush
  <2>3. QED
    BY <2>1, <2>2
<1>19. ASSUME NEW r \in Readers, GetImm(r)
      PROVE  TypeOK' /\ OpInv'
  <2>1. TypeOK'
    <3>1. rd[r] \in Get /\ rd[r].key \in Keys
      BY DEF TypeOK, Get
    <3>2. ImmGet(rd[r].key) \in Ops \cup {None}
      BY <3>1, LookupType
    <3>3. /\ [rd[r] EXCEPT !.at = "sst"] \in Get
          /\ [rd[r] EXCEPT !.at = "done", !.res = ImmGet(rd[r].key)] \in Get
      BY <3>1, <3>2 DEF Get
    <3>4. QED
      <4>1. UNCHANGED <<guardW, opVars, wal, memVars, disk, l0, flushVars, pc,
                        histVars, bounds>>
        BY <1>19 DEF GetImm
      <4>2. rd' \in [Readers -> Get] /\ guardR' \subseteq guardR
        <5>1. rd \in [Readers -> Get]
          BY DEF TypeOK
        <5>2. \/ Answer(r, ImmGet(rd[r].key))
              \/ rd' = [rd EXCEPT ![r] = [@ EXCEPT !.at = "sst"]] /\ guardR' = guardR
          BY <1>19 DEF GetImm
        <5>3. QED
          BY <3>3, <5>1, <5>2 DEF Answer
      <4>3. QED
        BY <4>1, <4>2 DEF TypeOK
  <2>2. OpInv'
    BY <1>0, <1>19 DEF GetImm, OpInv, TypeOK, InFlush, AfterFlush
  <2>3. QED
    BY <2>1, <2>2
<1>20. ASSUME NEW r \in Readers, GetSst(r)
      PROVE  TypeOK' /\ OpInv'
  <2>1. TypeOK'
    <3>1. rd[r] \in Get /\ rd[r].key \in Keys
      BY DEF TypeOK, Get
    <3>2. PICK o \in Ops \cup {None} : Answer(r, o)
      BY <1>20, <3>1, LookupType DEF GetSst
    <3>3. [rd[r] EXCEPT !.at = "done", !.res = o] \in Get
      BY <3>1, <3>2 DEF Get
    <3>4. QED
      BY <1>20, <3>2, <3>3 DEF GetSst, Answer, TypeOK
  <2>2. OpInv'
    BY <1>0, <1>20 DEF GetSst, OpInv, TypeOK, InFlush, AfterFlush
  <2>3. QED
    BY <2>1, <2>2
<1>21. CASE CrashRestart
  <2>1. TypeOK'
    BY <1>0, <1>21, LabelType, EmptyType, BoundsAssumption DEF CrashRestart, Running, TypeOK
  <2>2. OpInv'
    BY <1>0, <1>21 DEF CrashRestart, OpInv, TypeOK, InFlush, AfterFlush, Running
  <2>3. QED
    BY <2>1, <2>2
<1>22. CASE UNCHANGED vars
  BY <1>22 DEF vars, TypeOK, OpInv, InFlush
<1>23. QED
  BY <1>1, <1>2, <1>3, <1>4, <1>5, <1>6, <1>7, <1>8, <1>9, <1>10, <1>11, <1>12, <1>13, <1>14, <1>15, <1>16, <1>17, <1>18, <1>19, <1>20, <1>21, <1>22
     DEF Next, ClientStep, FlushStep, GetStep

\* Type correctness of the engine's state, for every use of the engine.
THEOREM TypeCorrect == Spec => []TypeOK
<1>1. Init => TypeOK /\ OpInv
  BY InitType
<1>2. TypeOK /\ OpInv /\ [Next]_vars => TypeOK' /\ OpInv'
  BY NextType
<1>3. QED
  BY <1>1, <1>2, PTL DEF Spec

-----------------------------------------------------------------------------
(* The inductive invariant under SafeUse.                                  *)

\* Under SafeUse the tasks are the clients and Admin, and no I/O error or
\* shutdown step is possible.
LEMMA SafeSteps ==
  ASSUME SafeUse, TypeOK
  PROVE  /\ Tasks = Clients \cup {Admin}
         /\ \A c \in Clients : ~LogFails(c)
         /\ \A t \in Tasks : ~FlushFails(t)
         /\ Closers = {}
  BY BoundsAssumption DEF SafeUse, TypeOK, LogFails, FlushFails

\* operation_guard stays consistent with the program points.
LEMMA GuardStep ==
  ASSUME SafeUse, TypeOK, OpInv, GuardInv, [Next]_vars
  PROVE  GuardInv'
<1> USE TasksAssumption, SafeSteps DEF GuardInv, InFlush, CanShare
<1>0. pc \in [Tasks -> Label] /\ rd \in [Readers -> Get] /\ guardW \in {None, Admin}
  BY DEF TypeOK
<1>1. ASSUME NEW c \in Clients, NEW o \in Ops, Begin(c, o) PROVE GuardInv'
  BY <1>0, <1>1, OpsAssumption DEF Begin, SafeUse
<1>2. ASSUME NEW c \in Clients, NEW k \in Keys, LogItem(c, k) PROVE GuardInv'
  BY <1>0, <1>2 DEF LogItem
<1>3. ASSUME NEW c \in Clients, NEW k \in Keys, ApplyItem(c, k) PROVE GuardInv'
  BY <1>0, <1>3 DEF ApplyItem, ReleaseGuard
<1>4. ASSUME NEW c \in Clients, CheckFull(c) PROVE GuardInv'
  BY <1>0, <1>4 DEF CheckFull
<1>5. ASSUME NEW c \in Clients, Return(c) PROVE GuardInv'
  BY <1>0, <1>5 DEF Return
<1>6. CASE QueueExclusive
  BY <1>0, <1>6 DEF QueueExclusive
<1>7. CASE AcquireExclusive
  BY <1>0, <1>7 DEF AcquireExclusive
<1>8. ASSUME NEW t \in Tasks, Swap(t) PROVE GuardInv'
  BY <1>0, <1>8 DEF Swap, AfterFlush
<1>9. ASSUME NEW t \in Tasks, Clone(t) PROVE GuardInv'
  BY <1>0, <1>9 DEF Clone, LeaveFlush, ReleaseGuard, AfterFlush
<1>10. ASSUME NEW t \in Tasks, WriteFile(t) PROVE GuardInv'
  BY <1>0, <1>10 DEF WriteFile
<1>11. ASSUME NEW t \in Tasks, Publish(t) PROVE GuardInv'
  BY <1>0, <1>11 DEF Publish
<1>12. ASSUME NEW t \in Tasks, Remove(t) PROVE GuardInv'
  BY <1>0, <1>12 DEF Remove, LeaveFlush, ReleaseGuard, AfterFlush
<1>13. ASSUME NEW t \in Tasks, Truncate(t) PROVE GuardInv'
  BY <1>0, <1>13 DEF Truncate, ReleaseGuard
<1>14. CASE SkipTruncate
  BY <1>0, <1>14 DEF SkipTruncate, ReleaseGuard
<1>15. ASSUME NEW r \in Readers, NEW k \in Keys, GetActive(r, k) PROVE GuardInv'
  BY <1>0, <1>15 DEF GetActive, Get
<1>16. ASSUME NEW r \in Readers, GetImm(r) PROVE GuardInv'
  <2>1. UNCHANGED <<guardW, pc>>
    BY <1>16 DEF GetImm
  <2>2. \/ rd' = [rd EXCEPT ![r] = [@ EXCEPT !.at = "sst"]] /\ guardR' = guardR
        \/ Answer(r, ImmGet(rd[r].key))
    BY <1>16 DEF GetImm
  <2>3. rd[r].at = "imm"
    BY <1>16 DEF GetImm
  <2>4. CASE Answer(r, ImmGet(rd[r].key))
    BY <1>0, <2>1, <2>3, <2>4 DEF Answer, Get
  <2>5. CASE rd' = [rd EXCEPT ![r] = [@ EXCEPT !.at = "sst"]] /\ guardR' = guardR
    BY <1>0, <2>1, <2>3, <2>5 DEF Get
  <2>6. QED
    BY <2>2, <2>4, <2>5
<1>17. ASSUME NEW r \in Readers, GetSst(r) PROVE GuardInv'
  BY <1>0, <1>17 DEF GetSst, Get, Answer
<1>18. CASE CrashRestart
  BY <1>0, <1>18 DEF CrashRestart, NoGet
<1>19. CASE UNCHANGED vars
  BY <1>19 DEF vars
<1>20. QED
  BY <1>1, <1>2, <1>3, <1>4, <1>5, <1>6, <1>7, <1>8, <1>9, <1>10, <1>11, <1>12, <1>13, <1>14, <1>15, <1>16, <1>17, <1>18, <1>19
     DEF Next, ClientStep, FlushStep, GetStep

\* A step outside the flush steps leaves FlushInv alone.
LEMMA FlushFrame ==
  ASSUME FlushInv, UNCHANGED <<imm, slot, sst, seq, disk, l0>>,
         \A t \in Tasks : pc'[t] = pc[t] \/ (~InFlush(t) /\ ~InFlush(t)')
  PROVE  FlushInv'
  BY DEF FlushInv, InFlush

\* At most one flush is under way: a client flushes only if it is the one
\* Flusher, and flush() holds the guard exclusively.
LEMMA OneFlush ==
  ASSUME SafeUse, TypeOK, OpInv, GuardInv, NEW t \in Tasks, Swap(t)
  PROVE  \A u \in Tasks : ~InFlush(u)
  BY TasksAssumption, SafeSteps
  DEF SafeUse, OpInv, GuardInv, Swap, CanShare, InFlush, TypeOK

\* The flush pipeline keeps its single immutable memtable and its newest file.
LEMMA FlushPreserved ==
  ASSUME SafeUse, TypeOK, OpInv, GuardInv, FlushInv, [Next]_vars
  PROVE  FlushInv'
<1> USE TasksAssumption, SafeSteps
<1>0. /\ pc \in [Tasks -> Label] /\ imm \in Seq(Memtable) /\ seq \in Nat
      /\ sst \in [Tasks -> SSTable] /\ slot \in [Tasks -> Nat \ {0}]
      /\ disk \subseteq SSTable /\ l0 \subseteq SSTable
  BY DEF TypeOK
<1>1. ASSUME NEW c \in Clients, NEW o \in Ops, Begin(c, o) PROVE FlushInv'
  BY <1>0, <1>1, FlushFrame DEF Begin, InFlush
<1>2. ASSUME NEW c \in Clients, NEW k \in Keys, LogItem(c, k) PROVE FlushInv'
  BY <1>0, <1>2, FlushFrame DEF LogItem, InFlush
<1>3. ASSUME NEW c \in Clients, NEW k \in Keys, ApplyItem(c, k) PROVE FlushInv'
  BY <1>0, <1>3, FlushFrame DEF ApplyItem, InFlush
<1>4. ASSUME NEW c \in Clients, CheckFull(c) PROVE FlushInv'
  BY <1>0, <1>4, FlushFrame DEF CheckFull, InFlush
<1>5. ASSUME NEW c \in Clients, Return(c) PROVE FlushInv'
  BY <1>0, <1>5, FlushFrame DEF Return, InFlush
<1>6. CASE QueueExclusive
  BY <1>0, <1>6, FlushFrame DEF QueueExclusive, InFlush
<1>7. CASE AcquireExclusive
  BY <1>0, <1>7, FlushFrame DEF AcquireExclusive, InFlush
<1>8. ASSUME NEW t \in Tasks, Truncate(t) PROVE FlushInv'
  BY <1>0, <1>8, FlushFrame DEF Truncate, InFlush
<1>9. CASE SkipTruncate
  BY <1>0, <1>9, FlushFrame DEF SkipTruncate, InFlush
<1>10. ASSUME NEW r \in Readers, NEW k \in Keys, GetActive(r, k) PROVE FlushInv'
  BY <1>0, <1>10, FlushFrame DEF GetActive, InFlush
<1>11. ASSUME NEW r \in Readers, GetImm(r) PROVE FlushInv'
  BY <1>0, <1>11, FlushFrame DEF GetImm, InFlush
<1>12. ASSUME NEW r \in Readers, GetSst(r) PROVE FlushInv'
  BY <1>0, <1>12, FlushFrame DEF GetSst, InFlush
<1>13. ASSUME NEW t \in Tasks, Swap(t) PROVE FlushInv'
  <2>1. \A u \in Tasks : ~InFlush(u)
    BY <1>13, OneFlush
  <2>2. Len(imm) = 0
    <3>1. Len(imm) \in Nat /\ Len(imm) <= 1 /\ Len(imm) # 1
      BY <1>0, <2>1 DEF FlushInv
    <3>2. \A n \in Nat : n <= 1 /\ n # 1 => n = 0
      OBVIOUS
    <3>3. QED
      BY <3>1, <3>2
  <2>3. CASE active = EmptyMemtable
    BY <1>0, <1>13, <2>1, <2>3, FlushFrame DEF Swap, InFlush, AfterFlush
  <2>4. CASE active # EmptyMemtable
    <3>1. /\ imm' = Append(imm, active) /\ slot' = [slot EXCEPT ![t] = Len(imm) + 1]
          /\ pc' = [pc EXCEPT ![t] = "clone"] /\ UNCHANGED <<sst, seq, disk, l0>>
      BY <1>13, <2>4 DEF Swap
    <3>2. Len(imm') = 1
      BY <1>0, <2>2, <3>1 DEF TypeOK
    <3>3. \A u \in Tasks : u # t => pc'[u] = pc[u] /\ ~InFlush(u)'
      BY <1>0, <2>1, <3>1 DEF InFlush
    <3>4. pc'[t] = "clone" /\ slot'[t] = 1 /\ pc[t] = "flush"
      BY <1>0, <1>13, <2>2, <3>1 DEF Swap
    <3>5. QED
      BY <1>0, <2>1, <2>2, <3>1, <3>2, <3>3, <3>4 DEF FlushInv, InFlush
  <2>5. QED
    BY <2>3, <2>4
<1>14. ASSUME NEW t \in Tasks, Clone(t) PROVE FlushInv'
  <2>1. InFlush(t) /\ slot[t] = 1 /\ Len(imm) = 1
    BY <1>14 DEF FlushInv, InFlush, Clone
  <2>2. /\ sst' = [sst EXCEPT ![t] = [ts |-> seq, data |-> imm[1]]]
        /\ seq' = seq + 1 /\ pc' = [pc EXCEPT ![t] = "write"]
        /\ UNCHANGED <<imm, disk, l0, slot>>
    BY <1>14, <2>1 DEF Clone
  <2>3. /\ sst'[t].ts = seq /\ sst'[t].data = imm[1] /\ pc'[t] = "write"
        /\ pc[t] = "clone"
    BY <1>0, <1>14, <2>2 DEF Clone
  <2>4. \A u \in Tasks : u # t => pc'[u] = pc[u] /\ sst'[u] = sst[u] /\ ~InFlush(u)
    BY <1>0, <2>1, <2>2 DEF FlushInv
  <2>5. \A f \in disk : f.ts \in Nat /\ f.ts < seq
    BY <1>0 DEF FlushInv, SSTable
  <2>6. \A f \in disk : f \in l0
    BY <1>14, <2>1, <2>4 DEF FlushInv, InFlush, Clone
  <2>7. \A u \in Tasks : pc'[u] \notin {"publish", "remove"} /\ (InFlush(u)' => u = t)
    BY <2>3, <2>4 DEF InFlush
  <2>8. \A u \in Tasks : pc'[u] = "write" => u = t
    BY <2>3, <2>4 DEF InFlush
  <2>9. InFlush(t)' /\ l0 \subseteq disk /\ Len(imm) <= 1
    BY <2>3 DEF InFlush, FlushInv
  <2>10. seq < seq' /\ \A f \in disk : f.ts < seq'
    BY <1>0, <2>2, <2>5
  <2>11. sst'[t].ts < seq' /\ \A f \in disk : f.ts < sst'[t].ts
    BY <2>3, <2>5, <2>10
  <2>12. Len(imm') = 1 /\ slot'[t] = 1 /\ imm' = imm /\ disk' = disk /\ l0' = l0
    BY <2>1, <2>2
  <2>13. QED
    BY <2>3, <2>6, <2>7, <2>8, <2>9, <2>10, <2>11, <2>12 DEF FlushInv
<1>15. ASSUME NEW t \in Tasks, WriteFile(t) PROVE FlushInv'
  <2>1. InFlush(t) /\ disk' = disk \cup {sst[t]} /\ pc'[t] = "publish"
        /\ UNCHANGED <<imm, l0, slot, sst, seq>> /\ pc[t] = "write"
    BY <1>0, <1>15 DEF WriteFile, InFlush
  <2>2. \A u \in Tasks : u # t => pc'[u] = pc[u] /\ ~InFlush(u)
    BY <1>0, <1>15, <2>1 DEF FlushInv, WriteFile
  <2>3. QED
    BY <1>0, <2>1, <2>2 DEF FlushInv, InFlush, SSTable
<1>16. ASSUME NEW t \in Tasks, Publish(t) PROVE FlushInv'
  <2>1. InFlush(t) /\ l0' = l0 \cup {sst[t]} /\ pc'[t] = "remove"
        /\ UNCHANGED <<imm, disk, slot, sst, seq>> /\ pc[t] = "publish"
    BY <1>0, <1>16 DEF Publish, InFlush
  <2>2. \A u \in Tasks : u # t => pc'[u] = pc[u] /\ ~InFlush(u)
    BY <1>0, <1>16, <2>1 DEF FlushInv, Publish
  <2>3. \A u \in Tasks : InFlush(u)' <=> u = t
    BY <2>1, <2>2 DEF InFlush
  <2>4. \A u \in Tasks : pc[u] = "publish" => u = t
    BY <2>2 DEF InFlush
  <2>5. \A u \in Tasks : pc'[u] \in {"write", "publish", "remove"} => u = t
    BY <2>3 DEF InFlush
  <2>6. sst[t] \in disk /\ \A f \in disk : f \in l0'
    BY <2>1, <2>4 DEF FlushInv
  <2>7. QED
    BY <2>1, <2>3, <2>5, <2>6 DEF FlushInv
<1>17. ASSUME NEW t \in Tasks, Remove(t) PROVE FlushInv'
  <2>1. InFlush(t) /\ slot[t] = 1 /\ Len(imm) = 1 /\ pc[t] = "remove"
    BY <1>17 DEF FlushInv, InFlush, Remove
  <2>2. Len(imm') = 0
    BY <1>0, <1>17, <2>1 DEF Remove, RemoveAtSlot
  <2>3. pc' = [pc EXCEPT ![t] = AfterFlush(t)] /\ UNCHANGED <<disk, l0, slot, sst, seq>>
    BY <1>17 DEF Remove
  <2>4. ~InFlush(t)' /\ \A u \in Tasks : u # t => pc'[u] = pc[u] /\ ~InFlush(u)
    BY <1>0, <2>1, <2>3 DEF FlushInv, InFlush, AfterFlush
  <2>5. QED
    BY <1>0, <2>1, <2>2, <2>3, <2>4 DEF FlushInv, InFlush
<1>18. CASE CrashRestart
  BY <1>0, <1>18 DEF CrashRestart, FlushInv, InFlush
<1>19. CASE UNCHANGED vars
  BY <1>19, FlushFrame DEF vars, InFlush
<1>20. QED
  BY <1>1, <1>2, <1>3, <1>4, <1>5, <1>6, <1>7, <1>8, <1>9, <1>10, <1>11, <1>12, <1>13, <1>14, <1>15, <1>16, <1>17, <1>18, <1>19
     DEF Next, ClientStep, FlushStep, GetStep

\* A file without the key does not change what the SSTables answer.
LEMMA SstGetIgnores ==
  ASSUME NEW files, NEW f, NEW k, f.data[k] = None
  PROVE  SstGet(files \cup {f}, k) = SstGet(files, k)
<1>1. SstHits(files \cup {f}, k) = SstHits(files, k)
  BY DEF SstHits
<1>2. SstNewest(files \cup {f}, k) = SstNewest(files, k)
  BY <1>1 DEF SstNewest
<1>3. QED
  BY <1>1, <1>2 DEF SstGet

\* The newest file answers for the keys it holds.
LEMMA SstGetNewest ==
  ASSUME NEW files \in SUBSET SSTable, NEW f \in files, NEW k \in Keys,
         f.data[k] # None, \A g \in files : g = f \/ g.ts < f.ts
  PROVE  SstGet(files, k) = {f.data[k]}
<1>1. f \in SstHits(files, k) /\ SstHits(files, k) \subseteq files
  BY DEF SstHits
<1>2. \A g \in files : g.ts \in Nat
  BY DEF SSTable
<1>3. SstNewest(files, k) = {f}
  BY <1>1, <1>2 DEF SstNewest
<1>4. QED
  BY <1>1, <1>3 DEF SstGet

\* With at most one immutable memtable, get's walk of the list is its lookup.
LEMMA ImmGetOne ==
  ASSUME TypeOK, FlushInv, NEW k \in Keys
  PROVE  ImmGet(k) = IF Len(imm) = 1 THEN imm[1][k] ELSE None
<1>1. CASE Len(imm) = 1
  <2>1. 1..Len(imm) = {1}
    BY <1>1
  <2>2. CASE imm[1][k] = None
    <3>1. ImmHits(k) = {}
      BY <2>1, <2>2 DEF ImmHits
    <3>2. QED
      BY <1>1, <2>2, <3>1 DEF ImmGet
  <2>3. CASE imm[1][k] # None
    <3>1. ImmHits(k) = {1}
      BY <2>1, <2>3 DEF ImmHits
    <3>2. (CHOOSE i \in {1} : \A j \in {1} : i <= j) = 1
      OBVIOUS
    <3>3. QED
      BY <1>1, <3>1, <3>2 DEF ImmGet
  <2>4. QED
    BY <2>2, <2>3
<1>2. CASE Len(imm) # 1
  <2>1. Len(imm) \in Nat /\ Len(imm) <= 1
    BY DEF TypeOK, FlushInv
  <2>2. \A n \in Nat : n <= 1 /\ n # 1 => 1..n = {}
    OBVIOUS
  <2>3. ImmHits(k) = {}
    BY <1>2, <2>1, <2>2 DEF ImmHits
  <2>4. QED
    BY <1>2, <2>3 DEF ImmGet
<1>3. QED
  BY <1>1, <1>2

\* get, with at most one immutable memtable.
OneImmView ==
  \A k \in Keys :
    View(k) = IF active[k] # None THEN {active[k]}
              ELSE IF Len(imm) = 1 /\ imm[1][k] # None THEN {imm[1][k]}
              ELSE SstGet(l0, k)

\* With at most one immutable memtable, get answers from the active memtable,
\* else from that one, else from the SSTables.
LEMMA ViewOne == TypeOK /\ FlushInv => OneImmView
  BY ImmGetOne DEF View, OneImmView

\* A step that leaves wal and the memtables alone, and no client newly in its
\* apply phase, keeps the WAL ahead of the memtables.
LEMMA WalFrame ==
  ASSUME WalInv, UNCHANGED <<wal, active, imm, cur, todo>>,
         \A t \in Tasks :
           /\ pc'[t] \in {"log", "apply"} => pc'[t] = pc[t]
           /\ InFlush(t)' => InFlush(t)
           /\ pc'[t] = "truncate" => pc[t] = "truncate"
  PROVE  WalInv'
  BY DEF WalInv, InFlush

\* The WAL stays ahead of the memtables, and flush() finds nothing new in
\* memory when it truncates.
LEMMA WalPreserved ==
  ASSUME SafeUse, TypeOK, OpInv, GuardInv, FlushInv, WalInv, [Next]_vars,
         TypeOK', FlushInv'
  PROVE  WalInv'
<1> USE TasksAssumption, SafeSteps
<1>0. /\ pc \in [Tasks -> Label] /\ imm \in Seq(Memtable)
      /\ wal \in Memtable /\ active \in Memtable
      /\ cur \in [Clients -> Ops \cup {None}] /\ todo \in [Clients -> SUBSET Keys]
      /\ None \notin Ops
  BY OpsAssumption DEF TypeOK
<1>1. ASSUME NEW c \in Clients, NEW o \in Ops, Begin(c, o) PROVE WalInv'
  <2>1. UNCHANGED <<wal, active, imm>> /\ pc' = [pc EXCEPT ![c] = "log"]
        /\ cur' = [cur EXCEPT ![c] = o] /\ todo' = [todo EXCEPT ![c] = KeysOf[o]]
    BY <1>1 DEF Begin
  <2>2. QED
    BY <1>0, <2>1, OpsAssumption DEF WalInv, InFlush
<1>2. ASSUME NEW c \in Clients, NEW k \in Keys, LogItem(c, k) PROVE WalInv'
  <2>1. UNCHANGED <<active, imm, cur>> /\ wal' = [wal EXCEPT ![k] = cur[c]]
    BY <1>2 DEF LogItem
  <2>2. cur[c] \in Ops /\ pc[c] = "log" /\ k \in todo[c]
    BY <1>0, <1>2 DEF LogItem, OpInv
  <2>3. \A j \in Keys : wal[j] # None => wal'[j] # None
    <3>1. wal \in [Keys -> Ops \cup {None}] /\ cur[c] # None
      BY <1>0, <2>2 DEF Memtable
    <3>2. QED
      BY <2>1, <3>1
  <2>4. wal'[k] # None
    <3>1. wal \in [Keys -> Ops \cup {None}] /\ cur[c] # None
      BY <1>0, <2>2 DEF Memtable
    <3>2. QED
      BY <2>1, <3>1
  <2>5. /\ \A t \in Tasks : t # c => pc'[t] = pc[t]
        /\ \A d \in Clients : d # c => todo'[d] = todo[d]
        /\ \/ todo[c] = {k} /\ pc'[c] = "apply"
           \/ todo'[c] = todo[c] \ {k} /\ pc'[c] = "log"
    BY <1>0, <1>2 DEF LogItem
  <2>6. \A j \in KeysOf[cur[c]] : j \in Keys
    BY <2>2, OpsAssumption
  <2>7. /\ pc'[c] = "apply" => \A j \in KeysOf[cur[c]] : wal'[j] # None
        /\ pc'[c] = "log" => \A j \in KeysOf[cur[c]] \ todo'[c] : wal'[j] # None
    BY <2>2, <2>3, <2>4, <2>5, <2>6 DEF WalInv
  <2>8. \A d \in Clients : pc[d] # "idle" => \A j \in KeysOf[cur[d]] : j \in Keys
    BY <1>0, OpsAssumption DEF OpInv
  <2>9. QED
    BY <1>0, <2>1, <2>3, <2>5, <2>7, <2>8 DEF WalInv, InFlush
<1>3. ASSUME NEW c \in Clients, NEW k \in Keys, ApplyItem(c, k) PROVE WalInv'
  <2>1. UNCHANGED <<wal, imm, cur>> /\ active' = [active EXCEPT ![k] = cur[c]]
        /\ todo' = [todo EXCEPT ![c] = @ \ {k}] /\ pc[c] = "apply" /\ k \in todo[c]
    BY <1>3 DEF ApplyItem
  <2>2. wal[k] # None
    BY <2>1 DEF WalInv, OpInv
  <2>3. ~InFlush(Admin) /\ pc[Admin] # "truncate"
    BY <2>1 DEF GuardInv
  <2>4. \A t \in Tasks : pc'[t] = pc[t] \/ (t = c /\ pc'[t] = "check")
    BY <1>0, <1>3 DEF ApplyItem
  <2>5. QED
    BY <1>0, <2>1, <2>2, <2>3, <2>4 DEF WalInv, InFlush
<1>4. ASSUME NEW c \in Clients, CheckFull(c) PROVE WalInv'
  BY <1>0, <1>4, WalFrame DEF CheckFull, InFlush
<1>5. ASSUME NEW c \in Clients, Return(c) PROVE WalInv'
  <2>1. UNCHANGED <<wal, active, imm, todo>> /\ cur' = [cur EXCEPT ![c] = None]
        /\ pc' = [pc EXCEPT ![c] = "idle"]
    BY <1>5 DEF Return
  <2>2. QED
    BY <1>0, <2>1 DEF WalInv, InFlush
<1>6. CASE QueueExclusive
  BY <1>0, <1>6, WalFrame DEF QueueExclusive, InFlush
<1>7. CASE AcquireExclusive
  BY <1>0, <1>7, WalFrame DEF AcquireExclusive, InFlush
<1>8. ASSUME NEW t \in Tasks, Truncate(t) PROVE WalInv'
  <2>1. t = Admin /\ pc[Admin] = "truncate" /\ guardW = Admin
    BY <1>8 DEF Truncate, GuardInv
  <2>2. active = EmptyMemtable /\ Len(imm) = 0
    BY <2>1 DEF WalInv
  <2>3. \A c \in Clients : pc[c] \notin {"log", "apply"}
    BY <2>1 DEF GuardInv
  <2>4. UNCHANGED <<active, imm>> /\ pc' = [pc EXCEPT ![Admin] = "idle"]
    BY <1>8, <2>1 DEF Truncate
  <2>5. QED
    BY <1>0, <2>2, <2>3, <2>4 DEF WalInv, InFlush, EmptyMemtable
<1>9. CASE SkipTruncate
  BY <1>0, <1>9, WalFrame DEF SkipTruncate, InFlush
<1>10. ASSUME NEW r \in Readers, NEW k \in Keys, GetActive(r, k) PROVE WalInv'
  BY <1>0, <1>10, WalFrame DEF GetActive, InFlush
<1>11. ASSUME NEW r \in Readers, GetImm(r) PROVE WalInv'
  BY <1>0, <1>11, WalFrame DEF GetImm, InFlush
<1>12. ASSUME NEW r \in Readers, GetSst(r) PROVE WalInv'
  BY <1>0, <1>12, WalFrame DEF GetSst, InFlush
<1>13. ASSUME NEW t \in Tasks, Swap(t) PROVE WalInv'
  <2>1. \A u \in Tasks : ~InFlush(u)
    BY <1>13, OneFlush
  <2>2. Len(imm) # 1 /\ Len(imm) \in Nat /\ Len(imm) <= 1
    BY <1>0, <2>1 DEF FlushInv
  <2>3. Len(imm) = 0
    <3>1. \A n \in Nat : n <= 1 /\ n # 1 => n = 0
      OBVIOUS
    <3>2. QED
      BY <2>2, <3>1
  <2>4. UNCHANGED <<wal, cur, todo>> /\ pc[t] = "flush"
    BY <1>13 DEF Swap
  <2>5. \A c \in Clients : pc'[c] \in {"log", "apply"} => pc'[c] = pc[c]
    BY <1>0, <1>13 DEF Swap, AfterFlush
  <2>6. CASE active = EmptyMemtable
    <3>1. UNCHANGED <<active, imm>> /\ pc' = [pc EXCEPT ![t] = AfterFlush(t)]
      BY <1>13, <2>6 DEF Swap
    <3>2. QED
      BY <1>0, <2>1, <2>3, <2>4, <2>5, <2>6, <3>1 DEF WalInv, InFlush, AfterFlush
  <2>7. CASE active # EmptyMemtable
    <3>1. active' = EmptyMemtable /\ imm' = Append(imm, active)
          /\ pc' = [pc EXCEPT ![t] = "clone"]
      BY <1>13, <2>7 DEF Swap
    <3>2. imm'[1] = active
      BY <1>0, <2>3, <3>1
    <3>3. pc'[Admin] # "truncate"
      BY <1>0, <1>13, <3>1 DEF Swap, CanShare, GuardInv
    <3>4. \A k \in Keys : active'[k] = None
      BY <3>1 DEF EmptyMemtable
    <3>5. QED
      BY <1>0, <2>4, <2>5, <3>1, <3>2, <3>3, <3>4 DEF WalInv
  <2>8. QED
    BY <2>6, <2>7
<1>14. ASSUME NEW t \in Tasks, Clone(t) PROVE WalInv'
  <2>1. slot[t] = 1 /\ Len(imm) = 1
    BY <1>14 DEF FlushInv, InFlush, Clone
  <2>2. pc' = [pc EXCEPT ![t] = "write"] /\ pc[t] = "clone"
        /\ UNCHANGED <<wal, active, imm, cur, todo>>
    BY <1>14, <2>1 DEF Clone
  <2>3. QED
    BY <1>0, <2>2, WalFrame DEF InFlush
<1>15. ASSUME NEW t \in Tasks, WriteFile(t) PROVE WalInv'
  BY <1>0, <1>15, WalFrame DEF WriteFile, InFlush
<1>16. ASSUME NEW t \in Tasks, Publish(t) PROVE WalInv'
  BY <1>0, <1>16, WalFrame DEF Publish, InFlush
<1>17. ASSUME NEW t \in Tasks, Remove(t) PROVE WalInv'
  <2>1. Len(imm') = 0
    <3>1. slot[t] = 1 /\ Len(imm) = 1
      BY <1>17 DEF FlushInv, InFlush, Remove
    <3>2. QED
      BY <1>0, <1>17, <3>1 DEF Remove, RemoveAtSlot
  <2>2. UNCHANGED <<wal, active, cur, todo>> /\ pc' = [pc EXCEPT ![t] = AfterFlush(t)]
        /\ InFlush(t)
    BY <1>17 DEF Remove, InFlush
  <2>3. QED
    BY <1>0, <2>1, <2>2 DEF WalInv, InFlush, AfterFlush
<1>18. CASE CrashRestart
  BY <1>0, <1>18 DEF CrashRestart, WalInv, InFlush
<1>19. CASE UNCHANGED vars
  BY <1>19, WalFrame DEF vars, InFlush
<1>20. QED
  BY <1>1, <1>2, <1>3, <1>4, <1>5, <1>6, <1>7, <1>8, <1>9, <1>10, <1>11, <1>12, <1>13, <1>14, <1>15, <1>16, <1>17, <1>18, <1>19
     DEF Next, ClientStep, FlushStep, GetStep

\* A write that has not ended is fresh for any set of writes.
LEMMA RunningIsFresh ==
  ASSUME OpInv, NEW k, NEW o \in Ops, o \notin ended, o # None,
         NEW W \in SUBSET Ops
  PROVE  Fresh(k, o, W)
  BY DEF Fresh, OpInv

\* The history of an operation is fixed once it has been applied or logged.
LEMMA HistoryFixed ==
  ASSUME TypeOK, OpInv, [Next]_vars
  PROVE  \A w \in Ops : before'[w] = before[w]
            \/ (w \notin acked /\ \A c \in Clients : cur[c] # w)
<1> USE OpsAssumption
<1>0. acked \subseteq ended /\ before \in [Ops -> SUBSET Ops]
  BY DEF TypeOK
<1>1. ASSUME NEW c \in Clients, NEW o \in Ops, Begin(c, o)
      PROVE  \A w \in Ops : before'[w] = before[w]
               \/ (w \notin acked /\ \A d \in Clients : cur[d] # w)
  <2>1. before' = [before EXCEPT ![o] = ended] /\ o \notin ended /\ ClientOf[o] = c
        /\ pc[c] = "idle"
    BY <1>1 DEF Begin
  <2>2. \A d \in Clients : cur[d] # o
    BY <2>1 DEF OpInv
  <2>3. QED
    BY <1>0, <2>1, <2>2
<1>2. CASE UNCHANGED before
  BY <1>2
<1>3. UNCHANGED before \/ \E c \in Clients, o \in Ops : Begin(c, o)
  BY DEF Next, vars, ClientStep, FlushStep, GetStep, LogItem, LogFails, ApplyItem,
         CheckFull, Return, QueueExclusive, AcquireExclusive, BeginShutdown, Swap,
         Clone, WriteFile, FlushFails, Publish, Remove, Truncate, SkipTruncate,
         GetActive, GetImm, GetSst, CrashRestart
<1>4. QED
  BY <1>1, <1>2, <1>3

\* The operations of AppliedOps and LoggedOps are acknowledged or running.
LEMMA OpsKnown ==
  ASSUME TypeOK, OpInv, NEW k
  PROVE  /\ \A w \in AppliedOps(k) : w \in Ops /\ (w \in acked \/ \E c \in Clients : cur[c] = w)
         /\ \A w \in LoggedOps(k) : w \in Ops /\ (w \in acked \/ \E c \in Clients : cur[c] = w)
<1>1. acked \subseteq Ops /\ \A c \in Clients : pc[c] # "idle" => cur[c] \in Ops
  BY DEF TypeOK, OpInv
<1>2. QED
  BY <1>1 DEF AppliedOps, LoggedOps

\* Only an item that is applied, or a crash, changes what reads return.
LEMMA ViewSame ==
  ASSUME SafeUse, TypeOK, OpInv, GuardInv, FlushInv, [Next]_vars, TypeOK', FlushInv',
         ~\E c \in Clients, k \in Keys : ApplyItem(c, k), ~CrashRestart
  PROVE  \A k \in Keys : View(k)' = View(k)
<1> USE TasksAssumption, SafeSteps
<1>a. OneImmView
  BY ViewOne
<1>b. OneImmView'
  BY ViewOne, PTL
<1>0. /\ pc \in [Tasks -> Label] /\ imm \in Seq(Memtable) /\ active \in Memtable
      /\ l0 \subseteq SSTable /\ disk \subseteq SSTable
  BY DEF TypeOK
<1>1. CASE UNCHANGED <<active, imm, l0>>
  BY <1>1 DEF View, ImmGet, ImmHits, SstGet, SstNewest, SstHits
<1>2. ASSUME NEW t \in Tasks, Swap(t) PROVE \A k \in Keys : View(k)' = View(k)
  <2>1. \A u \in Tasks : ~InFlush(u)
    BY <1>2, OneFlush
  <2>2. Len(imm) # 1 /\ Len(imm) \in Nat /\ Len(imm) <= 1
    BY <1>0, <2>1 DEF FlushInv
  <2>3. Len(imm) = 0
    <3>1. \A n \in Nat : n <= 1 /\ n # 1 => n = 0
      OBVIOUS
    <3>2. QED
      BY <2>2, <3>1
  <2>4. CASE active = EmptyMemtable
    BY <1>1, <1>2, <2>4 DEF Swap
  <2>5. CASE active # EmptyMemtable
    <3>1. active' = EmptyMemtable /\ imm' = Append(imm, active) /\ l0' = l0
      BY <1>2, <2>5 DEF Swap
    <3>2. imm'[1] = active /\ Len(imm') = 1
      BY <1>0, <2>3, <3>1
    <3>3. \A k \in Keys : active'[k] = None
      BY <3>1 DEF EmptyMemtable
    <3>4. \A k \in Keys : SstGet(l0, k)' = SstGet(l0, k)
      BY <3>1 DEF SstGet, SstNewest, SstHits
    <3>5. TAKE k \in Keys
    <3>6. View(k)' = IF active[k] # None THEN {active[k]} ELSE SstGet(l0, k)
      BY <1>b, <3>2, <3>3, <3>4 DEF OneImmView
    <3>7. View(k) = IF active[k] # None THEN {active[k]} ELSE SstGet(l0, k)
      BY <1>a, <2>3 DEF OneImmView
    <3>8. QED
      BY <3>6, <3>7
  <2>6. QED
    BY <2>4, <2>5
<1>3. ASSUME NEW t \in Tasks, Publish(t) PROVE \A k \in Keys : View(k)' = View(k)
  <2>1. l0' = l0 \cup {sst[t]} /\ UNCHANGED <<active, imm>>
    BY <1>3 DEF Publish
  <2>2. sst[t].data = imm[1] /\ Len(imm) = 1
    BY <1>3 DEF Publish, FlushInv, InFlush
  <2>3. \A k \in Keys : imm[1][k] = None => SstGet(l0, k)' = SstGet(l0, k)
    <3>1. SUFFICES ASSUME NEW k \in Keys, imm[1][k] = None
                   PROVE  SstGet(l0', k) = SstGet(l0, k)
      BY DEF SstGet, SstNewest, SstHits
    <3>2. QED
      BY <2>1, <2>2, <3>1, SstGetIgnores
  <2>4. QED
    BY <1>a, <1>b, <2>1, <2>2, <2>3 DEF OneImmView
<1>4. ASSUME NEW t \in Tasks, Remove(t) PROVE \A k \in Keys : View(k)' = View(k)
  <2>1. slot[t] = 1 /\ Len(imm) = 1 /\ sst[t].data = imm[1] /\ sst[t] \in l0
        /\ \A f \in l0 : f = sst[t] \/ f.ts < sst[t].ts
    BY <1>4 DEF FlushInv, InFlush, Remove
  <2>2. Len(imm') = 0 /\ UNCHANGED <<active, l0>>
    BY <1>0, <1>4, <2>1 DEF Remove, RemoveAtSlot
  <2>3. \A k \in Keys : SstGet(l0, k)' = SstGet(l0, k)
    BY <2>2 DEF SstGet, SstNewest, SstHits
  <2>4. \A k \in Keys : imm[1][k] # None => SstGet(l0, k) = {imm[1][k]}
    <3>1. SUFFICES ASSUME NEW k \in Keys, imm[1][k] # None
                   PROVE  SstGet(l0, k) = {sst[t].data[k]}
      BY <2>1
    <3>2. QED
      BY <1>0, <2>1, <3>1, SstGetNewest
  <2>5. TAKE k \in Keys
  <2>6. View(k)' = IF active[k] # None THEN {active[k]} ELSE SstGet(l0, k)
    BY <1>b, <2>2, <2>3 DEF OneImmView
  <2>7. View(k) = IF active[k] # None THEN {active[k]} ELSE SstGet(l0, k)
    BY <1>a, <2>1, <2>4 DEF OneImmView
  <2>8. QED
    BY <2>6, <2>7
<1>5. \/ UNCHANGED <<active, imm, l0>>
      \/ \E t \in Tasks : Swap(t) \/ Publish(t) \/ Remove(t)
  BY DEF Next, vars, ClientStep, FlushStep, GetStep, Begin, LogItem,
         CheckFull, Return, QueueExclusive, AcquireExclusive,
         Clone, WriteFile, Truncate, SkipTruncate, GetActive, GetImm, GetSst
<1>6. QED
  BY <1>1, <1>2, <1>3, <1>4, <1>5

\* Only an item that is applied adds a write that reads must see.
LEMMA AppliedSame ==
  ASSUME TypeOK, OpInv, [Next]_vars,
         ~\E c \in Clients, k \in Keys : ApplyItem(c, k), NEW k \in Keys
  PROVE  \A w \in AppliedOps(k)' : k \in KeysOf[w] => w \in AppliedOps(k)
<1> USE TasksAssumption
<1>0. /\ pc \in [Tasks -> Label] /\ cur \in [Clients -> Ops \cup {None}]
      /\ todo \in [Clients -> SUBSET Keys]
  BY DEF TypeOK
<1>1. CASE UNCHANGED <<acked, cur, todo>> /\ \A c \in Clients :
             pc'[c] = pc[c] \/ pc[c] \notin {"idle", "log"}
  BY <1>1 DEF AppliedOps
<1>2. ASSUME NEW c \in Clients, NEW o \in Ops, Begin(c, o)
      PROVE  \A w \in AppliedOps(k)' : k \in KeysOf[w] => w \in AppliedOps(k)
  BY <1>0, <1>2 DEF Begin, AppliedOps
<1>3. ASSUME NEW c \in Clients, NEW j \in Keys, LogItem(c, j)
      PROVE  \A w \in AppliedOps(k)' : k \in KeysOf[w] => w \in AppliedOps(k)
  <2>1. UNCHANGED <<acked, cur>>
    BY <1>3 DEF LogItem
  <2>2. /\ \A d \in Clients : d # c => todo'[d] = todo[d] /\ pc'[d] = pc[d]
        /\ \/ todo'[c] = KeysOf[cur[c]]
           \/ pc'[c] = "log"
    BY <1>0, <1>3 DEF LogItem
  <2>3. QED
    BY <2>1, <2>2 DEF AppliedOps
<1>4. ASSUME NEW c \in Clients, Return(c)
      PROVE  \A w \in AppliedOps(k)' : k \in KeysOf[w] => w \in AppliedOps(k)
  <2>1. acked' = acked \cup {cur[c]} /\ todo' = todo
        /\ pc[c] \in {"check", "return"} /\ pc'[c] = "idle"
        /\ \A d \in Clients : d # c => cur'[d] = cur[d] /\ pc'[d] = pc[d]
    BY <1>0, <1>4 DEF Return
  <2>2. todo[c] = {}
    BY <2>1 DEF OpInv
  <2>3. QED
    BY <2>1, <2>2 DEF AppliedOps
<1>5. CASE CrashRestart
  BY <1>5 DEF CrashRestart, AppliedOps
<1>6. ASSUME NEW c \in Clients, LogFails(c) \/ FlushFails(c)
      PROVE  \A w \in AppliedOps(k)' : k \in KeysOf[w] => w \in AppliedOps(k)
  <2>1. /\ acked' = acked /\ pc'[c] = "idle"
        /\ \A d \in Clients : d # c => cur'[d] = cur[d] /\ pc'[d] = pc[d]
        /\ \A d \in Clients : d # c => todo'[d] = todo[d]
    BY <1>0, <1>6 DEF LogFails, FlushFails
  <2>2. QED
    BY <2>1 DEF AppliedOps
<1>7. \/ UNCHANGED <<acked, cur, todo>> /\ \A c \in Clients :
             pc'[c] = pc[c] \/ pc[c] \notin {"idle", "log"}
      \/ \E c \in Clients : Return(c) \/ (\E o \in Ops : Begin(c, o))
                            \/ (\E j \in Keys : LogItem(c, j))
                            \/ LogFails(c) \/ FlushFails(c)
      \/ CrashRestart
  <2>1. ASSUME NEW t \in Tasks, FlushStep(t)
        PROVE  UNCHANGED <<acked, cur, todo>> /\ \A c \in Clients :
                 pc'[c] = pc[c] \/ pc[c] \notin {"idle", "log"}
    BY <1>0, <2>1 DEF FlushStep, Swap, Clone, WriteFile, Publish, Remove, Truncate
  <2>2. ASSUME QueueExclusive \/ AcquireExclusive \/ SkipTruncate
                 \/ (\E c \in Clients : CheckFull(c))
                 \/ (\E u \in Closers : BeginShutdown(u))
                 \/ \E u \in Tasks \ Clients : FlushFails(u)
        PROVE  UNCHANGED <<acked, cur, todo>> /\ \A c \in Clients :
                 pc'[c] = pc[c] \/ pc[c] \notin {"idle", "log"}
    BY <1>0, <2>2 DEF QueueExclusive, AcquireExclusive, SkipTruncate, CheckFull,
                       BeginShutdown, FlushFails
  <2>3. ASSUME NEW r \in Readers, GetStep(r) \/ \E j \in Keys : GetActive(r, j)
        PROVE  UNCHANGED <<acked, cur, todo, pc>>
    BY <2>3 DEF GetStep, GetActive, GetImm, GetSst
  <2>4. CASE UNCHANGED vars
    BY <2>4 DEF vars
  <2>5. QED
    BY <2>1, <2>2, <2>3, <2>4 DEF Next, ClientStep
<1>8. QED
  BY <1>1, <1>2, <1>3, <1>4, <1>5, <1>6, <1>7

\* Reads keep finding nothing older than what has been applied.
LEMMA ReadPreserved ==
  ASSUME SafeUse, WritePathIInv, [Next]_vars, TypeOK', OpInv', FlushInv'
  PROVE  ReadInv'
<1> USE DEF WritePathIInv
<1>1. \A k \in Keys : \A w \in AppliedOps(k) : before'[w] = before[w]
  BY HistoryFixed, OpsKnown
<1>2. CASE \E c \in Clients, k \in Keys : ApplyItem(c, k)
  <2>1. PICK c \in Clients, k \in Keys : ApplyItem(c, k)
    BY <1>2
  <2>2. /\ UNCHANGED <<imm, l0, acked, cur, before, ended>> /\ pc[c] = "apply"
        /\ active' = [active EXCEPT ![k] = cur[c]]
        /\ todo' = [todo EXCEPT ![c] = @ \ {k}] /\ k \in todo[c]
    BY <2>1 DEF ApplyItem
  <2>3. cur[c] \in Ops /\ cur[c] \notin ended /\ cur[c] # None
    BY <2>2 DEF TypeOK, OpInv
  <2>4. /\ \A d \in Clients : d # c => todo'[d] = todo[d] /\ pc'[d] = pc[d]
        /\ pc'[c] \in {"apply", "check"} /\ todo'[c] = todo[c] \ {k}
    BY <2>1, <2>2, TasksAssumption DEF ApplyItem, TypeOK
  <2>5. ASSUME NEW j \in Keys, j # k
        PROVE  (\A o \in View(j) : Fresh(j, o, AppliedOps(j)))'
    <3>1. View(j)' = View(j)
      BY <2>2, <2>5 DEF View, ImmGet, ImmHits, SstGet, SstNewest, SstHits, TypeOK
    <3>2. AppliedOps(j)' \subseteq AppliedOps(j)
      BY <2>2, <2>4, <2>5 DEF AppliedOps
    <3>3. QED
      BY <1>1, <3>1, <3>2 DEF ReadInv, Fresh
  <2>6. (\A o \in View(k) : Fresh(k, o, AppliedOps(k)))'
    <3>1. View(k)' = {cur[c]}
      BY <2>2, <2>3 DEF View, TypeOK, Memtable
    <3>2. \A w \in AppliedOps(k)' : w \in Ops /\ before'[w] \subseteq ended
      <4>1. \A w \in AppliedOps(k)' : w \in acked \/ \E d \in Clients : pc'[d] # "idle" /\ cur[d] = w
        BY <2>2 DEF AppliedOps
      <4>2. \A d \in Clients : pc'[d] # "idle" => cur[d] \in Ops
        BY <2>2, <2>3, <2>4 DEF OpInv, TypeOK
      <4>3. QED
        BY <2>2, <4>1, <4>2 DEF OpInv, TypeOK
    <3>3. QED
      BY <2>3, <3>1, <3>2 DEF Fresh
  <2>7. QED
    BY <2>5, <2>6 DEF ReadInv
<1>3. CASE CrashRestart
  <2>1. /\ active' = wal /\ imm' = <<>> /\ l0' = disk /\ acked' = acked
        /\ before' = before /\ \A c \in Clients : pc'[c] = "idle"
    BY <1>3 DEF CrashRestart
  <2>2. \A k \in Keys : View(k)' = Recovered(k)
    <3>1. OneImmView'
      BY ViewOne, PTL
    <3>2. Len(imm') = 0
      BY <2>1
    <3>3. \A k \in Keys : SstGet(l0, k)' = SstGet(disk, k)
      BY <2>1 DEF SstGet, SstNewest, SstHits
    <3>4. QED
      BY <2>1, <3>1, <3>2, <3>3 DEF OneImmView, Recovered
  <2>3. \A k \in Keys : AppliedOps(k)' \subseteq acked /\ acked \subseteq LoggedOps(k)
    BY <2>1 DEF AppliedOps, LoggedOps
  <2>4. QED
    BY <2>1, <2>2, <2>3 DEF ReadInv, DurableInv, Fresh
<1>4. CASE ~CrashRestart /\ ~\E c \in Clients, k \in Keys : ApplyItem(c, k)
  <2>1. \A k \in Keys : View(k)' = View(k)
    BY <1>4, ViewSame
  <2>2. \A k \in Keys : \A w \in AppliedOps(k)' : k \in KeysOf[w] => w \in AppliedOps(k)
    BY <1>4, AppliedSame
  <2>3. QED
    BY <1>1, <2>1, <2>2 DEF ReadInv, Fresh
<1>5. QED
  BY <1>2, <1>3, <1>4

\* Only a record that is logged adds a write that recovery must return.
LEMMA LoggedSame ==
  ASSUME SafeUse, TypeOK, OpInv, [Next]_vars,
         ~\E c \in Clients, k \in Keys : LogItem(c, k), NEW k \in Keys
  PROVE  \A w \in LoggedOps(k)' : k \in KeysOf[w] => w \in LoggedOps(k)
<1> USE TasksAssumption, SafeSteps
<1>0. /\ pc \in [Tasks -> Label] /\ cur \in [Clients -> Ops \cup {None}]
      /\ todo \in [Clients -> SUBSET Keys]
  BY DEF TypeOK
<1>1. CASE UNCHANGED <<acked, cur>> /\ \A c \in Clients :
             (pc'[c] = pc[c] /\ todo'[c] = todo[c]) \/ pc[c] \notin {"idle", "log"}
  BY <1>1 DEF LoggedOps
<1>2. ASSUME NEW c \in Clients, NEW o \in Ops, Begin(c, o)
      PROVE  \A w \in LoggedOps(k)' : k \in KeysOf[w] => w \in LoggedOps(k)
  <2>1. /\ acked' = acked /\ cur'[c] = o /\ pc'[c] = "log" /\ todo'[c] = KeysOf[o]
        /\ \A d \in Clients : d # c =>
             cur'[d] = cur[d] /\ pc'[d] = pc[d] /\ todo'[d] = todo[d]
    BY <1>0, <1>2 DEF Begin
  <2>2. QED
    BY <2>1 DEF LoggedOps
<1>3. ASSUME NEW c \in Clients, Return(c)
      PROVE  \A w \in LoggedOps(k)' : k \in KeysOf[w] => w \in LoggedOps(k)
  <2>1. acked' = acked \cup {cur[c]} /\ todo' = todo
        /\ pc[c] \in {"check", "return"} /\ pc'[c] = "idle"
        /\ \A d \in Clients : d # c => cur'[d] = cur[d] /\ pc'[d] = pc[d]
    BY <1>0, <1>3 DEF Return
  <2>2. QED
    BY <2>1 DEF LoggedOps
<1>4. CASE CrashRestart
  BY <1>4 DEF CrashRestart, LoggedOps
<1>5. \/ UNCHANGED <<acked, cur>> /\ \A c \in Clients :
             (pc'[c] = pc[c] /\ todo'[c] = todo[c]) \/ pc[c] \notin {"idle", "log"}
      \/ \E c \in Clients : Return(c) \/ (\E o \in Ops : Begin(c, o))
      \/ CrashRestart
  <2>1. ASSUME NEW t \in Tasks, FlushStep(t)
        PROVE  UNCHANGED <<acked, cur, todo>> /\ \A c \in Clients :
                 pc'[c] = pc[c] \/ pc[c] \notin {"idle", "log"}
    BY <1>0, <2>1 DEF FlushStep, Swap, Clone, WriteFile, Publish, Remove, Truncate
  <2>2. ASSUME QueueExclusive \/ AcquireExclusive \/ SkipTruncate
                 \/ \E c \in Clients : CheckFull(c)
        PROVE  UNCHANGED <<acked, cur, todo>> /\ \A c \in Clients :
                 pc'[c] = pc[c] \/ pc[c] \notin {"idle", "log"}
    BY <1>0, <2>2 DEF QueueExclusive, AcquireExclusive, SkipTruncate, CheckFull
  <2>3. ASSUME NEW r \in Readers, GetStep(r) \/ \E j \in Keys : GetActive(r, j)
        PROVE  UNCHANGED <<acked, cur, todo, pc>>
    BY <2>3 DEF GetStep, GetActive, GetImm, GetSst
  <2>4. CASE UNCHANGED vars
    BY <2>4 DEF vars
  <2>5. ASSUME NEW c \in Clients, NEW j \in Keys, ApplyItem(c, j)
        PROVE  UNCHANGED <<acked, cur>> /\ \A d \in Clients :
                 (pc'[d] = pc[d] /\ todo'[d] = todo[d]) \/ pc[d] \notin {"idle", "log"}
    BY <1>0, <2>5 DEF ApplyItem
  <2>6. QED
    BY <2>1, <2>2, <2>3, <2>4, <2>5 DEF Next, ClientStep
<1>6. QED
  BY <1>1, <1>2, <1>3, <1>4, <1>5

\* Only a logged record and a truncation change what recovery returns: the
\* file a flush writes holds nothing that the WAL does not hold too.
LEMMA RecoveredSame ==
  ASSUME SafeUse, TypeOK, FlushInv, WalInv, [Next]_vars,
         ~\E c \in Clients, k \in Keys : LogItem(c, k),
         ~\E t \in Tasks : Truncate(t)
  PROVE  \A k \in Keys : Recovered(k)' = Recovered(k)
<1> USE TasksAssumption, SafeSteps
<1>1. CASE UNCHANGED <<wal, disk>>
  BY <1>1 DEF Recovered, SstGet, SstNewest, SstHits
<1>2. ASSUME NEW t \in Tasks, WriteFile(t), NEW k \in Keys
      PROVE  Recovered(k)' = Recovered(k)
  <2>1. disk' = disk \cup {sst[t]} /\ wal' = wal
    BY <1>2 DEF WriteFile
  <2>2. sst[t].data = imm[1] /\ Len(imm) = 1
    BY <1>2 DEF WriteFile, FlushInv, InFlush
  <2>3. CASE wal[k] # None
    BY <2>1, <2>3 DEF Recovered
  <2>4. CASE wal[k] = None
    <3>1. sst[t].data[k] = None
      BY <2>2, <2>4 DEF WalInv
    <3>2. SstGet(disk \cup {sst[t]}, k) = SstGet(disk, k)
      BY <3>1, SstGetIgnores
    <3>3. SstGet(disk, k)' = SstGet(disk, k)
      BY <2>1, <3>2 DEF SstGet, SstNewest, SstHits
    <3>4. QED
      BY <2>1, <2>4, <3>3 DEF Recovered
  <2>5. QED
    BY <2>3, <2>4
<1>3. UNCHANGED <<wal, disk>> \/ \E t \in Tasks : WriteFile(t)
  BY DEF Next, vars, ClientStep, FlushStep, GetStep, Begin, ApplyItem, CheckFull,
         Return, QueueExclusive, AcquireExclusive, Swap, Clone, Publish, Remove,
         SkipTruncate, GetActive, GetImm, GetSst, CrashRestart
<1>4. QED
  BY <1>1, <1>2, <1>3

\* flush() truncates the WAL when level 0 alone answers reads, all of it is on
\* disk, and no write is between its WAL record and its memtable update.
LEMMA TruncateIsSafe ==
  ASSUME SafeUse, TypeOK, GuardInv, OpInv, FlushInv, WalInv,
         NEW t \in Tasks, Truncate(t)
  PROVE  /\ \A c \in Clients : pc[c] \notin {"log", "apply"}
         /\ \A k \in Keys : View(k) = SstGet(disk, k)
         /\ \A k \in Keys : LoggedOps(k) \subseteq AppliedOps(k)
<1> USE TasksAssumption, SafeSteps
<1>1. t = Admin /\ pc[Admin] = "truncate"
  BY DEF Truncate
<1>2. active = EmptyMemtable /\ Len(imm) = 0
  BY <1>1 DEF WalInv
<1>3. \A c \in Clients : pc[c] \notin {"log", "apply"}
  BY <1>1 DEF GuardInv
<1>4. disk = l0
  BY <1>2 DEF FlushInv, InFlush
<1>5. \A k \in Keys : View(k) = SstGet(disk, k)
  <2>1. OneImmView
    BY ViewOne
  <2>2. QED
    BY <1>2, <1>4, <2>1 DEF OneImmView, EmptyMemtable
<1>6. \A k \in Keys : LoggedOps(k) \subseteq AppliedOps(k)
  BY <1>3 DEF LoggedOps, AppliedOps, OpInv
<1>7. QED
  BY <1>3, <1>5, <1>6

\* Recovery keeps finding nothing older than what has been logged.
LEMMA DurablePreserved ==
  ASSUME SafeUse, WritePathIInv, [Next]_vars, OpInv'
  PROVE  DurableInv'
<1> USE DEF WritePathIInv
<1>1. \A k \in Keys : \A w \in LoggedOps(k) : before'[w] = before[w]
  BY HistoryFixed, OpsKnown
<1>2. ASSUME NEW c \in Clients, NEW k \in Keys, LogItem(c, k)
      PROVE  DurableInv'
  <2>1. /\ UNCHANGED <<disk, acked, cur, before, ended>> /\ pc[c] = "log"
        /\ wal' = [wal EXCEPT ![k] = cur[c]] /\ k \in todo[c]
    BY <1>2 DEF LogItem
  <2>2. cur[c] \in Ops /\ cur[c] \notin ended /\ cur[c] # None
    BY <2>1 DEF TypeOK, OpInv
  <2>3. /\ \A d \in Clients : d # c => todo'[d] = todo[d] /\ pc'[d] = pc[d]
        /\ \/ pc'[c] = "apply" /\ todo[c] = {k}
           \/ pc'[c] = "log" /\ todo'[c] = todo[c] \ {k}
    BY <1>2, TasksAssumption DEF LogItem, TypeOK
  <2>4. ASSUME NEW j \in Keys, j # k
        PROVE  (\A o \in Recovered(j) : Fresh(j, o, LoggedOps(j)))'
    <3>1. Recovered(j)' = Recovered(j)
      BY <2>1, <2>4 DEF Recovered, SstGet, SstNewest, SstHits, TypeOK, Memtable
    <3>2. LoggedOps(j)' \subseteq LoggedOps(j)
      BY <2>1, <2>3, <2>4 DEF LoggedOps
    <3>3. QED
      BY <1>1, <3>1, <3>2 DEF DurableInv, Fresh
  <2>5. (\A o \in Recovered(k) : Fresh(k, o, LoggedOps(k)))'
    <3>1. Recovered(k)' = {cur[c]}
      BY <2>1, <2>2 DEF Recovered, TypeOK, Memtable
    <3>2. \A w \in LoggedOps(k)' : w \in Ops /\ before'[w] \subseteq ended
      <4>1. \A w \in LoggedOps(k)' : w \in acked \/ \E d \in Clients : pc'[d] # "idle" /\ cur[d] = w
        BY <2>1 DEF LoggedOps
      <4>2. \A d \in Clients : pc'[d] # "idle" => cur[d] \in Ops
        BY <2>1, <2>2, <2>3 DEF OpInv, TypeOK
      <4>3. QED
        BY <2>1, <4>1, <4>2 DEF OpInv, TypeOK
    <3>3. QED
      BY <2>2, <3>1, <3>2 DEF Fresh
  <2>6. QED
    BY <2>4, <2>5 DEF DurableInv
<1>3. ASSUME NEW t \in Tasks, Truncate(t) PROVE DurableInv'
  <2>1. /\ \A k \in Keys : View(k) = SstGet(disk, k)
        /\ \A k \in Keys : LoggedOps(k) \subseteq AppliedOps(k)
    BY <1>3, TruncateIsSafe
  <2>2. wal' = EmptyMemtable /\ UNCHANGED <<disk, before>>
    BY <1>3 DEF Truncate
  <2>3. \A k \in Keys : Recovered(k)' = SstGet(disk, k)
    BY <2>2 DEF Recovered, EmptyMemtable, SstGet, SstNewest, SstHits
  <2>4. ~\E c \in Clients, k \in Keys : LogItem(c, k)
    BY <1>3, TruncateIsSafe DEF LogItem
  <2>5. \A k \in Keys : \A w \in LoggedOps(k)' : k \in KeysOf[w] => w \in AppliedOps(k)
    BY <2>1, <2>4, LoggedSame
  <2>6. QED
    BY <2>1, <2>2, <2>3, <2>5 DEF DurableInv, ReadInv, Fresh
<1>4. CASE /\ ~\E c \in Clients, k \in Keys : LogItem(c, k)
           /\ ~\E t \in Tasks : Truncate(t)
  <2>1. \A k \in Keys : Recovered(k)' = Recovered(k)
    BY <1>4, RecoveredSame
  <2>2. \A k \in Keys : \A w \in LoggedOps(k)' : k \in KeysOf[w] => w \in LoggedOps(k)
    BY <1>4, LoggedSame
  <2>3. QED
    BY <1>1, <2>1, <2>2 DEF DurableInv, Fresh
<1>5. QED
  BY <1>2, <1>3, <1>4

\* What GetInv says of one reader: r is its get, m the immutable memtables,
\* files level 0.
ReaderInv(g, m, files) ==
  /\ g.at \in {"imm", "sst"} /\ Len(m) = 1 /\ m[1][g.key] # None
       => Fresh(g.key, m[1][g.key], g.seen)
  /\ \/ g.at = "sst"
     \/ g.at = "imm" /\ (Len(m) = 1 => m[1][g.key] = None)
     => \A o \in SstGet(files, g.key) : Fresh(g.key, o, g.seen)
  /\ g.at = "done" => Fresh(g.key, g.res, g.seen)

\* Each of the flush steps that change what a get has still to look at keeps
\* the get from missing what it must see.
LEMMA GetSurvivesFlush ==
  ASSUME SafeUse, WritePathIInv, [Next]_vars, NEW r \in Readers, ~CrashRestart
  PROVE  ReaderInv(rd[r], imm', l0')
<1> USE TasksAssumption, SafeSteps DEF WritePathIInv
<1> DEFINE g == rd[r]  k == rd[r].key
<1>0. /\ pc \in [Tasks -> Label] /\ imm \in Seq(Memtable) /\ active \in Memtable
      /\ l0 \subseteq SSTable /\ disk \subseteq SSTable /\ k \in Keys
      /\ sst \in [Tasks -> SSTable]
  BY DEF TypeOK, Get
<1>1. ReaderInv(g, imm, l0) /\ g.seen \subseteq acked
  BY DEF GetInv, ReaderInv
<1>2. ASSUME NEW t \in Tasks, Swap(t), active # EmptyMemtable
      PROVE  ReaderInv(g, imm', l0')
  <2>1. Len(imm) = 0
    <3>1. \A u \in Tasks : ~InFlush(u)
      BY <1>2, OneFlush
    <3>2. Len(imm) # 1 /\ Len(imm) \in Nat /\ Len(imm) <= 1
      BY <1>0, <3>1 DEF FlushInv
    <3>3. \A n \in Nat : n <= 1 /\ n # 1 => n = 0
      OBVIOUS
    <3>4. QED
      BY <3>2, <3>3
  <2>2. imm' = Append(imm, active) /\ l0' = l0
    BY <1>2 DEF Swap
  <2>3. imm'[1] = active /\ Len(imm') = 1
    BY <1>0, <2>1, <2>2
  <2>4. active[k] # None => Fresh(k, active[k], g.seen)
    <3>1. active[k] # None => View(k) = {active[k]}
      BY DEF View
    <3>2. acked \subseteq AppliedOps(k)
      BY DEF AppliedOps
    <3>3. QED
      BY <1>0, <1>1, <3>1, <3>2 DEF ReadInv, Fresh
  <2>5. QED
    BY <1>1, <2>1, <2>2, <2>3, <2>4 DEF ReaderInv
<1>3. ASSUME NEW t \in Tasks, Publish(t)
      PROVE  ReaderInv(g, imm', l0')
  <2>1. l0' = l0 \cup {sst[t]} /\ imm' = imm
    BY <1>3 DEF Publish
  <2>2. /\ sst[t].data = imm[1] /\ Len(imm) = 1 /\ sst[t] \in SSTable
        /\ \A f \in l0 : f = sst[t] \/ f.ts < sst[t].ts
    BY <1>0, <1>3 DEF Publish, FlushInv, InFlush
  <2>3. CASE imm[1][k] = None
    <3>1. SstGet(l0', k) = SstGet(l0, k)
      BY <2>1, <2>2, <2>3, SstGetIgnores
    <3>2. QED
      BY <1>1, <2>1, <3>1 DEF ReaderInv
  <2>4. CASE imm[1][k] # None
    <3>1. SstGet(l0 \cup {sst[t]}, k) = {sst[t].data[k]}
      <4>1. /\ l0 \cup {sst[t]} \in SUBSET SSTable /\ sst[t] \in l0 \cup {sst[t]}
            /\ sst[t].data[k] # None
            /\ \A f \in l0 \cup {sst[t]} : f = sst[t] \/ f.ts < sst[t].ts
        BY <1>0, <2>2, <2>4
      <4>2. QED
        BY <1>0, <4>1, SstGetNewest
    <3>2. QED
      BY <1>1, <2>1, <2>2, <2>4, <3>1 DEF ReaderInv
  <2>5. QED
    BY <2>3, <2>4
<1>4. ASSUME NEW t \in Tasks, Remove(t)
      PROVE  ReaderInv(g, imm', l0')
  <2>1. slot[t] = 1 /\ Len(imm) = 1 /\ sst[t].data = imm[1] /\ sst[t] \in l0
        /\ \A f \in l0 : f = sst[t] \/ f.ts < sst[t].ts
    BY <1>4 DEF FlushInv, InFlush, Remove
  <2>2. Len(imm') = 0 /\ l0' = l0
    BY <1>0, <1>4, <2>1 DEF Remove, RemoveAtSlot
  <2>3. imm[1][k] # None => SstGet(l0, k) = {imm[1][k]}
    BY <1>0, <2>1, SstGetNewest
  <2>4. QED
    BY <1>1, <2>1, <2>2, <2>3 DEF ReaderInv
<1>5. CASE UNCHANGED <<imm, l0>>
  BY <1>1, <1>5
<1>6. \/ UNCHANGED <<imm, l0>>
      \/ \E t \in Tasks : (Swap(t) /\ active # EmptyMemtable) \/ Publish(t) \/ Remove(t)
  BY DEF Next, vars, ClientStep, FlushStep, GetStep, Begin, LogItem, ApplyItem,
         CheckFull, Return, QueueExclusive, AcquireExclusive, Swap,
         Clone, WriteFile, Truncate, SkipTruncate, GetActive, GetImm, GetSst
<1>7. QED
  BY <1>2, <1>3, <1>4, <1>5, <1>6

\* A step of the get itself leaves the lookups that follow, or the answer,
\* fresh for what the get must see.
LEMMA GetMoves ==
  ASSUME SafeUse, WritePathIInv, NEW r \in Readers,
         GetStep(r) \/ \E k \in Keys : GetActive(r, k)
  PROVE  rd'[r].seen \subseteq acked /\ ReaderInv(rd'[r], imm, l0)
<1> USE DEF WritePathIInv
<1>0. rd \in [Readers -> Get] /\ rd[r] \in Get /\ rd[r].key \in Keys
  BY DEF TypeOK, Get
<1>1. ReaderInv(rd[r], imm, l0) /\ rd[r].seen \subseteq acked
  BY DEF GetInv, ReaderInv
<1>2. ASSUME NEW k \in Keys, GetActive(r, k)
      PROVE  rd'[r].seen \subseteq acked /\ ReaderInv(rd'[r], imm, l0)
  <2>1. \A o \in View(k) : Fresh(k, o, acked)
    BY DEF ReadInv, Fresh, AppliedOps
  <2>2. OneImmView
    BY ViewOne
  <2>3. CASE active[k] # None
    <3>1. rd'[r] = [at |-> "done", key |-> k, res |-> active[k], seen |-> acked]
      BY <1>0, <1>2, <2>3 DEF GetActive
    <3>2. QED
      BY <2>1, <2>2, <2>3, <3>1 DEF ReaderInv, OneImmView
  <2>4. CASE active[k] = None
    <3>1. rd'[r] = [at |-> "imm", key |-> k, res |-> None, seen |-> acked]
      BY <1>0, <1>2, <2>4 DEF GetActive
    <3>2. QED
      BY <2>1, <2>2, <2>4, <3>1 DEF ReaderInv, OneImmView
  <2>5. QED
    BY <2>3, <2>4
<1>3. CASE GetImm(r)
  <2>1. ImmGet(rd[r].key) = IF Len(imm) = 1 THEN imm[1][rd[r].key] ELSE None
    BY <1>0, ImmGetOne
  <2>2. CASE ImmGet(rd[r].key) # None
    <3>1. rd'[r] = [rd[r] EXCEPT !.at = "done", !.res = ImmGet(rd[r].key)]
      BY <1>0, <1>3, <2>2 DEF GetImm, Answer
    <3>2. /\ rd'[r].key = rd[r].key /\ rd'[r].seen = rd[r].seen
          /\ rd'[r].at = "done" /\ rd'[r].res = ImmGet(rd[r].key)
      BY <1>0, <3>1 DEF Get
    <3>3. QED
      BY <1>1, <1>3, <2>1, <2>2, <3>2 DEF ReaderInv, GetImm
  <2>3. CASE ImmGet(rd[r].key) = None
    <3>1. rd'[r] = [rd[r] EXCEPT !.at = "sst"]
      BY <1>0, <1>3, <2>3 DEF GetImm
    <3>2. /\ rd'[r].key = rd[r].key /\ rd'[r].seen = rd[r].seen
          /\ rd'[r].at = "sst"
      BY <1>0, <3>1 DEF Get
    <3>3. QED
      BY <1>1, <1>3, <2>1, <2>3, <3>2 DEF ReaderInv, GetImm
  <2>4. QED
    BY <2>2, <2>3
<1>4. CASE GetSst(r)
  <2>1. PICK o \in SstGet(l0, rd[r].key) : Answer(r, o)
    BY <1>4 DEF GetSst
  <2>2. rd'[r] = [rd[r] EXCEPT !.at = "done", !.res = o]
    BY <1>0, <2>1 DEF Answer
  <2>3. /\ rd'[r].key = rd[r].key /\ rd'[r].seen = rd[r].seen
        /\ rd'[r].at = "done" /\ rd'[r].res = o
    BY <1>0, <2>2 DEF Get
  <2>4. QED
    BY <1>1, <1>4, <2>1, <2>3 DEF ReaderInv, GetSst
<1>5. QED
  BY <1>2, <1>3, <1>4 DEF GetStep

\* A get that is under way, or answered, stays fresh.
LEMMA GetPreserved ==
  ASSUME SafeUse, WritePathIInv, [Next]_vars, TypeOK'
  PROVE  GetInv'
<1> USE DEF WritePathIInv
<1>0. rd \in [Readers -> Get] /\ acked \subseteq acked' /\ acked \subseteq Ops
  <2>1. acked \subseteq acked'
    BY DEF Next, vars, ClientStep, FlushStep, GetStep, Begin, LogItem, LogFails,
         ApplyItem, CheckFull, Return, QueueExclusive, AcquireExclusive,
         BeginShutdown, Swap, Clone, WriteFile, FlushFails, Publish, Remove,
         Truncate, SkipTruncate, GetActive, GetImm, GetSst, CrashRestart
  <2>2. QED
    BY <2>1 DEF TypeOK
<1>1. \A w \in acked : before'[w] = before[w]
  BY <1>0, HistoryFixed
<1>2. ASSUME NEW W \in SUBSET acked, NEW k, NEW o, Fresh(k, o, W)
      PROVE  \A w \in W : k \in KeysOf[w] => o # None /\ o \notin before'[w]
  BY <1>1, <1>2 DEF Fresh
<1>3. ASSUME ~CrashRestart, NEW r \in Readers
      PROVE  rd'[r].seen \subseteq acked /\ ReaderInv(rd'[r], imm', l0')
  <2>1. CASE rd'[r] = rd[r]
    BY <1>3, <2>1, GetSurvivesFlush DEF GetInv
  <2>2. CASE GetStep(r) \/ \E k \in Keys : GetActive(r, k)
    <3>1. imm' = imm /\ l0' = l0
      BY <2>2 DEF GetStep, GetActive, GetImm, GetSst
    <3>2. QED
      BY <2>2, <3>1, GetMoves
  <2>3. \/ rd'[r] = rd[r]
        \/ GetStep(r) \/ \E k \in Keys : GetActive(r, k)
    <3>1. ASSUME NEW q \in Readers, GetStep(q) \/ \E k \in Keys : GetActive(q, k),
                 q # r
          PROVE  rd'[r] = rd[r]
      BY <1>0, <3>1 DEF GetStep, GetActive, GetImm, GetSst, Answer
    <3>2. \/ rd' = rd
          \/ \E q \in Readers : GetStep(q) \/ \E k \in Keys : GetActive(q, k)
      BY <1>3 DEF Next, vars, ClientStep, FlushStep, Begin, LogItem, LogFails,
         ApplyItem, CheckFull, Return, QueueExclusive, AcquireExclusive,
         BeginShutdown, Swap, Clone, WriteFile, FlushFails, Publish, Remove,
         Truncate, SkipTruncate
    <3>3. QED
      BY <3>1, <3>2
  <2>4. QED
    BY <2>1, <2>2, <2>3
<1>4. ASSUME CrashRestart, NEW r \in Readers
      PROVE  rd'[r].seen \subseteq acked /\ ReaderInv(rd'[r], imm', l0')
  BY <1>4 DEF CrashRestart, NoGet, ReaderInv
<1>5. \A r \in Readers : rd'[r].seen \subseteq acked /\ ReaderInv(rd'[r], imm', l0')
  BY <1>3, <1>4
<1>6. SUFFICES ASSUME NEW r \in Readers
      PROVE  (/\ rd[r].seen \subseteq acked
              /\ rd[r].at \in {"imm", "sst"} /\ Len(imm) = 1 /\ imm[1][rd[r].key] # None
                   => Fresh(rd[r].key, imm[1][rd[r].key], rd[r].seen)
              /\ \/ rd[r].at = "sst"
                 \/ rd[r].at = "imm" /\ (Len(imm) = 1 => imm[1][rd[r].key] = None)
                 => \A o \in SstGet(l0, rd[r].key) : Fresh(rd[r].key, o, rd[r].seen)
              /\ rd[r].at = "done" => Fresh(rd[r].key, rd[r].res, rd[r].seen))'
  BY DEF GetInv
<1>7. rd'[r].seen \in SUBSET acked /\ rd'[r].seen \subseteq acked'
  BY <1>0, <1>5
<1>8. (rd[r].at \in {"imm", "sst"} /\ Len(imm) = 1 /\ imm[1][rd[r].key] # None
         => Fresh(rd[r].key, imm[1][rd[r].key], rd[r].seen))'
  <2>1. Fresh(rd'[r].key, imm'[1][rd'[r].key], rd'[r].seen) =>
          \A w \in rd'[r].seen :
            rd'[r].key \in KeysOf[w] => imm'[1][rd'[r].key] # None /\ imm'[1][rd'[r].key] \notin before'[w]
    BY <1>2, <1>7
  <2>2. QED
    BY <1>5, <2>1 DEF Fresh, ReaderInv
<1>9. (\/ rd[r].at = "sst"
       \/ rd[r].at = "imm" /\ (Len(imm) = 1 => imm[1][rd[r].key] = None)
       => \A o \in SstGet(l0, rd[r].key) : Fresh(rd[r].key, o, rd[r].seen))'
  <2>1. SstGet(l0, rd[r].key)' = SstGet(l0', rd'[r].key)
    BY DEF SstGet, SstNewest, SstHits
  <2>2. \A o \in SstGet(l0', rd'[r].key) :
          Fresh(rd'[r].key, o, rd'[r].seen) =>
            \A w \in rd'[r].seen : rd'[r].key \in KeysOf[w] => o # None /\ o \notin before'[w]
    BY <1>2, <1>7
  <2>3. QED
    BY <1>5, <2>1, <2>2 DEF Fresh, ReaderInv
<1>10. (rd[r].at = "done" => Fresh(rd[r].key, rd[r].res, rd[r].seen))'
  <2>1. Fresh(rd'[r].key, rd'[r].res, rd'[r].seen) =>
          \A w \in rd'[r].seen :
            rd'[r].key \in KeysOf[w] => rd'[r].res # None /\ rd'[r].res \notin before'[w]
    BY <1>2, <1>7
  <2>2. QED
    BY <1>5, <2>1 DEF Fresh, ReaderInv
<1>11. QED
  BY <1>7, <1>8, <1>9, <1>10

-----------------------------------------------------------------------------
(* The theorems.                                                           *)

\* The invariant holds of a fresh engine.
LEMMA InitIInv == Init => WritePathIInv
<1> SUFFICES ASSUME Init PROVE WritePathIInv
  OBVIOUS
<1>1. TypeOK /\ OpInv
  BY InitType
<1>2. GuardInv
  BY TasksAssumption DEF Init, GuardInv, InFlush, NoGet
<1>3. FlushInv /\ WalInv
  BY TasksAssumption DEF Init, FlushInv, WalInv, InFlush, EmptyMemtable
<1>4. \A k \in Keys : AppliedOps(k) = {} /\ LoggedOps(k) = {}
  BY DEF Init, AppliedOps, LoggedOps
<1>5. ReadInv /\ DurableInv
  BY <1>4 DEF ReadInv, DurableInv, Fresh
<1>6. GetInv
  BY DEF Init, GetInv, NoGet
<1>7. QED
  BY <1>1, <1>2, <1>3, <1>5, <1>6 DEF WritePathIInv

\* Under SafeUse every step keeps the invariant.
LEMMA NextIInv ==
  ASSUME SafeUse
  PROVE  WritePathIInv /\ [Next]_vars => WritePathIInv'
<1> SUFFICES ASSUME WritePathIInv, [Next]_vars PROVE WritePathIInv'
  OBVIOUS
<1>0. TypeOK /\ OpInv /\ GuardInv /\ FlushInv /\ WalInv
  BY DEF WritePathIInv
<1>1. TypeOK' /\ OpInv'
  BY <1>0, NextType
<1>2. GuardInv'
  BY <1>0, GuardStep
<1>3. FlushInv'
  BY <1>0, FlushPreserved
<1>4. WalInv'
  BY <1>0, <1>1, <1>3, WalPreserved
<1>5. ReadInv'
  BY <1>1, <1>3, ReadPreserved
<1>6. DurableInv'
  BY <1>1, DurablePreserved
<1>7. GetInv'
  BY <1>1, GetPreserved
<1>8. QED
  BY <1>1, <1>2, <1>3, <1>4, <1>5, <1>6, <1>7 DEF WritePathIInv

\* The invariant holds throughout, for any number of keys, operations,
\* clients, readers and crashes.
THEOREM InductiveInvariant ==
  ASSUME SafeUse
  PROVE  Spec => []WritePathIInv
<1>1. Init => WritePathIInv
  BY InitIInv
<1>2. WritePathIInv /\ [Next]_vars => WritePathIInv'
  BY NextIInv
<1>3. QED
  BY <1>1, <1>2, PTL DEF Spec

\* Durability of put, delete and batch_put: at every instant, a crash and
\* restart gives back every acknowledged write or a newer one.
THEOREM Durable ==
  ASSUME SafeUse
  PROVE  Spec => []AckedWritesAreDurable
<1>1. WritePathIInv => AckedWritesAreDurable
  BY DEF WritePathIInv, DurableInv, AckedWritesAreDurable, Fresh, LoggedOps
<1>2. QED
  BY <1>1, InductiveInvariant, PTL

\* The layered lookup of get finds every acknowledged write or a newer one,
\* whatever the flush pipeline is doing.
THEOREM ReadYourWrites ==
  ASSUME SafeUse
  PROVE  Spec => []ReadsSeeAckedWrites
<1>1. WritePathIInv => ReadsSeeAckedWrites
  BY DEF WritePathIInv, ReadInv, ReadsSeeAckedWrites, Fresh, AppliedOps
<1>2. QED
  BY <1>1, InductiveInvariant, PTL

\* The same for a get whose three lookups interleave with other calls.
THEOREM GetNeverStale ==
  ASSUME SafeUse
  PROVE  Spec => []GetIsNeverStale
<1>1. WritePathIInv => GetIsNeverStale
  BY DEF WritePathIInv, GetInv, GetIsNeverStale
<1>2. QED
  BY <1>1, InductiveInvariant, PTL

\* flush() truncates the WAL under no half-done write.
THEOREM TruncateExcludesWriters ==
  ASSUME SafeUse
  PROVE  Spec => TruncateWaitsForWriters
<1>1. WritePathIInv /\ [Next]_vars =>
        [\A t \in Tasks : Truncate(t) =>
           \A c \in Clients : pc[c] \notin {"log", "apply"}]_vars
  BY TruncateIsSafe DEF WritePathIInv
<1>2. QED
  BY <1>1, InductiveInvariant, PTL DEF Spec, TruncateWaitsForWriters

-----------------------------------------------------------------------------
(* The write path implements KVStore.                                      *)

\* With distinct stamps, the SSTables of level 0 give one answer.
LEMMA SstSingle ==
  ASSUME TypeOK, FlushInv, StampInv, NEW k \in Keys
  PROVE  \E o \in Ops \cup {None} : SstGet(l0, k) = {o}
<1> DEFINE H == SstHits(l0, k)  T == {f.ts : f \in H}
<1>1. CASE H = {}
  BY <1>1 DEF SstGet
<1>2. CASE H # {}
  <2>1. /\ \A f \in H : f \in disk /\ f.ts \in Nat /\ f.ts < seq
        /\ \A f \in H : f.data[k] \in Ops \cup {None}
        /\ seq \in Nat
    BY DEF TypeOK, FlushInv, SstHits, SSTable, Memtable
  <2>2. T \in SUBSET Nat /\ T # {} /\ \A x \in T : x <= seq
    BY <1>2, <2>1
  <2>3. Max(T) \in T /\ \A x \in T : x <= Max(T)
    <3> HIDE DEF T
    <3>1. QED
      BY <2>1, <2>2, MaxNat
  <2>4. PICK f \in H : f.ts = Max(T)
    BY <2>3
  <2>5. \A g \in H : g.ts <= f.ts
    BY <2>3, <2>4
  <2>6. \A g \in H : f.ts <= g.ts => g = f
    <3>1. TAKE g \in H
    <3>2. HAVE f.ts <= g.ts
    <3>3. f.ts = g.ts
      BY <2>1, <2>5, <3>2
    <3>4. QED
      BY <2>1, <3>3 DEF StampInv
  <2>7. SstNewest(l0, k) = {f}
    BY <2>5, <2>6 DEF SstNewest
  <2>8. SstGet(l0, k) = {f.data[k]}
    BY <1>2, <2>7 DEF SstGet
  <2>9. QED
    BY <2>1, <2>8
<1>3. QED
  BY <1>1, <1>2

\* A get that nothing interrupts has one answer.
LEMMA ViewSingle ==
  ASSUME TypeOK, FlushInv, StampInv, NEW k \in Keys
  PROVE  \E o \in Ops \cup {None} : View(k) = {o}
  BY LookupType, SstSingle DEF View

\* So the map of KVStore holds that answer.
LEMMA KvBarIs ==
  ASSUME NEW k \in Keys, NEW o, View(k) = {o}
  PROVE  KvBar[k] = o
  BY DEF KvBar

\* New files have new stamps.
LEMMA StampStep ==
  ASSUME TypeOK, FlushInv, StampInv, [Next]_vars
  PROVE  StampInv'
<1>1. CASE UNCHANGED disk
  BY <1>1 DEF StampInv
<1>2. ASSUME NEW t \in Tasks, WriteFile(t) PROVE StampInv'
  <2>1. disk' = disk \cup {sst[t]} /\ \A f \in disk : f.ts < sst[t].ts
    BY <1>2 DEF WriteFile, FlushInv
  <2>2. sst[t].ts \in Nat /\ \A f \in disk : f.ts \in Nat
    BY DEF TypeOK, SSTable
  <2>3. QED
    BY <2>1, <2>2 DEF StampInv
<1>3. UNCHANGED disk \/ \E t \in Tasks : WriteFile(t)
  BY DEF Next, vars, ClientStep, FlushStep, GetStep, Begin, LogItem, LogFails,
         ApplyItem, CheckFull, Return, QueueExclusive, AcquireExclusive,
         BeginShutdown, Swap, Clone, FlushFails, Publish, Remove, Truncate,
         SkipTruncate, GetActive, GetImm, GetSst, CrashRestart
<1>4. QED
  BY <1>1, <1>2, <1>3

\* An operation is run by its own client only.
LEMMA Runner ==
  ASSUME OpInv, NEW c \in Clients, cur[c] # None
  PROVE  RunBy(cur[c]) = {c}
  BY DEF OpInv, RunBy

\* Two clients are not at work on one key.
LEMMA OwnKeys ==
  ASSUME OneWriterPerKey, TypeOK, OpInv, NEW c \in Clients, NEW d \in Clients,
         NEW k, k \in KeysOf[cur[c]], k \in KeysOf[cur[d]],
         pc[c] # "idle", pc[d] # "idle"
  PROVE  c = d
<1>1. cur[c] \in Ops /\ cur[d] \in Ops /\ ClientOf[cur[c]] = c /\ ClientOf[cur[d]] = d
  BY DEF TypeOK, OpInv
<1>2. QED
  BY <1>1 DEF OneWriterPerKey

\* A client with a pending write to k is at work on k.
LEMMA PendingWorks ==
  ASSUME OpInv, NEW c \in Clients, NEW k, Pending(c, k)
  PROVE  pc[c] # "idle" /\ k \in KeysOf[cur[c]]
  BY DEF Pending, OpInv

\* A step that changes neither lookup nor the pending writes to k.
LEMMA AgreeFrame ==
  ASSUME NEW k, AgreeOn(k), Recovered(k)' = Recovered(k), View(k)' = View(k),
         \A c \in Clients : /\ Pending(c, k)' <=> Pending(c, k)
                            /\ Pending(c, k) => cur'[c] = cur[c]
  PROVE  AgreeOn(k)'
  BY DEF AgreeOn

\* Only a logged record, an applied item and a crash change pending writes.
LEMMA PendingSame ==
  ASSUME SafeUse, TypeOK, OpInv, [Next]_vars, ~CrashRestart,
         ~\E c \in Clients, k \in Keys : LogItem(c, k) \/ ApplyItem(c, k),
         NEW c \in Clients, NEW k \in Keys
  PROVE  /\ Pending(c, k)' <=> Pending(c, k)
         /\ Pending(c, k) => cur'[c] = cur[c]
<1> USE TasksAssumption, SafeSteps
<1>0. /\ pc \in [Tasks -> Label] /\ cur \in [Clients -> Ops \cup {None}]
      /\ todo \in [Clients -> SUBSET Keys]
  BY DEF TypeOK
<1> DEFINE Kept == /\ cur'[c] = cur[c] /\ todo'[c] = todo[c]
                   /\ \/ pc'[c] = pc[c]
                      \/ pc[c] \notin {"log", "apply"} /\ pc'[c] \notin {"log", "apply"}
           Fresh0 == /\ pc[c] \notin {"log", "apply"}
                     /\ \/ pc'[c] \notin {"log", "apply"}
                        \/ pc'[c] = "log" /\ todo'[c] = KeysOf[cur'[c]]
<1>1. Kept \/ Fresh0 => /\ Pending(c, k)' <=> Pending(c, k)
                        /\ Pending(c, k) => cur'[c] = cur[c]
  BY DEF Pending
<1>2. ASSUME NEW d \in Clients, NEW o \in Ops, Begin(d, o) PROVE Kept \/ Fresh0
  BY <1>0, <1>2 DEF Begin
<1>3. ASSUME NEW d \in Clients, Return(d) PROVE Kept \/ Fresh0
  BY <1>0, <1>3 DEF Return
<1>4. ASSUME NEW t \in Tasks, FlushStep(t) PROVE Kept
  BY <1>0, <1>4 DEF FlushStep, Swap, Clone, WriteFile, Publish, Remove, Truncate,
                    AfterFlush
<1>5. ASSUME QueueExclusive \/ AcquireExclusive \/ SkipTruncate
               \/ \E d \in Clients : CheckFull(d)
      PROVE  Kept
  BY <1>0, <1>5 DEF QueueExclusive, AcquireExclusive, SkipTruncate, CheckFull
<1>6. ASSUME NEW r \in Readers, GetStep(r) \/ \E j \in Keys : GetActive(r, j)
      PROVE  Kept
  BY <1>6 DEF GetStep, GetActive, GetImm, GetSst
<1>7. CASE UNCHANGED vars
  BY <1>1, <1>7 DEF vars
<1>8. QED
  <2> HIDE DEF Kept, Fresh0
  <2>1. QED
    BY <1>1, <1>2, <1>3, <1>4, <1>5, <1>6, <1>7 DEF Next, ClientStep

\* An applied item shows at its key only.
LEMMA ApplyElsewhere ==
  ASSUME TypeOK, NEW c \in Clients, NEW k \in Keys, ApplyItem(c, k),
         NEW j \in Keys, j # k
  PROVE  View(j)' = View(j)
<1>1. active' = [active EXCEPT ![k] = cur[c]] /\ UNCHANGED <<imm, l0>>
  BY DEF ApplyItem
<1>2. QED
  BY <1>1 DEF View, ImmGet, ImmHits, SstGet, SstNewest, SstHits, TypeOK

\* The applied item is what a get finds at its key.
LEMMA ApplyHere ==
  ASSUME TypeOK, OpInv, NEW c \in Clients, NEW k \in Keys, ApplyItem(c, k)
  PROVE  View(k)' = {cur[c]}
<1>1. active' = [active EXCEPT ![k] = cur[c]] /\ pc[c] = "apply"
  BY DEF ApplyItem
<1>2. cur[c] # None
  BY <1>1 DEF OpInv
<1>3. QED
  BY <1>1, <1>2 DEF View, TypeOK, Memtable

\* After a restart a get finds what recovery gives back.
LEMMA CrashView ==
  ASSUME CrashRestart, TypeOK', FlushInv', NEW k \in Keys
  PROVE  View(k)' = Recovered(k)
<1>1. active' = wal /\ imm' = <<>> /\ l0' = disk
  BY DEF CrashRestart
<1>2. OneImmView'
  BY ViewOne, PTL
<1>3. Len(imm') = 0
  BY <1>1
<1>4. SstGet(l0, k)' = SstGet(disk, k)
  BY <1>1 DEF SstGet, SstNewest, SstHits
<1>5. QED
  BY <1>1, <1>2, <1>3, <1>4 DEF OneImmView, Recovered

\* Reads and recovery stay in agreement but for pending writes.
LEMMA AgreeStep ==
  ASSUME SafeUse, OneWriterPerKey, WritePathIInv, AgreeInv, [Next]_vars,
         TypeOK', OpInv', FlushInv'
  PROVE  AgreeInv'
<1> USE DEF WritePathIInv
<1>0. /\ pc \in [Tasks -> Label] /\ cur \in [Clients -> Ops \cup {None}]
      /\ todo \in [Clients -> SUBSET Keys] /\ wal \in Memtable
      /\ Clients \subseteq Tasks
  BY DEF TypeOK
<1>1. ASSUME NEW c \in Clients, NEW k \in Keys, LogItem(c, k), NEW j \in Keys
      PROVE  AgreeOn(j)'
  <2>1. /\ pc[c] = "log" /\ k \in todo[c] /\ UNCHANGED <<cur, disk, active, imm, l0>>
        /\ wal' = [wal EXCEPT ![k] = cur[c]]
    BY <1>1 DEF LogItem
  <2>2. cur[c] \in Ops /\ cur[c] # None /\ k \in KeysOf[cur[c]] /\ todo[c] \subseteq KeysOf[cur[c]]
    BY <1>0, <2>1 DEF OpInv
  <2>3. /\ \A d \in Clients : d # c => todo'[d] = todo[d] /\ pc'[d] = pc[d]
        /\ \/ pc'[c] = "apply" /\ todo[c] = {k} /\ todo'[c] = KeysOf[cur[c]]
           \/ pc'[c] = "log" /\ todo'[c] = todo[c] \ {k}
    BY <1>0, <1>1 DEF LogItem
  <2>4. View(j)' = View(j)
    BY <2>1 DEF View, ImmGet, ImmHits, SstGet, SstNewest, SstHits
  <2>5. CASE j = k
    <3>1. Recovered(k)' = {cur[c]}
      BY <1>0, <2>1, <2>2 DEF Recovered, Memtable
    <3>2. Pending(c, k)'
      BY <2>1, <2>2, <2>3 DEF Pending
    <3>3. ASSUME NEW d \in Clients, Pending(d, k)' PROVE d = c
      <4>1. d # c => Pending(d, k)
        BY <2>1, <2>3, <3>3 DEF Pending
      <4>2. d # c => pc[d] # "idle" /\ k \in KeysOf[cur[d]]
        BY <4>1, PendingWorks
      <4>3. QED
        BY <2>1, <2>2, <4>2, OwnKeys
    <3>4. QED
      BY <2>1, <2>5, <3>1, <3>2, <3>3 DEF AgreeOn
  <2>6. CASE j # k
    <3>1. Recovered(j)' = Recovered(j)
      BY <1>0, <2>1, <2>6 DEF Recovered, SstGet, SstNewest, SstHits, Memtable
    <3>2. \A d \in Clients : Pending(d, j)' <=> Pending(d, j)
      BY <2>1, <2>2, <2>3, <2>6 DEF Pending
    <3>3. QED
      BY <2>1, <2>4, <3>1, <3>2, AgreeFrame DEF AgreeInv
  <2>7. QED
    BY <2>5, <2>6
<1>2. ASSUME NEW c \in Clients, NEW k \in Keys, ApplyItem(c, k), NEW j \in Keys
      PROVE  AgreeOn(j)'
  <2>1. /\ pc[c] = "apply" /\ k \in todo[c] /\ UNCHANGED <<cur, disk, wal>>
        /\ todo' = [todo EXCEPT ![c] = @ \ {k}]
    BY <1>2 DEF ApplyItem
  <2>2. /\ \A d \in Clients : d # c => todo'[d] = todo[d] /\ pc'[d] = pc[d]
        /\ todo'[c] = todo[c] \ {k}
        /\ \/ pc'[c] = "apply"
           \/ pc'[c] = "check" /\ todo[c] = {k}
    BY <1>0, <1>2, <2>1 DEF ApplyItem
  <2>3. Recovered(j)' = Recovered(j)
    BY <2>1 DEF Recovered, SstGet, SstNewest, SstHits
  <2>4. CASE j = k
    <3>1. Pending(c, k) /\ ~Pending(c, k)'
      BY <2>1, <2>2 DEF Pending
    <3>2. Recovered(k)' = {cur[c]} /\ View(k)' = {cur[c]}
      BY <1>2, <2>3, <2>4, <3>1, ApplyHere DEF AgreeInv, AgreeOn
    <3>3. ASSUME NEW d \in Clients, Pending(d, k)' PROVE FALSE
      <4>1. d # c /\ Pending(d, k)
        BY <2>1, <2>2, <3>1, <3>3 DEF Pending
      <4>2. QED
        BY <3>1, <4>1, PendingWorks, OwnKeys
    <3>4. QED
      BY <2>4, <3>2, <3>3 DEF AgreeOn
  <2>5. CASE j # k
    <3>1. View(j)' = View(j)
      BY <1>2, <2>5, ApplyElsewhere
    <3>2. \A d \in Clients : Pending(d, j)' <=> Pending(d, j)
      BY <2>1, <2>2, <2>5 DEF Pending
    <3>3. QED
      BY <2>1, <2>3, <3>1, <3>2, AgreeFrame DEF AgreeInv
  <2>6. QED
    BY <2>4, <2>5
<1>3. ASSUME CrashRestart, NEW j \in Keys PROVE AgreeOn(j)'
  <2>1. \A c \in Clients : pc'[c] = "idle"
    BY <1>0, <1>3 DEF CrashRestart
  <2>2. Recovered(j)' = Recovered(j)
    BY <1>3 DEF CrashRestart, Recovered, SstGet, SstNewest, SstHits
  <2>3. View(j)' = Recovered(j)
    BY <1>3, CrashView
  <2>4. QED
    BY <2>1, <2>2, <2>3 DEF AgreeOn, Pending
<1>4. ASSUME NEW t \in Tasks, Truncate(t), NEW j \in Keys PROVE AgreeOn(j)'
  <2>1. View(j) = SstGet(disk, j) /\ \A c \in Clients : pc[c] \notin {"log", "apply"}
    BY <1>4, TruncateIsSafe
  <2>2. /\ wal' = EmptyMemtable /\ UNCHANGED <<disk, active, imm, l0>>
        /\ pc' = [pc EXCEPT ![t] = "idle"]
    BY <1>4 DEF Truncate
  <2>3. Recovered(j)' = SstGet(disk, j)
    BY <2>2 DEF Recovered, EmptyMemtable, SstGet, SstNewest, SstHits
  <2>4. View(j)' = View(j)
    BY <2>2 DEF View, ImmGet, ImmHits, SstGet, SstNewest, SstHits
  <2>5. \A c \in Clients : ~Pending(c, j)'
    BY <1>0, <2>1, <2>2 DEF Pending
  <2>6. QED
    BY <2>1, <2>3, <2>4, <2>5 DEF AgreeOn
<1>5. ASSUME ~CrashRestart, ~\E t \in Tasks : Truncate(t),
             ~\E c \in Clients, k \in Keys : LogItem(c, k) \/ ApplyItem(c, k),
             NEW j \in Keys
      PROVE  AgreeOn(j)'
  <2>1. View(j)' = View(j)
    BY <1>5, ViewSame
  <2>2. Recovered(j)' = Recovered(j)
    BY <1>5, RecoveredSame
  <2>3. \A c \in Clients : /\ Pending(c, j)' <=> Pending(c, j)
                           /\ Pending(c, j) => cur'[c] = cur[c]
    BY <1>5, PendingSame
  <2>4. QED
    BY <2>1, <2>2, <2>3, AgreeFrame DEF AgreeInv
<1>6. QED
  BY <1>1, <1>2, <1>3, <1>4, <1>5 DEF AgreeInv

\* The strengthening holds throughout.
THEOREM RefinementInvariant ==
  ASSUME SafeUse, OneWriterPerKey
  PROVE  Spec => []RefineIInv
<1>1. Init => RefineIInv
  <2> SUFFICES ASSUME Init PROVE RefineIInv
    OBVIOUS
  <2>1. WritePathIInv /\ StampInv
    BY InitIInv DEF Init, StampInv
  <2>2. ASSUME NEW k \in Keys PROVE AgreeOn(k)
    <3>1. OneImmView
      BY <2>1, ViewOne DEF WritePathIInv
    <3>2. View(k) = SstGet({}, k) /\ Recovered(k) = SstGet({}, k)
      BY <3>1 DEF Init, OneImmView, Recovered, EmptyMemtable
    <3>3. \A c \in Clients : ~Pending(c, k)
      BY DEF Init, Pending
    <3>4. QED
      BY <3>2, <3>3 DEF AgreeOn
  <2>3. QED
    BY <2>1, <2>2 DEF RefineIInv, AgreeInv
<1>2. RefineIInv /\ [Next]_vars => RefineIInv'
  <2> SUFFICES ASSUME RefineIInv, [Next]_vars PROVE RefineIInv'
    OBVIOUS
  <2>1. WritePathIInv /\ StampInv /\ AgreeInv
    BY DEF RefineIInv
  <2>2. WritePathIInv'
    BY <2>1, NextIInv
  <2>3. TypeOK /\ FlushInv /\ TypeOK' /\ OpInv' /\ FlushInv'
    BY <2>1, <2>2 DEF WritePathIInv
  <2>4. StampInv'
    BY <2>1, <2>3, StampStep
  <2>5. AgreeInv'
    BY <2>1, <2>3, AgreeStep
  <2>6. QED
    BY <2>2, <2>4, <2>5 DEF RefineIInv
<1>3. QED
  BY <1>1, <1>2, PTL DEF Spec

\* A lookup that is unchanged leaves the map unchanged.
LEMMA KvSame ==
  ASSUME \A k \in Keys : View(k)' = View(k)
  PROVE  KvBar' = KvBar
  BY DEF KvBar

\* A step of other clients does not change how far an operation has come.
LEMMA AppliedFrame ==
  ASSUME NEW o \in Ops, o \in acked' <=> o \in acked, RunBy(o)' = RunBy(o),
         \A c \in RunBy(o) :
           \/ pc'[c] = "log" /\ pc[c] = "log"
           \/ pc'[c] # "log" /\ pc[c] # "log" /\ todo'[c] = todo[c]
           \/ pc[c] = "log" /\ todo'[c] = KeysOf[o]
  PROVE  AppliedBar'[o] = AppliedBar[o]
<1>1. {k \in KeysOf[o] : \E c \in RunBy(o) : pc'[c] # "log" /\ k \notin todo'[c]}
       = {k \in KeysOf[o] : \E c \in RunBy(o) : pc[c] # "log" /\ k \notin todo[c]}
  OBVIOUS
<1>2. QED
  BY <1>1 DEF AppliedBar

\* A step that neither begins nor ends an operation, nor applies an item,
\* changes nothing of what KVStore keeps about operations.
LEMMA OpsSame ==
  ASSUME UNCHANGED <<acked, ended, cur>>,
         \A c \in Clients :
           \/ pc'[c] = "log" /\ pc[c] = "log"
           \/ pc'[c] # "log" /\ pc[c] # "log" /\ todo'[c] = todo[c]
           \/ pc[c] = "log" /\ todo'[c] = KeysOf[cur[c]]
  PROVE  StatusBar' = StatusBar /\ AppliedBar' = AppliedBar
<1>1. \A o \in Ops : RunBy(o)' = RunBy(o)
  BY DEF RunBy
<1>2. StatusBar' = StatusBar
  BY <1>1 DEF StatusBar
<1>3. ASSUME NEW o \in Ops PROVE AppliedBar'[o] = AppliedBar[o]
  <2>1. \A c \in RunBy(o) : c \in Clients /\ cur[c] = o
    BY DEF RunBy
  <2>2. QED
    BY <1>1, <2>1, AppliedFrame
<1>4. AppliedBar' = AppliedBar
  BY <1>3 DEF AppliedBar
<1>5. QED
  BY <1>2, <1>4

\* The call of an operation is a Call of KVStore.
LEMMA BeginCalls ==
  ASSUME TypeOK, OpInv, NEW c \in Clients, NEW o \in Ops, Begin(c, o),
         KvBar' = KvBar
  PROVE  KV!Call(o)
<1> USE OpsAssumption
<1>1. /\ pc[c] = "idle" /\ ClientOf[o] = c /\ o \notin ended /\ o \notin acked
      /\ UNCHANGED <<acked, ended>>
      /\ cur' = [cur EXCEPT ![c] = o] /\ pc' = [pc EXCEPT ![c] = "log"]
      /\ todo' = [todo EXCEPT ![c] = KeysOf[o]] /\ cur[c] = None
  BY DEF Begin, TypeOK, OpInv
<1>2. /\ cur'[c] = o /\ pc'[c] = "log"
      /\ \A d \in Clients : d # c =>
           cur'[d] = cur[d] /\ pc'[d] = pc[d] /\ todo'[d] = todo[d]
  BY <1>1 DEF TypeOK
<1>3. RunBy(o) = {} /\ RunBy(o)' = {c}
  BY <1>1, <1>2 DEF RunBy, OpInv
<1>4. \A p \in Ops : p # o => RunBy(p)' = RunBy(p) /\ c \notin RunBy(p)
  BY <1>1, <1>2 DEF RunBy
<1>5. StatusBar[o] = "new" /\ StatusBar' = [StatusBar EXCEPT ![o] = "running"]
  BY <1>1, <1>3, <1>4 DEF StatusBar
<1>6. ASSUME NEW p \in Ops PROVE AppliedBar'[p] = AppliedBar[p]
  <2>1. CASE p = o
    BY <1>1, <1>2, <1>3, <2>1 DEF AppliedBar
  <2>2. CASE p # o
    <3>1. \A d \in RunBy(p) : pc'[d] = pc[d] /\ todo'[d] = todo[d]
      BY <1>2, <1>4, <2>2 DEF RunBy
    <3>2. QED
      BY <1>1, <1>4, <2>2, <3>1, AppliedFrame
  <2>3. QED
    BY <2>1, <2>2
<1>7. AppliedBar' = AppliedBar
  BY <1>6 DEF AppliedBar
<1>8. QED
  BY <1>5, <1>7 DEF KV!Call

\* A running operation of client c, as KVStore sees it.
LEMMA RunningBar ==
  ASSUME TypeOK, OpInv, NEW c \in Clients, pc[c] # "idle"
  PROVE  /\ cur[c] \in Ops /\ cur[c] \notin ended /\ cur[c] \notin acked
         /\ RunBy(cur[c]) = {c} /\ StatusBar[cur[c]] = "running"
         /\ AppliedBar[cur[c]]
              = IF pc[c] = "log" THEN {} ELSE KeysOf[cur[c]] \ todo[c]
<1>1. cur[c] \in Ops /\ cur[c] \notin ended /\ cur[c] \notin acked /\ cur[c] # None
  BY DEF TypeOK, OpInv
<1>2. RunBy(cur[c]) = {c}
  BY <1>1, Runner
<1>3. StatusBar[cur[c]] = "running"
  BY <1>1, <1>2 DEF StatusBar
<1>4. AppliedBar[cur[c]]
        = {k \in KeysOf[cur[c]] : pc[c] # "log" /\ k \notin todo[c]}
  BY <1>1, <1>2 DEF AppliedBar
<1>5. QED
  BY <1>1, <1>2, <1>3, <1>4

\* An applied item is a TakeEffect of KVStore.
LEMMA ApplyTakesEffect ==
  ASSUME TypeOK, FlushInv, StampInv, OpInv, NEW c \in Clients, NEW k \in Keys,
         ApplyItem(c, k)
  PROVE  KV!TakeEffect(cur[c], k)
<1>1. /\ pc[c] = "apply" /\ k \in todo[c] /\ UNCHANGED <<cur, acked, ended>>
      /\ todo' = [todo EXCEPT ![c] = @ \ {k}] /\ todo[c] \subseteq KeysOf[cur[c]]
  BY DEF ApplyItem, OpInv
<1>2. /\ \A d \in Clients : d # c => todo'[d] = todo[d] /\ pc'[d] = pc[d]
      /\ todo'[c] = todo[c] \ {k} /\ pc'[c] # "log"
  BY <1>1 DEF ApplyItem, TypeOK
<1>3. PICK o \in Ops : o = cur[c]
  BY <1>1, RunningBar
<1>4. /\ o \notin acked /\ RunBy(o) = {c} /\ StatusBar[o] = "running"
      /\ AppliedBar[o] = KeysOf[o] \ todo[c]
  BY <1>1, <1>3, RunningBar
<1>5. \A p \in Ops : RunBy(p)' = RunBy(p)
  BY <1>1 DEF RunBy
<1>6. StatusBar' = StatusBar
  BY <1>1, <1>5 DEF StatusBar
<1>7. k \in KeysOf[o] \ AppliedBar[o]
  BY <1>1, <1>3, <1>4
<1>8. AppliedBar' = [AppliedBar EXCEPT ![o] = @ \cup {k}]
  <2>1. AppliedBar'[o] = AppliedBar[o] \cup {k}
    <3>1. AppliedBar'[o] = {j \in KeysOf[o] : pc'[c] # "log" /\ j \notin todo'[c]}
      BY <1>1, <1>4, <1>5 DEF AppliedBar
    <3>2. QED
      BY <1>2, <1>4, <1>7, <3>1
  <2>2. ASSUME NEW p \in Ops, p # o PROVE AppliedBar'[p] = AppliedBar[p]
    <3>1. \A d \in RunBy(p) : d \in Clients /\ d # c
      BY <1>3, <2>2 DEF RunBy
    <3>2. QED
      BY <1>1, <1>2, <1>5, <3>1, AppliedFrame
  <2>3. QED
    BY <2>1, <2>2 DEF AppliedBar
<1>9. KvBar' = [KvBar EXCEPT ![k] = o]
  <2>1. View(k)' = {o}
    BY <1>3, ApplyHere
  <2>2. \A j \in Keys : j # k => View(j)' = View(j)
    BY ApplyElsewhere
  <2>3. KvBar'[k] = o
    BY <2>1 DEF KvBar
  <2>4. \A j \in Keys : j # k => KvBar'[j] = KvBar[j]
    BY <2>2 DEF KvBar
  <2>5. /\ KvBar = [j \in Keys |-> KvBar[j]]
        /\ KvBar' = [j \in Keys |-> KvBar'[j]]
    BY DEF KvBar
  <2>6. QED
    BY <2>3, <2>4, <2>5
<1>10. QED
  BY <1>3, <1>4, <1>6, <1>7, <1>8, <1>9 DEF KV!TakeEffect

\* The return of an operation is a ReturnOk of KVStore.
LEMMA ReturnReturns ==
  ASSUME TypeOK, OpInv, NEW c \in Clients, Return(c), KvBar' = KvBar
  PROVE  KV!ReturnOk(cur[c])
<1>1. /\ pc[c] \in {"check", "return"} /\ todo[c] = {} /\ todo' = todo
      /\ cur' = [cur EXCEPT ![c] = None] /\ pc' = [pc EXCEPT ![c] = "idle"]
      /\ acked' = acked \cup {cur[c]} /\ ended' = ended \cup {cur[c]}
  BY DEF Return, OpInv
<1>2. PICK o \in Ops : o = cur[c]
  BY <1>1, RunningBar
<1>3. /\ o \notin acked /\ o \notin ended /\ RunBy(o) = {c}
      /\ StatusBar[o] = "running" /\ AppliedBar[o] = KeysOf[o]
  BY <1>1, <1>2, RunningBar
<1>4. /\ cur'[c] = None
      /\ \A d \in Clients : d # c => cur'[d] = cur[d] /\ pc'[d] = pc[d]
  BY <1>1 DEF TypeOK
<1>5. \A p \in Ops : p # o => RunBy(p)' = RunBy(p) /\ c \notin RunBy(p)
  BY <1>2, <1>4, OpsAssumption DEF RunBy
<1>6. StatusBar' = [StatusBar EXCEPT ![o] = "ok"]
  BY <1>1, <1>2, <1>5 DEF StatusBar
<1>7. ASSUME NEW p \in Ops PROVE AppliedBar'[p] = AppliedBar[p]
  <2>1. CASE p = o
    BY <1>1, <1>2, <1>3, <2>1 DEF AppliedBar
  <2>2. CASE p # o
    <3>1. p \in acked' <=> p \in acked
      BY <1>1, <1>2, <2>2
    <3>2. \A d \in RunBy(p) : pc'[d] = pc[d] /\ todo'[d] = todo[d]
      BY <1>1, <1>4, <1>5, <2>2 DEF RunBy
    <3>3. RunBy(p)' = RunBy(p)
      BY <1>5, <2>2
    <3>4. QED
      BY <3>1, <3>2, <3>3, AppliedFrame
  <2>3. QED
    BY <2>1, <2>2
<1>8. AppliedBar' = AppliedBar
  BY <1>7 DEF AppliedBar
<1>9. QED
  BY <1>2, <1>3, <1>6, <1>8 DEF KV!ReturnOk

\* A crash and restart is a Crash of KVStore: reads return what they did, or
\* an operation that the crash interrupted.
LEMMA CrashCrashes ==
  ASSUME RefineIInv, CrashRestart, TypeOK', FlushInv', StampInv'
  PROVE  KV!Crash
<1>0. TypeOK /\ OpInv /\ FlushInv /\ StampInv /\ AgreeInv
  BY DEF RefineIInv, WritePathIInv
<1>1. /\ acked' = acked /\ ended' = ended \cup Running
      /\ \A c \in Clients : cur'[c] = None
  BY DEF CrashRestart
<1>2. \A o \in Ops : RunBy(o)' = {}
  BY <1>1, OpsAssumption DEF RunBy
<1>3. \A o \in Ops : o \in Running <=> RunBy(o) # {}
  BY OpsAssumption DEF Running, RunBy
<1>4. ASSUME NEW o \in Ops
      PROVE  /\ StatusBar'[o] = IF StatusBar[o] = "running" THEN "lost" ELSE StatusBar[o]
             /\ AppliedBar'[o] = IF StatusBar[o] = "running" THEN {} ELSE AppliedBar[o]
  <2>1. StatusBar[o] = "running" <=> o \notin acked /\ o \notin ended /\ RunBy(o) # {}
    BY DEF StatusBar
  <2>2. o \in ended => RunBy(o) = {}
    BY <1>0, OpsAssumption DEF RunBy, OpInv
  <2>3. acked \subseteq ended
    BY <1>0 DEF TypeOK
  <2>4. StatusBar'[o] = IF o \in acked THEN "ok"
                        ELSE IF o \in ended \/ RunBy(o) # {} THEN "lost" ELSE "new"
    BY <1>1, <1>2, <1>3 DEF StatusBar
  <2>5. StatusBar[o] = IF o \in acked THEN "ok"
                       ELSE IF o \in ended THEN "lost"
                       ELSE IF RunBy(o) # {} THEN "running" ELSE "new"
    BY DEF StatusBar
  <2>6. AppliedBar'[o] = IF o \in acked THEN KeysOf[o] ELSE {}
    BY <1>1, <1>2 DEF AppliedBar
  <2>7. RunBy(o) = {} => AppliedBar[o] = IF o \in acked THEN KeysOf[o] ELSE {}
    BY DEF AppliedBar
  <2>8. o \in acked => AppliedBar[o] = KeysOf[o]
    BY DEF AppliedBar
  <2>9. QED
    BY <2>1, <2>2, <2>3, <2>4, <2>5, <2>6, <2>7, <2>8
<1>5. StatusBar' = [o \in Ops |-> IF StatusBar[o] = "running" THEN "lost" ELSE StatusBar[o]]
  BY <1>4 DEF StatusBar
<1>6. AppliedBar' = [o \in Ops |-> IF StatusBar[o] = "running" THEN {} ELSE AppliedBar[o]]
  BY <1>4 DEF AppliedBar
<1>7. ASSUME NEW k \in Keys
      PROVE  /\ KvBar'[k] \in Ops \cup {None}
             /\ KvBar'[k] \in {KvBar[k]} \cup KV!Interrupted(k)
  <2>1. PICK o \in Ops \cup {None} : View(k) = {o}
    BY <1>0, ViewSingle
  <2>2. View(k)' = Recovered(k)
    BY CrashView
  <2>3. KvBar[k] = o
    BY <2>1, KvBarIs
  <2>4. CASE \A c \in Clients : ~Pending(c, k)
    <3>1. View(k)' = {o}
      BY <1>0, <2>1, <2>2, <2>4 DEF AgreeInv, AgreeOn
    <3>2. KvBar'[k] = o
      BY <3>1 DEF KvBar
    <3>3. QED
      BY <2>1, <2>3, <3>2
  <2>5. CASE \E c \in Clients : Pending(c, k)
    <3>1. PICK c \in Clients : Pending(c, k)
      BY <2>5
    <3>2. pc[c] # "idle" /\ k \in KeysOf[cur[c]]
      BY <1>0, <3>1, PendingWorks
    <3>3. PICK p \in Ops : p = cur[c] /\ StatusBar[p] = "running"
      BY <1>0, <3>2, RunningBar
    <3>4. View(k)' = {p}
      BY <1>0, <2>2, <3>1, <3>3 DEF AgreeInv, AgreeOn
    <3>5. KvBar'[k] = p
      BY <3>4 DEF KvBar
    <3>6. p \in KV!Interrupted(k)
      BY <3>2, <3>3 DEF KV!Interrupted
    <3>7. QED
      BY <3>5, <3>6
  <2>6. QED
    BY <2>4, <2>5
<1>8. KvBar' \in [Keys -> Ops \cup {None}]
  <2>1. KvBar' = [j \in Keys |-> KvBar'[j]]
    BY DEF KvBar
  <2>2. QED
    BY <1>7, <2>1
<1>9. QED
  BY <1>5, <1>6, <1>7, <1>8 DEF KV!Crash

\* The other steps are invisible to KVStore.
LEMMA OtherStepsHidden ==
  ASSUME SafeUse, WritePathIInv, [Next]_vars, TypeOK', FlushInv', ~CrashRestart,
         ~\E c \in Clients : \/ Return(c)
                             \/ \E o \in Ops : Begin(c, o)
                             \/ \E k \in Keys : ApplyItem(c, k)
  PROVE  UNCHANGED <<KvBar, StatusBar, AppliedBar>>
<1> USE TasksAssumption, SafeSteps DEF WritePathIInv
<1>0. /\ pc \in [Tasks -> Label] /\ cur \in [Clients -> Ops \cup {None}]
      /\ todo \in [Clients -> SUBSET Keys]
  BY DEF TypeOK
<1> DEFINE Moved(c) ==
      \/ pc'[c] = "log" /\ pc[c] = "log"
      \/ pc'[c] # "log" /\ pc[c] # "log" /\ todo'[c] = todo[c]
      \/ pc[c] = "log" /\ todo'[c] = KeysOf[cur[c]]
<1> DEFINE Hidden == UNCHANGED <<acked, ended, cur>> /\ \A c \in Clients : Moved(c)
<1>1. ASSUME NEW c \in Clients, NEW k \in Keys, LogItem(c, k) PROVE Hidden
  <2>1. UNCHANGED <<acked, ended, cur>> /\ pc[c] = "log"
    BY <1>1 DEF LogItem
  <2>2. /\ \A d \in Clients : d # c => todo'[d] = todo[d] /\ pc'[d] = pc[d]
        /\ pc'[c] = "log" \/ todo'[c] = KeysOf[cur[c]]
    BY <1>0, <1>1 DEF LogItem
  <2>3. QED
    BY <2>1, <2>2
<1>2. ASSUME NEW t \in Tasks, FlushStep(t) PROVE Hidden
  <2>1. UNCHANGED <<acked, ended, cur, todo>>
    BY <1>2 DEF FlushStep, Swap, Clone, WriteFile, Publish, Remove, Truncate
  <2>2. \A c \in Clients : pc'[c] = pc[c] \/ (pc[c] # "log" /\ pc'[c] # "log")
    BY <1>0, <1>2 DEF FlushStep, Swap, Clone, WriteFile, Publish, Remove, Truncate,
                      AfterFlush
  <2>3. QED
    BY <2>1, <2>2
<1>3. ASSUME QueueExclusive \/ AcquireExclusive \/ SkipTruncate
               \/ \E c \in Clients : CheckFull(c)
      PROVE  Hidden
  BY <1>0, <1>3 DEF QueueExclusive, AcquireExclusive, SkipTruncate, CheckFull
<1>4. ASSUME NEW r \in Readers, GetStep(r) \/ \E j \in Keys : GetActive(r, j)
      PROVE  Hidden
  BY <1>4 DEF GetStep, GetActive, GetImm, GetSst
<1>5. ASSUME UNCHANGED vars PROVE Hidden
  BY <1>5 DEF vars
<1>6. Hidden
  <2> HIDE DEF Hidden
  <2>1. QED
    BY <1>1, <1>2, <1>3, <1>4, <1>5 DEF Next, ClientStep
<1>7. StatusBar' = StatusBar /\ AppliedBar' = AppliedBar
  BY <1>6, OpsSame
<1>8. \A k \in Keys : View(k)' = View(k)
  BY ViewSame
<1>9. KvBar' = KvBar
  BY <1>8, KvSame
<1>10. QED
  BY <1>7, <1>9

\* Every behaviour of put, delete, batch_put, flush, compact and crash recovery
\* is one of the map that the StorageEngine trait promises, if no two clients
\* write the same key.
THEOREM WritePathImplementsKVStore ==
  ASSUME SafeUse, OneWriterPerKey
  PROVE  Spec => ImplementsKVStore
<1>1. Init => KV!Init
  <2> SUFFICES ASSUME Init PROVE KV!Init
    OBVIOUS
  <2>1. TypeOK /\ FlushInv
    BY InitIInv DEF WritePathIInv
  <2>2. OneImmView
    BY <2>1, ViewOne
  <2>3. \A k \in Keys : View(k) = {None}
    BY <2>2 DEF Init, OneImmView, EmptyMemtable, SstGet, SstHits
  <2>4. KvBar = [k \in Keys |-> None]
    BY <2>3 DEF KvBar
  <2>5. \A o \in Ops : RunBy(o) = {}
    BY OpsAssumption DEF Init, RunBy
  <2>6. StatusBar = [o \in Ops |-> "new"] /\ AppliedBar = [o \in Ops |-> {}]
    BY <2>5 DEF Init, StatusBar, AppliedBar
  <2>7. QED
    BY <2>4, <2>6 DEF KV!Init
<1>2. RefineIInv /\ RefineIInv' /\ [Next]_vars => [KV!Next]_(KV!vars)
  <2> SUFFICES ASSUME RefineIInv, RefineIInv', [Next]_vars
               PROVE  [KV!Next]_(KV!vars)
    OBVIOUS
  <2>0. /\ WritePathIInv /\ TypeOK /\ OpInv /\ GuardInv /\ FlushInv /\ StampInv
        /\ TypeOK' /\ FlushInv' /\ StampInv'
    BY DEF RefineIInv, WritePathIInv
  <2>1. ASSUME NEW c \in Clients, NEW o \in Ops, Begin(c, o) PROVE KV!Next
    <3>1. \A k \in Keys : View(k)' = View(k)
      BY <2>1 DEF Begin, View, ImmGet, ImmHits, SstGet, SstNewest, SstHits
    <3>2. KV!Call(o)
      BY <2>0, <2>1, <3>1, KvSame, BeginCalls
    <3>3. QED
      BY <3>2 DEF KV!Next
  <2>2. ASSUME NEW c \in Clients, Return(c) PROVE KV!Next
    <3>1. \A k \in Keys : View(k)' = View(k)
      BY <2>2 DEF Return, View, ImmGet, ImmHits, SstGet, SstNewest, SstHits
    <3>2. KV!ReturnOk(cur[c])
      BY <2>0, <2>2, <3>1, KvSame, ReturnReturns
    <3>3. cur[c] \in Ops
      BY <2>0, <2>2, RunningBar DEF Return
    <3>4. QED
      BY <3>2, <3>3 DEF KV!Next
  <2>3. ASSUME NEW c \in Clients, NEW k \in Keys, ApplyItem(c, k) PROVE KV!Next
    <3>1. KV!TakeEffect(cur[c], k)
      BY <2>0, <2>3, ApplyTakesEffect
    <3>2. cur[c] \in Ops
      BY <2>0, <2>3, RunningBar DEF ApplyItem
    <3>3. QED
      BY <3>1, <3>2 DEF KV!Next
  <2>4. CASE CrashRestart
    BY <2>0, <2>4, CrashCrashes DEF KV!Next
  <2>5. CASE /\ ~CrashRestart
             /\ ~\E c \in Clients : \/ Return(c)
                                    \/ \E o \in Ops : Begin(c, o)
                                    \/ \E k \in Keys : ApplyItem(c, k)
    BY <2>0, <2>5, OtherStepsHidden DEF KV!vars
  <2>6. QED
    BY <2>1, <2>2, <2>3, <2>4, <2>5
<1>3. QED
  BY <1>1, <1>2, RefinementInvariant, PTL DEF Spec, KV!Spec, ImplementsKVStore

-----------------------------------------------------------------------------
(* Failing writes.                                                         *)

\* A get finds an entry wherever there is one.
LEMMA PresentIsRead ==
  ASSUME TypeOK, NEW k \in Keys, Present(k)
  PROVE  None \notin View(k)
<1>1. CASE active[k] # None
  BY <1>1 DEF View
<1>2. ASSUME ImmHits(k) # {} PROVE ImmGet(k) # None
  <2>1. ImmHits(k) \in SUBSET Nat
    BY DEF ImmHits, TypeOK
  <2>2. \E i \in ImmHits(k) : \A j \in ImmHits(k) : i <= j
    BY <1>2, <2>1, LeastNat
  <2>3. (CHOOSE i \in ImmHits(k) : \A j \in ImmHits(k) : i <= j) \in ImmHits(k)
    BY <2>2
  <2>4. QED
    BY <1>2, <2>3 DEF ImmGet, ImmHits
<1>3. CASE active[k] = None /\ \E i \in 1..Len(imm) : imm[i][k] # None
  <2>1. ImmHits(k) # {}
    BY <1>3 DEF ImmHits
  <2>2. QED
    BY <1>2, <1>3, <2>1 DEF View
<1>4. CASE /\ active[k] = None /\ \A i \in 1..Len(imm) : imm[i][k] = None
           /\ \E f \in l0 : f.data[k] # None
  <2>1. ImmGet(k) = None
    BY <1>4 DEF ImmGet, ImmHits
  <2>2. SstHits(l0, k) # {}
    BY <1>4 DEF SstHits
  <2>3. None \notin SstGet(l0, k)
    BY <2>2 DEF SstGet, SstNewest, SstHits
  <2>4. QED
    BY <1>4, <2>1, <2>3 DEF View
<1>5. QED
  BY <1>1, <1>3, <1>4 DEF Present

\* operation_guard stays with who flushes, failing writes included.
LEMMA FlushGuardStep ==
  ASSUME NoCrashUse, TypeOK, OpInv, FlushGuardInv, [Next]_vars
  PROVE  FlushGuardInv'
<1> USE TasksAssumption DEF FlushGuardInv, InFlush, CanShare
<1>0. pc \in [Tasks -> Label] /\ guardW \in {None, Admin}
  BY DEF TypeOK
<1>1. ASSUME NEW c \in Clients, NEW o \in Ops, Begin(c, o) PROVE FlushGuardInv'
  BY <1>0, <1>1 DEF Begin
<1>2. ASSUME NEW c \in Clients, NEW k \in Keys, LogItem(c, k) PROVE FlushGuardInv'
  BY <1>0, <1>2 DEF LogItem
<1>3. ASSUME NEW c \in Clients, LogFails(c) PROVE FlushGuardInv'
  BY <1>0, <1>3 DEF LogFails, ReleaseGuard
<1>4. ASSUME NEW c \in Clients, NEW k \in Keys, ApplyItem(c, k) PROVE FlushGuardInv'
  BY <1>0, <1>4 DEF ApplyItem, ReleaseGuard
<1>5. ASSUME NEW c \in Clients, CheckFull(c) \/ Return(c) PROVE FlushGuardInv'
  BY <1>0, <1>5 DEF CheckFull, Return
<1>6. CASE QueueExclusive
  BY <1>0, <1>6 DEF QueueExclusive
<1>7. CASE AcquireExclusive
  BY <1>0, <1>7 DEF AcquireExclusive
<1>8. ASSUME NEW t \in Closers, BeginShutdown(t) PROVE FlushGuardInv'
  BY <1>0, <1>8 DEF BeginShutdown
<1>9. ASSUME NEW t \in Tasks, Swap(t) PROVE FlushGuardInv'
  BY <1>0, <1>9 DEF Swap, AfterFlush
<1>10. ASSUME NEW t \in Tasks, Clone(t) PROVE FlushGuardInv'
  BY <1>0, <1>10 DEF Clone, LeaveFlush, ReleaseGuard, AfterFlush
<1>11. ASSUME NEW t \in Tasks, WriteFile(t) \/ Publish(t) PROVE FlushGuardInv'
  BY <1>0, <1>11 DEF WriteFile, Publish
<1>12. ASSUME NEW t \in Tasks, FlushFails(t) PROVE FlushGuardInv'
  BY <1>0, <1>12 DEF FlushFails, ReleaseGuard
<1>13. ASSUME NEW t \in Tasks, Remove(t) PROVE FlushGuardInv'
  BY <1>0, <1>13 DEF Remove, LeaveFlush, ReleaseGuard, AfterFlush
<1>14. ASSUME NEW t \in Tasks, Truncate(t) PROVE FlushGuardInv'
  BY <1>0, <1>14 DEF Truncate, ReleaseGuard
<1>15. CASE SkipTruncate
  BY <1>0, <1>15 DEF SkipTruncate, ReleaseGuard
<1>16. ASSUME NEW r \in Readers, NEW k \in Keys, GetActive(r, k) PROVE FlushGuardInv'
  BY <1>0, <1>16 DEF GetActive
<1>17. ASSUME NEW r \in Readers, GetStep(r) PROVE FlushGuardInv'
  <2>1. UNCHANGED <<guardW, pc>> /\ (guardR' = guardR \/ guardR' = guardR \ {r})
    BY <1>17 DEF GetStep, GetImm, GetSst, Answer
  <2>2. QED
    BY <1>0, <2>1
<1>18. ~CrashRestart
  BY DEF NoCrashUse, CrashRestart, TypeOK
<1>19. CASE UNCHANGED vars
  BY <1>19 DEF vars
<1>20. QED
  BY <1>1, <1>2, <1>3, <1>4, <1>5, <1>6, <1>7, <1>8, <1>9, <1>10, <1>11, <1>12, <1>13, <1>14, <1>15, <1>16, <1>17, <1>18, <1>19
     DEF Next, ClientStep, FlushStep

\* A step outside the flush steps, or one that gives a flush up.
LEMMA SlotFrame ==
  ASSUME SlotInv, UNCHANGED <<imm, slot, sst, l0>>,
         \A t \in Tasks : pc'[t] = pc[t] \/ ~InFlush(t)'
  PROVE  SlotInv'
<1>1. \A t \in Tasks : InFlush(t)' => pc'[t] = pc[t] /\ InFlush(t)
  BY DEF InFlush
<1>2. \A t \in Tasks : pc'[t] \in {"write", "publish", "remove"} => pc'[t] = pc[t]
  BY <1>1 DEF InFlush
<1>3. QED
  BY <1>1, <1>2 DEF SlotInv

\* Nobody else is inside a flush when one begins.
LEMMA FlushBegins ==
  ASSUME NoCrashUse, TypeOK, OpInv, FlushGuardInv, NEW t \in Tasks, Swap(t)
  PROVE  \A u \in Tasks : ~InFlush(u)
<1> USE TasksAssumption DEF InFlush
<1>1. pc[t] = "flush" /\ (t # Admin => guardW = None)
  BY DEF Swap, CanShare
<1>2. ASSUME NEW u \in Tasks, InFlush(u) PROVE FALSE
  <2>1. CASE t = Admin
    BY <1>1, <1>2, <2>1 DEF FlushGuardInv
  <2>2. CASE t # Admin
    <3>1. t \in Flushers \cup Closers
      BY <1>1, <2>2 DEF OpInv
    <3>2. u # Admin
      BY <1>1, <1>2, <2>2 DEF FlushGuardInv
    <3>3. u \in Flushers \cup Closers
      BY <1>2, <3>2 DEF OpInv
    <3>4. QED
      BY <1>1, <1>2, <3>1, <3>3 DEF NoCrashUse
  <2>3. QED
    BY <2>1, <2>2
<1>3. QED
  BY <1>2

\* The index of a flush keeps pointing at its memtable, although failed
\* flushes leave theirs in the list.
LEMMA SlotStep ==
  ASSUME NoCrashUse, TypeOK, OpInv, FlushGuardInv, SlotInv, [Next]_vars
  PROVE  SlotInv'
<1> USE TasksAssumption
<1>0. /\ pc \in [Tasks -> Label] /\ imm \in Seq(Memtable) /\ Len(imm) \in Nat
      /\ sst \in [Tasks -> SSTable] /\ slot \in [Tasks -> Nat \ {0}]
  BY DEF TypeOK
<1>1. ASSUME NEW c \in Clients, (\E o \in Ops : Begin(c, o)) \/ LogFails(c)
      PROVE  SlotInv'
  BY <1>0, <1>1, SlotFrame DEF Begin, LogFails, InFlush
<1>2. ASSUME NEW c \in Clients, ClientStep(c) PROVE SlotInv'
  BY <1>0, <1>2, SlotFrame DEF ClientStep, LogItem, ApplyItem, CheckFull, Return, InFlush
<1>3. CASE QueueExclusive \/ AcquireExclusive \/ SkipTruncate
             \/ \E t \in Closers : BeginShutdown(t)
  BY <1>0, <1>3, SlotFrame
  DEF QueueExclusive, AcquireExclusive, SkipTruncate, BeginShutdown, InFlush
<1>4. ASSUME NEW t \in Tasks, Truncate(t) \/ FlushFails(t) PROVE SlotInv'
  BY <1>0, <1>4, SlotFrame DEF Truncate, FlushFails, InFlush
<1>5. ASSUME NEW r \in Readers, (\E k \in Keys : GetActive(r, k)) \/ GetStep(r)
      PROVE  SlotInv'
  <2>1. UNCHANGED <<imm, slot, sst, l0, pc>>
    BY <1>5 DEF GetActive, GetStep, GetImm, GetSst
  <2>2. QED
    BY <2>1, SlotFrame
<1>6. ASSUME NEW t \in Tasks, Swap(t) PROVE SlotInv'
  <2>1. \A u \in Tasks : ~InFlush(u)
    BY <1>6, FlushBegins
  <2>2. CASE active = EmptyMemtable
    <3>1. UNCHANGED <<imm, slot, sst, l0>> /\ pc' = [pc EXCEPT ![t] = AfterFlush(t)]
      BY <1>6, <2>2 DEF Swap
    <3>2. \A u \in Tasks : pc'[u] = pc[u] \/ ~InFlush(u)'
      BY <1>0, <3>1 DEF InFlush, AfterFlush
    <3>3. QED
      BY <3>1, <3>2, SlotFrame
  <2>3. CASE active # EmptyMemtable
    <3>1. /\ imm' = Append(imm, active) /\ slot' = [slot EXCEPT ![t] = Len(imm) + 1]
          /\ pc' = [pc EXCEPT ![t] = "clone"] /\ UNCHANGED <<sst, l0>>
      BY <1>6, <2>3 DEF Swap
    <3>2. Len(imm') = Len(imm) + 1 /\ slot'[t] = Len(imm) + 1 /\ pc'[t] = "clone"
      BY <1>0, <3>1 DEF TypeOK
    <3>3. \A u \in Tasks : InFlush(u)' => u = t
      BY <1>0, <2>1, <3>1 DEF InFlush
    <3>4. \A u \in Tasks : pc'[u] \notin {"write", "publish", "remove"}
      BY <3>2, <3>3 DEF InFlush
    <3>5. QED
      BY <1>0, <3>2, <3>3, <3>4 DEF SlotInv
  <2>4. QED
    BY <2>2, <2>3
<1>7. ASSUME NEW t \in Tasks, Clone(t) PROVE SlotInv'
  <2>1. pc[t] = "clone" /\ InFlush(t) /\ slot[t] = Len(imm) /\ Len(imm) > 0
    BY <1>7 DEF SlotInv, InFlush, Clone
  <2>2. /\ sst' = [sst EXCEPT ![t] = [ts |-> seq, data |-> imm[slot[t]]]]
        /\ pc' = [pc EXCEPT ![t] = "write"] /\ UNCHANGED <<imm, l0, slot>>
    BY <1>0, <1>7, <2>1 DEF Clone
  <2>3. pc'[t] = "write" /\ sst'[t].data = imm[slot[t]]
    BY <1>0, <2>2
  <2>4. \A u \in Tasks : u # t => ~InFlush(u) /\ pc'[u] = pc[u]
    BY <1>0, <2>1, <2>2 DEF SlotInv
  <2>5. \A u \in Tasks : InFlush(u)' => u = t
    BY <2>4 DEF InFlush
  <2>6. \A u \in Tasks : pc'[u] \in {"write", "publish", "remove"} => u = t
    BY <2>5 DEF InFlush
  <2>7. QED
    BY <2>1, <2>2, <2>3, <2>5, <2>6 DEF SlotInv
<1>8. ASSUME NEW t \in Tasks, WriteFile(t) \/ Publish(t) PROVE SlotInv'
  <2>1. /\ pc[t] \in {"write", "publish"} /\ UNCHANGED <<imm, slot, sst>>
        /\ pc'[t] \in {"publish", "remove"}
        /\ l0 \subseteq l0' /\ (pc'[t] = "remove" => sst[t] \in l0')
        /\ \A u \in Tasks : u # t => pc'[u] = pc[u]
    BY <1>0, <1>8 DEF WriteFile, Publish
  <2>2. \A u \in Tasks : InFlush(u)' => InFlush(u)
    BY <2>1 DEF InFlush
  <2>3. QED
    BY <2>1, <2>2 DEF SlotInv
<1>9. ASSUME NEW t \in Tasks, Remove(t) PROVE SlotInv'
  <2>1. pc' = [pc EXCEPT ![t] = AfterFlush(t)] /\ InFlush(t)
    BY <1>9 DEF Remove, InFlush
  <2>2. \A u \in Tasks : ~InFlush(u)'
    BY <1>0, <2>1 DEF SlotInv, InFlush, AfterFlush
  <2>3. \A u \in Tasks : pc'[u] \notin {"write", "publish", "remove"}
    BY <2>2 DEF InFlush
  <2>4. QED
    BY <2>2, <2>3 DEF SlotInv
<1>10. ~CrashRestart
  BY DEF NoCrashUse, CrashRestart, TypeOK
<1>11. CASE UNCHANGED vars
  BY <1>11, SlotFrame DEF vars
<1>12. QED
  BY <1>1, <1>2, <1>3, <1>4, <1>5, <1>6, <1>7, <1>8, <1>9, <1>10, <1>11
     DEF Next, FlushStep

\* An entry that is in a memtable or a file of level 0 stays in one: a flush
\* removes a memtable only once its file is published.
LEMMA PresentKept ==
  ASSUME NoCrashUse, TypeOK, OpInv, FlushGuardInv, SlotInv, [Next]_vars,
         NEW k \in Keys, Present(k)
  PROVE  Present(k)'
<1> USE TasksAssumption
<1>0. imm \in Seq(Memtable) /\ Len(imm) \in Nat /\ active \in Memtable
  BY DEF TypeOK
<1>1. CASE UNCHANGED <<active, imm, l0>>
  BY <1>1 DEF Present
<1>2. ASSUME NEW c \in Clients, NEW j \in Keys, ApplyItem(c, j) PROVE Present(k)'
  <2>1. active' = [active EXCEPT ![j] = cur[c]] /\ UNCHANGED <<imm, l0>>
        /\ cur[c] # None
    BY <1>2 DEF ApplyItem, OpInv
  <2>2. active[k] # None => active'[k] # None
    BY <1>0, <2>1 DEF Memtable
  <2>3. QED
    BY <2>1, <2>2 DEF Present
<1>3. ASSUME NEW t \in Tasks, Swap(t), active # EmptyMemtable PROVE Present(k)'
  <2>1. imm' = Append(imm, active) /\ l0' = l0
    BY <1>3 DEF Swap
  <2>2. /\ Len(imm') = Len(imm) + 1 /\ imm'[Len(imm) + 1] = active
        /\ \A i \in 1..Len(imm) : imm'[i] = imm[i]
    BY <1>0, <2>1
  <2>3. Len(imm) + 1 \in 1..Len(imm') /\ 1..Len(imm) \subseteq 1..Len(imm')
    BY <1>0, <2>2
  <2>4. QED
    BY <2>1, <2>2, <2>3 DEF Present
<1>4. ASSUME NEW t \in Tasks, Publish(t) PROVE Present(k)'
  BY <1>4 DEF Publish, Present
<1>5. ASSUME NEW t \in Tasks, Remove(t) PROVE Present(k)'
  <2>1. /\ slot[t] = Len(imm) /\ Len(imm) > 0 /\ sst[t] \in l0
        /\ sst[t].data = imm[Len(imm)]
    BY <1>5 DEF SlotInv, InFlush, Remove
  <2>2. UNCHANGED <<active, l0>> /\ imm' = RemoveAtSlot(imm, Len(imm))
    BY <1>5, <2>1 DEF Remove
  <2>3. Len(imm') = Len(imm) - 1 /\ \A i \in 1..(Len(imm) - 1) : imm'[i] = imm[i]
    BY <1>0, <2>1, <2>2 DEF RemoveAtSlot
  <2>4. \A i \in 1..Len(imm) : i = Len(imm) \/ i \in 1..(Len(imm) - 1)
    BY <1>0
  <2>5. QED
    BY <2>1, <2>2, <2>3, <2>4 DEF Present
<1>6. \/ UNCHANGED <<active, imm, l0>>
      \/ \E c \in Clients, j \in Keys : ApplyItem(c, j)
      \/ \E t \in Tasks : (Swap(t) /\ active # EmptyMemtable) \/ Publish(t) \/ Remove(t)
  <2>1. ~CrashRestart
    BY DEF NoCrashUse, CrashRestart, TypeOK
  <2>2. QED
    BY <2>1
    DEF Next, vars, ClientStep, FlushStep, GetStep, Begin, LogItem, LogFails,
        CheckFull, Return, QueueExclusive, AcquireExclusive, BeginShutdown, Swap,
        Clone, WriteFile, FlushFails, Truncate, SkipTruncate, GetActive, GetImm, GetSst
<1>7. QED
  BY <1>1, <1>2, <1>3, <1>4, <1>5, <1>6

\* What has been applied stays somewhere.
LEMMA PresentStep ==
  ASSUME NoCrashUse, ReadableIInv, [Next]_vars
  PROVE  PresentInv'
<1> USE DEF ReadableIInv
<1>1. SUFFICES ASSUME NEW k \in Keys, NEW w \in AppliedOps(k)', k \in KeysOf[w]
               PROVE  Present(k)'
  BY DEF PresentInv
<1>2. CASE \E c \in Clients : ApplyItem(c, k)
  <2>1. PICK c \in Clients : ApplyItem(c, k)
    BY <1>2
  <2>2. active'[k] # None
    BY <2>1 DEF ApplyItem, OpInv, TypeOK, Memtable
  <2>3. QED
    BY <2>2 DEF Present
<1>3. ASSUME NEW c \in Clients, NEW j \in Keys, ApplyItem(c, j), j # k
      PROVE  Present(k)'
  <2>1. UNCHANGED <<acked, cur>> /\ todo' = [todo EXCEPT ![c] = @ \ {j}]
        /\ pc[c] = "apply"
    BY <1>3 DEF ApplyItem
  <2>2. \A d \in Clients : /\ k \notin todo'[d] => k \notin todo[d]
                           /\ d # c => pc'[d] = pc[d]
    BY <1>3, <2>1 DEF ApplyItem, TypeOK
  <2>3. w \in AppliedOps(k)
    BY <1>1, <2>1, <2>2 DEF AppliedOps
  <2>4. QED
    BY <1>1, <2>3, PresentKept DEF PresentInv
<1>4. CASE ~\E c \in Clients, j \in Keys : ApplyItem(c, j)
  <2>1. w \in AppliedOps(k)
    BY <1>1, <1>4, AppliedSame
  <2>2. QED
    BY <1>1, <2>1, PresentKept DEF PresentInv
<1>5. QED
  BY <1>2, <1>3, <1>4

\* Even when SSTable and log writes fail, beside TTL writes and shutdown(), an
\* acknowledged key never vanishes from reads; nor does it in a crash, under
\* SafeUse.
THEOREM AckedReadable ==
  ASSUME NoCrashUse \/ SafeUse
  PROVE  Spec => []AckedKeysStayReadable
<1>1. CASE NoCrashUse
  <2>1. Init => ReadableIInv
    <3> SUFFICES ASSUME Init PROVE ReadableIInv
      OBVIOUS
    <3>1. FlushGuardInv /\ SlotInv
      BY TasksAssumption DEF Init, FlushGuardInv, SlotInv, InFlush
    <3>2. PresentInv
      BY DEF Init, PresentInv, AppliedOps
    <3>3. QED
      BY <3>1, <3>2, InitType DEF ReadableIInv
  <2>2. ReadableIInv /\ [Next]_vars => ReadableIInv'
    <3> SUFFICES ASSUME ReadableIInv, [Next]_vars PROVE ReadableIInv'
      OBVIOUS
    <3>1. TypeOK /\ OpInv /\ FlushGuardInv /\ SlotInv
      BY DEF ReadableIInv
    <3>2. QED
      BY <1>1, <3>1, NextType, FlushGuardStep, SlotStep, PresentStep DEF ReadableIInv
  <2>3. ReadableIInv => AckedKeysStayReadable
    <3> SUFFICES ASSUME ReadableIInv, NEW w \in acked, NEW k \in KeysOf[w]
                 PROVE  None \notin View(k)
      BY DEF AckedKeysStayReadable
    <3>1. TypeOK /\ k \in Keys /\ w \in AppliedOps(k)
      BY OpsAssumption DEF ReadableIInv, TypeOK, AppliedOps
    <3>2. QED
      BY <3>1, PresentIsRead DEF ReadableIInv, PresentInv
  <2>4. QED
    BY <2>1, <2>2, <2>3, PTL DEF Spec
<1>2. CASE SafeUse
  <2>1. WritePathIInv => AckedKeysStayReadable
    <3> SUFFICES ASSUME WritePathIInv, NEW w \in acked, NEW k \in KeysOf[w]
                 PROVE  None \notin View(k)
      BY DEF AckedKeysStayReadable
    <3>1. k \in Keys /\ w \in AppliedOps(k)
      BY OpsAssumption DEF WritePathIInv, TypeOK, AppliedOps
    <3>2. QED
      BY <3>1 DEF WritePathIInv, ReadInv, Fresh
  <2>2. QED
    BY <1>2, <2>1, InductiveInvariant, PTL
<1>3. QED
  BY <1>1, <1>2
=============================================================================
