--------------------------- MODULE FrameWalProofs ---------------------------
(***************************************************************************)
(* Proofs about FrameWal, for any number of keys, files, writes, calls,    *)
(* crashes and errors, with group commit and without, with and without a   *)
(* wait for durability.                                                    *)
(***************************************************************************)
EXTENDS FrameWal, SequenceTheorems, FiniteSetTheorems, WellFoundedInduction,
        TLAPS

\* A non-empty set of naturals has a least element.
LEMMA LeastNat ==
  ASSUME NEW S \in SUBSET Nat, S # {}
  PROVE  \E m \in S : \A j \in S : m <= j
<1>1. PICK m \in S : \A j \in S : ~(<<j, m>> \in OpToRel(<, Nat))
  BY NatLessThanWellFounded, WFMin
<1>2. \A j \in S : ~(j < m)
  BY <1>1 DEF OpToRel
<1>3. QED
  BY <1>2

\* A bounded non-empty set of naturals has a greatest element, which is what
\* Max returns.
LEMMA MaxNat ==
  ASSUME NEW S \in SUBSET Nat, S # {}, NEW n \in Nat, \A x \in S : x <= n
  PROVE  Max(S) \in S /\ \A x \in S : x <= Max(S)
<1> DEFINE D == {d \in Nat : n - d \in S}
<1>1. D \in SUBSET Nat /\ D # {}
  <2>1. PICK x \in S : TRUE
    OBVIOUS
  <2>2. n - x \in Nat /\ n - (n - x) = x
    BY <2>1
  <2>3. QED
    BY <2>1, <2>2
<1>2. PICK m \in D : \A d \in D : m <= d
  <2> HIDE DEF D
  <2>1. QED
    BY <1>1, LeastNat
<1>3. n - m \in S
  BY <1>2
<1>4. ASSUME NEW x \in S PROVE n - m >= x
  <2>1. n - x \in Nat /\ n - (n - x) = x
    BY <1>4
  <2>2. m <= n - x
    BY <1>2, <1>4, <2>1
  <2>3. QED
    BY <1>1, <1>2, <1>4, <2>1, <2>2
<1>5. \E x \in S : \A y \in S : x >= y
  BY <1>3, <1>4
<1>6. Max(S) \in S /\ \A y \in S : Max(S) >= y
  BY <1>5 DEF Max
<1>7. QED
  BY <1>6

-----------------------------------------------------------------------------
(* Where the caller is: its step and the steps it has still to do.         *)

Caller == pc["caller"]
Committer == pc["committer"]

\* The steps of batch_write_entries and write_entry, rotation included.
Batch == {"check", "write", "rewrite", "try", "retry", "rotate", "bump"}
Steps == Batch \cup {"rest", "down", "take", "enqueue", "notify", "await",
                     "done", "own", "ckpt", "sync", "publish", "mark", "close",
                     "remove", "renew"}

\* What the caller may have before it: of a write, ...
PNone == <<>>
PDone == <<"done">>
POwn == <<"own", "done">>
\* ... of flush_wal() and flush(), ...
PSync == <<"sync">>
PFlush == <<"sync", "publish", "close", "remove", "renew">>
PPublish == <<"publish", "close", "remove", "renew">>
PWipe == <<"close", "remove", "renew">>
PRemove == <<"remove", "renew">>
PRenew == <<"renew">>
\* ... and of shutdown().
PStop == <<"sync", "publish", "mark">>
PLeave == <<"publish", "mark">>
PMark == <<"mark">>
PCkpt == <<"ckpt", "take", "sync", "close", "remove", "renew">>
PTake == <<"take", "sync", "close", "remove", "renew">>
PLast == <<"sync", "close", "remove", "renew">>
Plans == {PNone, PDone, POwn, PSync, PFlush, PPublish, PWipe, PRemove, PRenew,
          PStop, PLeave, PMark, PCkpt, PTake, PLast}

\* Which step goes with which rest.
RouteOK ==
  \/ /\ plan = PNone
     /\ \/ Caller \in {"rest", "down", "enqueue", "notify", "await", "done",
                       "sync", "mark", "renew"}
        \/ Caller \in {"rotate", "bump"} /\ ret["caller"] = "rest"
  \/ plan = PDone /\ Caller \in {"own"} \cup Batch
  \/ plan \in {POwn, PSync, PFlush, PStop, PCkpt} /\ Caller \in {"take"} \cup Batch
  \/ plan \in {PPublish, PLeave} /\ Caller = "sync"
  \/ plan = PWipe /\ Caller \in {"publish", "sync"}
  \/ plan = PRemove /\ Caller = "close"
  \/ plan = PRenew /\ Caller = "remove"
  \/ plan = PMark /\ Caller = "publish"
  \/ plan = PTake /\ Caller \in {"ckpt"} \cup Batch
  \/ plan = PLast /\ Caller \in {"ckpt", "take"} \cup Batch

\* Each plan by its length and its first step, and what is left after that.
LEMMA PlanFacts ==
  /\ Len(PNone) = 0 /\ PNone = <<>>
  /\ Len(PDone) = 1 /\ Head(PDone) = "done" /\ Tail(PDone) = PNone
  /\ Len(POwn) = 2 /\ Head(POwn) = "own" /\ Tail(POwn) = PDone
  /\ Len(PSync) = 1 /\ Head(PSync) = "sync" /\ Tail(PSync) = PNone
  /\ Len(PFlush) = 5 /\ Head(PFlush) = "sync" /\ Tail(PFlush) = PPublish
  /\ Len(PPublish) = 4 /\ Head(PPublish) = "publish" /\ Tail(PPublish) = PWipe
  /\ Len(PWipe) = 3 /\ Head(PWipe) = "close" /\ Tail(PWipe) = PRemove
  /\ Len(PRemove) = 2 /\ Head(PRemove) = "remove" /\ Tail(PRemove) = PRenew
  /\ Len(PRenew) = 1 /\ Head(PRenew) = "renew" /\ Tail(PRenew) = PNone
  /\ Len(PStop) = 3 /\ Head(PStop) = "sync" /\ Tail(PStop) = PLeave
  /\ Len(PLeave) = 2 /\ Head(PLeave) = "publish" /\ Tail(PLeave) = PMark
  /\ Len(PMark) = 1 /\ Head(PMark) = "mark" /\ Tail(PMark) = PNone
  /\ Len(PCkpt) = 6 /\ Head(PCkpt) = "ckpt" /\ Tail(PCkpt) = PTake
  /\ Len(PTake) = 5 /\ Head(PTake) = "take" /\ Tail(PTake) = PLast
  /\ Len(PLast) = 4 /\ Head(PLast) = "sync" /\ Tail(PLast) = PWipe
  BY DEF PNone, PDone, POwn, PSync, PFlush, PPublish, PWipe, PRemove, PRenew,
         PStop, PLeave, PMark, PCkpt, PTake, PLast

\* No two of them are the same.
LEMMA PlansDiffer ==
  /\ PNone \notin {PDone, POwn, PSync, PFlush, PPublish, PWipe, PRemove,
                   PRenew, PStop, PLeave, PMark, PCkpt, PTake, PLast}
  /\ PDone \notin {POwn, PSync, PFlush, PPublish, PWipe, PRemove, PRenew,
                   PStop, PLeave, PMark, PCkpt, PTake, PLast}
  /\ POwn \notin {PSync, PFlush, PPublish, PWipe, PRemove, PRenew, PStop,
                  PLeave, PMark, PCkpt, PTake, PLast}
  /\ PSync \notin {PFlush, PPublish, PWipe, PRemove, PRenew, PStop, PLeave,
                   PMark, PCkpt, PTake, PLast}
  /\ PFlush \notin {PPublish, PWipe, PRemove, PRenew, PStop, PLeave, PMark,
                    PCkpt, PTake, PLast}
  /\ PPublish \notin {PWipe, PRemove, PRenew, PStop, PLeave, PMark, PCkpt,
                      PTake, PLast}
  /\ PWipe \notin {PRemove, PRenew, PStop, PLeave, PMark, PCkpt, PTake, PLast}
  /\ PRemove \notin {PRenew, PStop, PLeave, PMark, PCkpt, PTake, PLast}
  /\ PRenew \notin {PStop, PLeave, PMark, PCkpt, PTake, PLast}
  /\ PStop \notin {PLeave, PMark, PCkpt, PTake, PLast}
  /\ PLeave \notin {PMark, PCkpt, PTake, PLast}
  /\ PMark \notin {PCkpt, PTake, PLast}
  /\ PCkpt \notin {PTake, PLast}
  /\ PTake \notin {PLast}
<1>1. PNone \notin {PDone, POwn, PSync, PFlush, PPublish, PWipe, PRemove,
                    PRenew, PStop, PLeave, PMark, PCkpt, PTake, PLast}
  <2>1. PNone = <<>>
    BY PlanFacts
  <2>2. /\ PDone # <<>> /\ POwn # <<>> /\ PSync # <<>> /\ PFlush # <<>>
        /\ PPublish # <<>> /\ PWipe # <<>> /\ PRemove # <<>> /\ PRenew # <<>>
        /\ PStop # <<>> /\ PLeave # <<>> /\ PMark # <<>> /\ PCkpt # <<>>
        /\ PTake # <<>> /\ PLast # <<>>
    BY DEF PDone, POwn, PSync, PFlush, PPublish, PWipe, PRemove, PRenew, PStop,
           PLeave, PMark, PCkpt, PTake, PLast
  <2>3. QED
    BY <2>1, <2>2
<1>2. PDone \notin {POwn, PSync, PFlush, PPublish, PWipe, PRemove, PRenew,
                    PStop, PLeave, PMark, PCkpt, PTake, PLast}
  BY PlanFacts
<1>3. POwn \notin {PSync, PFlush, PPublish, PWipe, PRemove, PRenew, PStop,
                   PLeave, PMark, PCkpt, PTake, PLast}
  BY PlanFacts
<1>4. PSync \notin {PFlush, PPublish, PWipe, PRemove, PRenew, PStop, PLeave,
                    PMark, PCkpt, PTake, PLast}
  BY PlanFacts
<1>5. PFlush \notin {PPublish, PWipe, PRemove, PRenew, PStop, PLeave, PMark,
                     PCkpt, PTake, PLast}
  BY PlanFacts
<1>6. PPublish \notin {PWipe, PRemove, PRenew, PStop, PLeave, PMark, PCkpt,
                       PTake, PLast}
  BY PlanFacts
<1>7. PWipe \notin {PRemove, PRenew, PStop, PLeave, PMark, PCkpt, PTake, PLast}
  BY PlanFacts
<1>8. PRemove \notin {PRenew, PStop, PLeave, PMark, PCkpt, PTake, PLast}
  BY PlanFacts
<1>9. PRenew \notin {PStop, PLeave, PMark, PCkpt, PTake, PLast}
  BY PlanFacts
<1>10. PStop \notin {PLeave, PMark, PCkpt, PTake, PLast}
  BY PlanFacts
<1>11. PLeave \notin {PMark, PCkpt, PTake, PLast}
  BY PlanFacts
<1>12. PMark \notin {PCkpt, PTake, PLast}
  BY PlanFacts
<1>13. PCkpt \notin {PTake, PLast}
  BY PlanFacts
<1>14. PTake \notin {PLast}
  BY PlanFacts
<1>15. QED
  BY <1>1, <1>2, <1>3, <1>4, <1>5, <1>6, <1>7, <1>8, <1>9, <1>10, <1>11, <1>12, <1>13, <1>14

\* One step put before others, and a sequence taken apart like that.
LEMMA Prefixed ==
  ASSUME NEW S, NEW x \in S, NEW s \in Seq(S)
  PROVE  <<x>> \o s \in Seq(S) /\ Head(<<x>> \o s) = x /\ Tail(<<x>> \o s) = s
  OBVIOUS

\* A sequence is its first element and the rest.
LEMMA FirstAndRest ==
  ASSUME NEW S, NEW x \in S, NEW s \in Seq(S), NEW t \in Seq(S), t # <<>>,
         Head(t) = x, Tail(t) = s
  PROVE  <<x>> \o s = t
<1>1. /\ Len(t) = Len(s) + 1 /\ t[1] = x
      /\ \A i \in 1..Len(s) : t[i + 1] = s[i]
  OBVIOUS
<1>2. PICK u : u = <<x>> \o s
  OBVIOUS
<1>3. /\ u \in Seq(S) /\ Len(u) = Len(s) + 1 /\ u[1] = x
      /\ \A i \in 1..Len(s) : u[i + 1] = s[i]
  <2>1. <<x>> \in Seq(S) /\ Len(<<x>>) = 1
    OBVIOUS
  <2>2. QED
    BY <1>2, <2>1, ConcatProperties
<1>4. ASSUME NEW i \in 1..Len(u) PROVE u[i] = t[i]
  <2>1. CASE i = 1
    BY <2>1, <1>1, <1>3
  <2>2. CASE i # 1
    <3>1. i - 1 \in 1..Len(s) /\ i = (i - 1) + 1
      BY <2>2, <1>3, <1>4
    <3>2. PICK j \in 1..Len(s) : i = j + 1
      BY <3>1
    <3>3. QED
      BY <3>2, <1>1, <1>3
  <2>3. QED
    BY <2>1, <2>2
<1>5. QED
  BY <1>1, <1>2, <1>3, <1>4, SeqEqual

\* Joining sequences associates.
LEMMA Rejoined ==
  ASSUME NEW S
  PROVE  \A a, b, c \in Seq(S) : (a \o b) \o c = a \o (b \o c)
<1>1. ASSUME NEW a \in Seq(S), NEW b \in Seq(S), NEW c \in Seq(S)
      PROVE  (a \o b) \o c = a \o (b \o c)
  BY ConcatAssociative
<1>2. QED
  BY <1>1

\* ... to a sequence.
LEMMA Joined ==
  ASSUME NEW S, NEW a \in Seq(S), NEW b \in Seq(S)
  PROVE  a \o b \in Seq(S)
  BY ConcatProperties

\* The calls that administer begin with these steps, and shutdown() goes on
\* with these.
LEMMA CallPlans ==
  /\ IfGroup(<<"take">>) \o <<"own", "done">>
       = IF group THEN <<"take">> \o POwn ELSE POwn
  /\ IfGroup(<<"take">>) \o <<"sync">>
       = IF group THEN <<"take">> \o PSync ELSE PSync
  /\ IfGroup(<<"take">>) \o <<"sync", "publish">> \o Wipe
       = IF group THEN <<"take">> \o PFlush ELSE PFlush
  /\ IfGroup(<<"take">>) \o <<"sync", "publish", "mark">>
       = IF group THEN <<"take">> \o PStop ELSE PStop
  /\ IfGroup(<<"take">>) \o <<"ckpt">> \o IfGroup(<<"take">>) \o <<"sync">> \o Wipe
       = IF group THEN <<"take">> \o PCkpt ELSE <<"ckpt">> \o PLast
<1>1. /\ POwn \in Seq(Steps) /\ PSync \in Seq(Steps) /\ PFlush \in Seq(Steps)
      /\ PStop \in Seq(Steps) /\ PCkpt \in Seq(Steps) /\ PLast \in Seq(Steps)
      /\ PTake \in Seq(Steps) /\ PPublish \in Seq(Steps) /\ PWipe \in Seq(Steps)
      /\ PWipe = Wipe
  BY DEF POwn, PSync, PFlush, PStop, PCkpt, PLast, PTake, PPublish, PWipe, Wipe,
         Steps, Batch
<1>2. "take" \in Steps /\ "sync" \in Steps /\ "publish" \in Steps /\ "ckpt" \in Steps
  BY DEF Steps, Batch
<1>3. PICK tk : tk = <<"take">> /\ tk \in Seq(Steps)
  <2>1. <<"take">> \in Seq(Steps)
    BY <1>2
  <2>2. QED
    BY <2>1
<1>4. PICK sy : sy = <<"sync">> /\ sy \in Seq(Steps)
  <2>1. <<"sync">> \in Seq(Steps)
    BY <1>2
  <2>2. QED
    BY <2>1
<1>5. PICK pb : pb = <<"publish">> /\ pb \in Seq(Steps)
  <2>1. <<"publish">> \in Seq(Steps)
    BY <1>2
  <2>2. QED
    BY <2>1
<1>6. PICK sp : sp = <<"sync", "publish">> /\ sp \in Seq(Steps)
  <2>1. <<"sync", "publish">> \in Seq(Steps)
    BY <1>2
  <2>2. QED
    BY <2>1
<1>7. PICK ck : ck = <<"ckpt">> /\ ck \in Seq(Steps)
  <2>1. <<"ckpt">> \in Seq(Steps)
    BY <1>2
  <2>2. QED
    BY <2>1
<1>8. PICK ig : ig = (IF group THEN tk ELSE <<>>) /\ ig \in Seq(Steps)
  <2>1. (IF group THEN tk ELSE <<>>) \in Seq(Steps)
    BY <1>3
  <2>2. QED
    BY <2>1, Zenon
<1>9. PICK w \in Seq(Steps) : w = PWipe
  BY <1>1
<1>0. \A x, y, z \in Seq(Steps) : (x \o y) \o z = x \o (y \o z)
  BY Rejoined
<1>10. ig = IfGroup(<<"take">>)
  BY <1>3, <1>8 DEF IfGroup
<1>11. ASSUME NEW s \in Seq(Steps) PROVE ig \o s = IF group THEN tk \o s ELSE s
  BY <1>8, ConcatEmptySeq
<1>12. sp \o w = PFlush /\ sy \o w = PLast /\ tk \o PLast = PTake /\ ck \o PTake = PCkpt
  <2>1. Head(sp) = "sync" /\ Tail(sp) = pb /\ sp # <<>>
    BY <1>5, <1>6
  <2>2. sy \o pb = sp
    BY <1>2, <1>4, <1>5, <1>6, <2>1, FirstAndRest
  <2>3. PPublish # <<>> /\ Head(PPublish) = "publish" /\ Tail(PPublish) = w
    BY <1>9 DEF PPublish, PWipe
  <2>4. pb \o w = PPublish
    BY <1>1, <1>2, <1>5, <2>3, FirstAndRest
  <2>5. PFlush # <<>> /\ Head(PFlush) = "sync" /\ Tail(PFlush) = PPublish
    BY DEF PPublish, PFlush
  <2>6. sy \o PPublish = PFlush
    BY <1>1, <1>2, <1>4, <2>5, FirstAndRest
  <2>7. PLast # <<>> /\ Head(PLast) = "sync" /\ Tail(PLast) = w
    BY <1>9 DEF PLast, PWipe
  <2>8. sy \o w = PLast
    BY <1>1, <1>2, <1>4, <2>7, FirstAndRest
  <2>9. PTake # <<>> /\ Head(PTake) = "take" /\ Tail(PTake) = PLast
    BY DEF PTake, PLast
  <2>10. tk \o PLast = PTake
    BY <1>1, <1>2, <1>3, <2>9, FirstAndRest
  <2>11. PCkpt # <<>> /\ Head(PCkpt) = "ckpt" /\ Tail(PCkpt) = PTake
    BY DEF PCkpt, PTake
  <2>12. ck \o PTake = PCkpt
    BY <1>1, <1>2, <1>7, <2>11, FirstAndRest
  <2>13. (sy \o pb) \o w = sy \o (pb \o w)
    BY <1>4, <1>5, <1>9, <1>0, Zenon
  <2>14. QED
    BY <2>2, <2>4, <2>6, <2>8, <2>10, <2>12, <2>13
<1>13. (ig \o sp) \o w = ig \o PFlush
  <2>1. (ig \o sp) \o w = ig \o (sp \o w)
    BY <1>6, <1>8, <1>9, <1>0, Zenon
  <2>2. QED
    BY <1>12, <2>1
<1>14. (((ig \o ck) \o ig) \o sy) \o w
         = IF group THEN tk \o PCkpt ELSE ck \o PLast
  <2>1. (((ig \o ck) \o ig) \o sy) \o w = ig \o (ck \o (ig \o (sy \o w)))
    <3>1. PICK a : a = ig \o ck
      OBVIOUS
    <3>2. PICK b : b = a \o ig
      OBVIOUS
    <3>3. PICK c : c = sy \o w
      OBVIOUS
    <3>4. PICK d : d = ig \o c
      OBVIOUS
    <3>5. a \in Seq(Steps) /\ c \in Seq(Steps)
      BY <1>4, <1>7, <1>8, <1>9, <3>1, <3>3, Joined
    <3>6. b \in Seq(Steps) /\ d \in Seq(Steps)
      BY <1>8, <3>2, <3>4, <3>5, Joined
    <3>7. (b \o sy) \o w = b \o (sy \o w)
      BY <1>0, <1>4, <1>9, <3>6, Zenon
    <3>8. (a \o ig) \o c = a \o (ig \o c)
      <4>1. a \in Seq(Steps) /\ ig \in Seq(Steps) /\ c \in Seq(Steps)
        BY <1>8, <3>5
      <4>2. QED
        BY <1>0, <4>1, Zenon
    <3>9. (ig \o ck) \o d = ig \o (ck \o d)
      <4>1. ig \in Seq(Steps) /\ ck \in Seq(Steps)
        BY <1>7, <1>8
      <4>2. QED
        BY <1>0, <3>6, <4>1, Zenon
    <3>10. QED
      BY <3>1, <3>2, <3>3, <3>4, <3>7, <3>8, <3>9
  <2>2. ig \o PLast = IF group THEN PTake ELSE PLast
    BY <1>1, <1>11, <1>12
  <2>3. PICK u \in Seq(Steps) : u = ck \o (ig \o PLast)
    BY <1>1, <1>7, <2>2, Joined
  <2>4. ig \o u = IF group THEN tk \o u ELSE u
    BY <1>11
  <2>5. QED
    BY <1>12, <2>1, <2>2, <2>3, <2>4
<1>15. POwn = <<"own", "done">> /\ PSync = <<"sync">>
       /\ PStop = <<"sync", "publish", "mark">>
  BY DEF POwn, PSync, PStop
<1>16. QED
  BY <1>1, <1>3, <1>4, <1>6, <1>7, <1>9, <1>10, <1>11, <1>13, <1>14, <1>15

USE FrameAssumption, GroupCommitAssumption
USE DEF config, groupVars, segVars, procVars, dataVars, bounds, Ids, Procs

-----------------------------------------------------------------------------
(* Types and control: what holds whatever the configuration.               *)

PutType == [kind : {"put"}, key : Keys, ver : Nat \ {0}, ts : 1..MaxTime]
CkptType == [kind : {"ckpt"}, key : {None}, ver : {0}, ts : 1..MaxTime]
LogType == PutType \cup CkptType

QueueTypes ==
  /\ group \in BOOLEAN /\ wait \in BOOLEAN
  /\ pending \in Seq(PutType) /\ timed \in BOOLEAN /\ permit \in BOOLEAN
  /\ task \in {"off", "look", "idle", "armed", "count", "flush"}
SegmentTypes ==
  /\ file \in [Ids -> Seq(LogType)] /\ disk \in SUBSET Ids
  /\ torn \in SUBSET Ids /\ current \in Ids \cup {0}
  /\ segments \in SUBSET (Nat \X Nat) /\ counter \in Nat \ {0}
ProcessTypes ==
  /\ pc \in [Procs -> Steps]
  /\ ret \in [Procs -> {"rest", "write", "rewrite", "retry"}]
  /\ ents \in [Procs -> Seq(LogType)] /\ plan \in Plans
  /\ op \in PutType \cup {NoOp} /\ reply \in {"none", "ok", "err"}
  /\ listed \in SUBSET Ids
DataTypes ==
  /\ sst \in [Keys -> Nat] /\ mem \in [Keys -> Nat] /\ truth \in [Keys -> Nat]
  /\ ver \in Nat
RunTypes ==
  /\ now \in 1..MaxTime /\ past \in SUBSET Circumstances
  /\ admin \in Nat /\ crashes \in Nat /\ errors \in Nat

FrameTypes ==
  QueueTypes /\ SegmentTypes /\ ProcessTypes /\ DataTypes /\ RunTypes

\* A write is under way from its call to its return; it is the last one, and
\* the clock stands still meanwhile.
CallOK ==
  /\ op # NoOp <=> \/ Caller \in {"enqueue", "notify", "await", "done"}
                   \/ plan \in {PDone, POwn}
  /\ op # NoOp => op.ver = ver /\ op.ts = now

\* write_entry writes a single record: the caller's own, without group commit,
\* or a checkpoint.
Single == Caller \in {"try", "retry"} \/ ret["caller"] = "retry"

\* A process holds records only while it writes them, and a place to return
\* to only while it rotates.
BatchOK ==
  /\ \A p \in Procs : pc[p] \notin Batch => ents[p] = <<>>
  /\ \A p \in Procs : pc[p] \notin {"rotate", "bump"} => ret[p] = "rest"
  /\ Caller \in {"rotate", "bump"} /\ ret["caller"] = "rest" =>
       plan = PNone /\ ents["caller"] = <<>>
  /\ Committer \in {"rest", "check", "write", "rewrite", "rotate", "bump"}
  /\ ret["committer"] # "retry"
  /\ Committer \in {"rotate", "bump"} => ret["committer"] # "rest"
  /\ ents["committer"] \in Seq(PutType)
  /\ plan = PDone /\ Caller \in Batch => ents["caller"] = <<op>>
  /\ Single => \/ plan = PDone /\ ~group
               \/ /\ plan \in {PTake, PLast}
                  /\ \E c \in CkptType : ents["caller"] = <<c>>

\* The answer is for one who waits, the list of files for truncate_after_flush.
\* Without group commit its task is not there; after a crash nothing is.
RestOK ==
  /\ reply # "none" => wait /\ Caller \in {"notify", "await"}
  /\ Caller # "remove" => listed = {}
  /\ ~group => /\ task = "off" /\ Committer = "rest" /\ pending = <<>>
               /\ plan \notin {POwn, PCkpt, PTake}
               /\ Caller \notin {"take", "enqueue", "notify", "await"}
  /\ Caller = "down" => /\ current = 0 /\ segments = {} /\ task = "off"
                        /\ Committer = "rest" /\ pending = <<>>

\* Between the publication of the SSTable and the end of the truncation the
\* memtables are empty.
AfterPublish ==
  \/ plan = PWipe /\ Caller = "sync"
  \/ plan \in {PRemove, PRenew, PCkpt, PTake, PLast}
  \/ Caller \in {"mark", "renew"}
  \/ plan = PNone /\ Caller \in {"rotate", "bump"}
PubOK == AfterPublish => mem = NoVersion

\* No acknowledged version is ahead of the last one.
TruthOK == \A k \in Keys : truth[k] <= ver

Control == RouteOK /\ CallOK /\ BatchOK /\ RestOK /\ PubOK /\ TruthOK

\* What follows a step, by the plan.
After(step, rest) ==
  \/ plan = PNone /\ step = "rest" /\ rest = PNone
  \/ plan = PDone /\ step = "done" /\ rest = PNone
  \/ plan = POwn /\ step = "own" /\ rest = PDone
  \/ plan = PSync /\ step = "sync" /\ rest = PNone
  \/ plan = PFlush /\ step = "sync" /\ rest = PPublish
  \/ plan = PPublish /\ step = "publish" /\ rest = PWipe
  \/ plan = PWipe /\ step = "close" /\ rest = PRemove
  \/ plan = PRemove /\ step = "remove" /\ rest = PRenew
  \/ plan = PRenew /\ step = "renew" /\ rest = PNone
  \/ plan = PStop /\ step = "sync" /\ rest = PLeave
  \/ plan = PLeave /\ step = "publish" /\ rest = PMark
  \/ plan = PMark /\ step = "mark" /\ rest = PNone
  \/ plan = PCkpt /\ step = "ckpt" /\ rest = PTake
  \/ plan = PTake /\ step = "take" /\ rest = PLast
  \/ plan = PLast /\ step = "sync" /\ rest = PWipe

\* The caller advances along its plan.
LEMMA AdvanceFacts ==
  ASSUME FrameTypes, Advance("caller")
  PROVE  \E step \in Steps :
           /\ pc' = [pc EXCEPT !["caller"] = step] /\ plan' \in Plans
           /\ task' = task /\ After(step, plan')
<1>1. plan \in Plans
  BY DEF FrameTypes, ProcessTypes
<1>2. /\ pc' = [pc EXCEPT !["caller"] = IF plan = <<>> THEN "rest" ELSE Head(plan)]
      /\ plan' = IF plan = <<>> THEN plan ELSE Tail(plan)
      /\ task' = task
  BY DEF Advance
<1>3. CASE plan = PNone
  BY <1>2, <1>3, PlanFacts DEF After, Plans, Steps
<1>4. CASE plan # PNone
  <2>1. pc' = [pc EXCEPT !["caller"] = Head(plan)] /\ plan' = Tail(plan)
    BY <1>2, <1>4, PlanFacts
  <2>2. Tail(plan) \in Plans /\ Head(plan) \in Steps /\ After(Head(plan), Tail(plan))
    BY <1>1, <1>4, PlanFacts DEF After, Plans, Steps
  <2>3. QED
    BY <1>2, <2>1, <2>2
<1>5. QED
  BY <1>3, <1>4

\* Advancing, the caller stays on a route; what it does next belongs to the
\* same write, and to the same side of the publication.
LEMMA AdvanceControl ==
  ASSUME FrameTypes, RouteOK, CallOK, Advance("caller"),
         Caller \notin {"rest", "down", "enqueue", "notify", "await", "done"}
  PROVE  /\ RouteOK' /\ (UNCHANGED <<op, ver, now>> => CallOK')
         /\ Caller # "publish" => (AfterPublish' => AfterPublish)
         /\ Caller' \notin Batch \cup {"down", "enqueue", "notify", "await"}
         /\ Committer' = Committer /\ plan' \in Plans /\ task' = task
         /\ pc' \in [Procs -> Steps]
         /\ plan' \in {POwn, PCkpt, PTake} => plan \in {POwn, PCkpt, PTake}
         /\ Caller' = "take" => plan = PTake
<1>1. PICK step \in Steps : /\ pc' = [pc EXCEPT !["caller"] = step]
                            /\ plan' \in Plans /\ task' = task /\ After(step, plan')
  BY AdvanceFacts
<1>2. pc \in [Procs -> Steps]
  BY DEF FrameTypes, ProcessTypes
<1>3. Caller' = step /\ Committer' = Committer /\ pc' \in [Procs -> Steps]
  BY <1>1, <1>2 DEF Caller, Committer
<1>4. RouteOK'
  BY <1>1, <1>3 DEF RouteOK, After
<1>5. CallOK' \/ ~UNCHANGED <<op, ver, now>>
  BY <1>1, <1>3, PlansDiffer DEF RouteOK, After, CallOK, Batch
<1>6. Caller # "publish" => (AfterPublish' => AfterPublish)
  <2>1. SUFFICES ASSUME Caller # "publish", AfterPublish' PROVE AfterPublish
    OBVIOUS
  <2>2. CASE plan' = PWipe /\ step = "sync"
    <3>1. plan = PLast
      BY <1>1, <2>2, PlansDiffer DEF After
    <3>2. QED
      BY <3>1 DEF AfterPublish
  <2>3. CASE plan' \in {PRemove, PRenew, PCkpt, PTake, PLast}
    <3>1. plan \in {PWipe, PRemove, PCkpt, PTake}
      BY <1>1, <2>3, PlansDiffer DEF After
    <3>2. plan = PWipe => Caller = "sync"
      BY <2>1, PlansDiffer DEF RouteOK, Batch
    <3>3. QED
      BY <3>1, <3>2 DEF AfterPublish
  <2>4. CASE step \in {"mark", "renew"}
    <3>1. plan \in {PRenew, PMark}
      BY <1>1, <2>4, PlansDiffer DEF After
    <3>2. plan # PMark
      BY <2>1, PlansDiffer DEF RouteOK, Batch
    <3>3. QED
      BY <3>1, <3>2 DEF AfterPublish
  <2>5. CASE step \in {"rotate", "bump"}
    BY <1>1, <2>5 DEF After
  <2>6. QED
    BY <1>3, <2>1, <2>2, <2>3, <2>4, <2>5 DEF AfterPublish
<1>7. /\ Caller' \notin Batch \cup {"down", "enqueue", "notify", "await"}
      /\ plan' \in {POwn, PCkpt, PTake} => plan \in {POwn, PCkpt, PTake}
      /\ Caller' = "take" => plan = PTake
  <2>1. step \notin Batch \cup {"down", "enqueue", "notify", "await"}
    BY <1>1 DEF After, Batch
  <2>2. step = "take" => plan = PTake
    BY <1>1 DEF After
  <2>3. plan' \in {POwn, PCkpt, PTake} => plan = PCkpt
    BY <1>1, PlansDiffer DEF After
  <2>4. QED
    BY <1>3, <2>1, <2>2, <2>3
<1>8. QED
  BY <1>1, <1>3, <1>4, <1>5, <1>6, <1>7

\* The clock advances between calls, and before a checkpoint.
LEMMA TickControl ==
  ASSUME FrameTypes, Control, Tick
  PROVE  FrameTypes' /\ Control'
<1>1. FrameTypes'
  BY DEF Tick, FrameTypes, QueueTypes, SegmentTypes, ProcessTypes, DataTypes,
         RunTypes
<1>2. op = NoOp
  BY PlansDiffer DEF Tick, Control, RouteOK, CallOK, Caller, Batch
<1>3. RouteOK' /\ CallOK'
  BY <1>2 DEF Tick, Control, RouteOK, CallOK, Caller
<1>4. BatchOK'
  BY DEF Tick, Control, BatchOK, Caller, Committer, Single
<1>5. RestOK' /\ PubOK' /\ TruthOK'
  BY DEF Tick, Control, RestOK, PubOK, AfterPublish, TruthOK, Caller, Committer
<1>6. QED
  BY <1>1, <1>3, <1>4, <1>5 DEF Control

\* The records that are written.
LEMMA NewRecords ==
  ASSUME FrameTypes
  PROVE  /\ \A k \in Keys : LET r == Record("put", k, ver + 1)
                           IN  /\ r \in PutType /\ r # NoOp
                               /\ r.ver = ver + 1 /\ r.ts = now
         /\ Checkpoint \in CkptType
         /\ \A r \in PutType : r # NoOp /\ r \notin CkptType
<1>1. ver \in Nat /\ now \in 1..MaxTime /\ ver + 1 \in Nat \ {0}
  BY DEF FrameTypes, DataTypes, RunTypes
<1>2. \A k \in Keys : [kind |-> "put", key |-> k, ver |-> ver + 1, ts |-> now] \in PutType
  BY <1>1 DEF PutType
<1>3. [kind |-> "ckpt", key |-> None, ver |-> 0, ts |-> now] \in CkptType
  BY <1>1 DEF CkptType
<1>4. \A r \in PutType : r.kind = "put"
  BY DEF PutType
<1>5. (\A r \in CkptType : r.kind = "ckpt") /\ NoOp.kind = "none"
  BY DEF CkptType, NoOp
<1>6. QED
  BY <1>2, <1>3, <1>4, <1>5 DEF Record, Checkpoint

\* A put or delete begins.
LEMMA PutControl ==
  ASSUME FrameTypes, Control, NEW k \in Keys, Put(k)
  PROVE  FrameTypes' /\ Control'
<1>1. PICK r \in PutType : /\ r = Record("put", k, ver + 1) /\ r # NoOp
                          /\ r.ver = ver + 1 /\ r.ts = now
  BY NewRecords
<1>2. op' = r /\ ver' = ver + 1 /\ Caller = "rest" /\ ver \in Nat
  BY <1>1 DEF Put, Start, Caller, FrameTypes, DataTypes
<1>3. \/ /\ group /\ pc' = [pc EXCEPT !["caller"] = "enqueue"]
         /\ plan' = PNone /\ ents' = ents
      \/ /\ ~group /\ pc' = [pc EXCEPT !["caller"] = "try"]
         /\ plan' = PDone /\ ents' = [ents EXCEPT !["caller"] = <<r>>]
  BY <1>2 DEF Put, Start, PNone, PDone
<1>4. /\ \/ Caller' = "enqueue" /\ plan' = PNone /\ group /\ ents' = ents
         \/ /\ Caller' = "try" /\ plan' = PDone /\ ~group
            /\ ents'["caller"] = <<r>> /\ ents'["committer"] = ents["committer"]
      /\ Committer' = Committer
  BY <1>3 DEF FrameTypes, ProcessTypes, Caller, Committer
<1>5. FrameTypes'
  <2>1. <<r>> \in Seq(LogType)
    BY <1>1 DEF LogType
  <2>2. ents' \in [Procs -> Seq(LogType)]
    BY <1>3, <2>1 DEF FrameTypes, ProcessTypes
  <2>7. pc' \in [Procs -> Steps]
    BY <1>3 DEF FrameTypes, ProcessTypes, Steps, Batch
  <2>3. plan' \in Plans
    BY <1>3 DEF Plans
  <2>4. ProcessTypes'
    BY <1>1, <1>2, <2>2, <2>3, <2>7 DEF Put, FrameTypes, ProcessTypes
  <2>5. QueueTypes' /\ SegmentTypes' /\ DataTypes' /\ RunTypes'
    BY <1>2 DEF Put, FrameTypes, QueueTypes, SegmentTypes, DataTypes, RunTypes
  <2>6. QED
    BY <2>4, <2>5 DEF FrameTypes
<1>6. RouteOK' /\ CallOK'
  BY <1>1, <1>2, <1>4, PlansDiffer DEF Put, RouteOK, CallOK, Batch
<1>7. BatchOK'
  <2>1. ret' = ret /\ ret["caller"] = "rest" /\ ents["caller"] = <<>>
    BY <1>2 DEF Put, Control, BatchOK, Batch, Caller
  <2>2. /\ \A p \in Procs : pc'[p] \notin Batch => ents'[p] = <<>>
        /\ \A p \in Procs : pc'[p] \notin {"rotate", "bump"} => ret'[p] = "rest"
    BY <1>2, <1>4, <2>1 DEF Control, BatchOK, Batch, Caller, Committer
  <2>3. /\ Caller' \notin {"rotate", "bump"}
        /\ plan' = PDone => ents'["caller"] = <<op'>>
        /\ Single' => plan' = PDone /\ ~group'
    BY <1>2, <1>4, <2>1, PlansDiffer DEF Put, Single
  <2>4. UNCHANGED <<Committer, ret["committer"], ents["committer"]>>
    BY <1>4, <2>1
  <2>5. QED
    BY <2>2, <2>3, <2>4 DEF Control, BatchOK
<1>8. RestOK'
  BY <1>2, <1>4, PlansDiffer DEF Put, Control, RestOK, Caller
<1>9. PubOK' /\ TruthOK'
  <2>1. ~AfterPublish'
    BY <1>4, PlansDiffer DEF AfterPublish
  <2>2. TruthOK'
    BY <1>2 DEF Put, Control, TruthOK, FrameTypes, DataTypes
  <2>3. QED
    BY <2>1, <2>2 DEF PubOK
<1>10. QED
  BY <1>5, <1>6, <1>7, <1>8, <1>9 DEF Control

\* The caller writing a batch keeps its plan.
LEMMA InnerControl ==
  ASSUME RouteOK, CallOK, UNCHANGED <<plan, op, ver, now>>,
         Caller \in Batch \cup {"take", "own", "ckpt"}, Caller' \in Batch,
         Caller \in {"rotate", "bump"} /\ ret["caller"] = "rest" =>
           Caller' \in {"rotate", "bump"} /\ ret'["caller"] = "rest"
  PROVE  RouteOK' /\ CallOK' /\ (AfterPublish' => AfterPublish)
<1>1. RouteOK'
  BY PlansDiffer DEF RouteOK, Batch
<1>2. CallOK'
  BY PlansDiffer DEF CallOK, Batch
<1>3. AfterPublish' => AfterPublish
  BY PlansDiffer DEF AfterPublish, RouteOK, Batch
<1>4. QED
  BY <1>1, <1>2, <1>3

\* The type of what the caller's step and records become.
LEMMA ProcessTyped ==
  ASSUME ProcessTypes, NEW p \in Procs
  PROVE  /\ \A step \in Steps : [pc EXCEPT ![p] = step] \in [Procs -> Steps]
         /\ \A s \in Seq(LogType) : [ents EXCEPT ![p] = s] \in [Procs -> Seq(LogType)]
         /\ \A step \in {"rest", "write", "rewrite", "retry"} :
              [ret EXCEPT ![p] = step] \in [Procs -> {"rest", "write", "rewrite", "retry"}]
         /\ <<>> \in Seq(LogType)
         /\ \A s \in Seq(PutType) : s \in Seq(LogType)
  BY DEF ProcessTypes, LogType

\* A full segment, or one without room, sends a process to rotate.
LEMMA CheckControl ==
  ASSUME FrameTypes, Control, NEW p \in Procs, Check(p) \/ NoRoom(p)
  PROVE  FrameTypes' /\ Control'
<1>1. /\ pc[p] \in {"check", "write", "try"} /\ UNCHANGED <<plan, task>>
      /\ UNCHANGED <<config, pending, timed, permit, segVars, ents, op, reply,
                     listed, dataVars, now, past, bounds>>
      /\ \/ pc[p] = "check" /\ pc' = [pc EXCEPT ![p] = "write"] /\ ret' = ret
         \/ /\ pc[p] = "check" /\ pc' = [pc EXCEPT ![p] = "rotate"]
            /\ ret' = [ret EXCEPT ![p] = "write"]
         \/ /\ pc[p] = "write" /\ pc' = [pc EXCEPT ![p] = "rotate"]
            /\ ret' = [ret EXCEPT ![p] = "rewrite"]
         \/ /\ pc[p] = "try" /\ pc' = [pc EXCEPT ![p] = "rotate"]
            /\ ret' = [ret EXCEPT ![p] = "retry"]
  BY DEF Check, NoRoom, Move, ToRotate, Goto
<1>2. FrameTypes'
  <2>1. pc' \in [Procs -> Steps]
    BY <1>1, ProcessTyped DEF FrameTypes, Steps, Batch
  <2>2. ret' \in [Procs -> {"rest", "write", "rewrite", "retry"}]
    BY <1>1, ProcessTyped DEF FrameTypes, ProcessTypes
  <2>3. ProcessTypes'
    BY <1>1, <2>1, <2>2 DEF FrameTypes, ProcessTypes
  <2>4. QED
    BY <1>1, <2>3 DEF FrameTypes, QueueTypes, SegmentTypes, DataTypes, RunTypes
<1>3. pc \in [Procs -> Steps] /\ ret \in [Procs -> {"rest", "write", "rewrite", "retry"}]
  BY DEF FrameTypes, ProcessTypes
<1>4. \A q \in Procs : /\ pc'[q] \notin Batch => ents'[q] = <<>>
                       /\ pc'[q] \notin {"rotate", "bump"} => ret'[q] = "rest"
  BY <1>1, <1>3 DEF Control, BatchOK, Batch
<1>5. CASE p = "caller"
  <2>1. /\ Caller \in {"check", "write", "try"} /\ Caller' \in {"write", "rotate"}
        /\ Committer' = Committer /\ ret'["committer"] = ret["committer"]
        /\ Caller' = "rotate" => ret'["caller"] # "rest"
        /\ Caller # "try" => ret'["caller"] # "retry"
    BY <1>1, <1>3, <1>5 DEF Caller, Committer, Control, BatchOK
  <2>2. RouteOK' /\ CallOK' /\ (AfterPublish' => AfterPublish)
    BY <1>1, <2>1, InnerControl DEF Control, Batch
  <2>3. BatchOK'
    <3>1. Single' => Single
      BY <2>1 DEF Single
    <3>2. Caller \in Batch /\ Caller' \in Batch /\ Caller' # "bump"
      BY <2>1 DEF Batch
    <3>3. QED
      BY <1>1, <1>4, <2>1, <3>1, <3>2 DEF Control, BatchOK
  <2>4. RestOK'
    BY <1>1, <2>1 DEF Control, RestOK
  <2>5. QED
    BY <1>1, <1>2, <2>2, <2>3, <2>4 DEF Control, PubOK, TruthOK
<1>6. CASE p = "committer"
  <2>1. /\ Committer \in {"check", "write"} /\ Committer' \in {"write", "rotate"}
        /\ Caller' = Caller /\ ret'["caller"] = ret["caller"]
        /\ ret'["committer"] \in {"rest", "write", "rewrite"}
        /\ Committer' = "rotate" => ret'["committer"] # "rest"
    BY <1>1, <1>3, <1>6 DEF Caller, Committer, Control, BatchOK
  <2>2. RouteOK' /\ CallOK' /\ (AfterPublish' <=> AfterPublish)
    BY <1>1, <2>1 DEF Control, RouteOK, CallOK, AfterPublish
  <2>3. BatchOK'
    BY <1>1, <1>4, <2>1 DEF Control, BatchOK, Single
  <2>4. RestOK'
    BY <1>1, <2>1 DEF Control, RestOK
  <2>5. QED
    BY <1>1, <1>2, <2>2, <2>3, <2>4 DEF Control, PubOK, TruthOK
<1>7. QED
  BY <1>5, <1>6

\* What the committer does leaves the caller where it was.
LEMMA CommitterControl ==
  ASSUME Control, Caller' = Caller, ret'["caller"] = ret["caller"],
         UNCHANGED <<plan, op, ver, now, mem, truth>>
  PROVE  RouteOK' /\ CallOK' /\ PubOK' /\ TruthOK'
  BY DEF Control, RouteOK, CallOK, PubOK, AfterPublish, TruthOK

\* The types of a step that writes a batch or gives it up.
LEMMA AckTyped ==
  ASSUME FrameTypes, NEW p \in Procs, NEW result \in {"ok", "err"},
         SendAcks(p, result)
  PROVE  /\ reply' \in {"none", "ok", "err"}
         /\ reply' # reply => wait /\ Caller \in {"notify", "await"}
  BY DEF SendAcks, FrameTypes, ProcessTypes, Caller

\* The types of the caller's and the committer's advance.
LEMMA AdvanceTyped ==
  ASSUME FrameTypes, NEW p \in Procs, Advance(p)
  PROVE  /\ pc' \in [Procs -> Steps] /\ plan' \in Plans
         /\ task' \in {"off", "look", "idle", "armed", "count", "flush"}
         /\ p = "caller" => Committer' = Committer /\ task' = task
         /\ p = "committer" => /\ Committer' = "rest" /\ Caller' = Caller
                               /\ plan' = plan /\ task' = "look"
<1>1. CASE p = "caller"
  <2>1. \E step \in Steps : pc' = [pc EXCEPT !["caller"] = step] /\ plan' \in Plans
                            /\ task' = task
    BY <1>1, AdvanceFacts
  <2>2. QED
    BY <1>1, <2>1 DEF FrameTypes, ProcessTypes, QueueTypes, Committer
<1>2. CASE p = "committer"
  BY <1>2 DEF Advance, FrameTypes, ProcessTypes, Steps, Caller, Committer
<1>3. QED
  BY <1>1, <1>2

\* A batch, or a single record, is written.
LEMMA WriteControl ==
  ASSUME FrameTypes, Control, NEW p \in Procs, Write(p)
  PROVE  FrameTypes' /\ Control'
<1>1. /\ pc[p] \in {"write", "try", "rewrite", "retry"}
      /\ current # 0 /\ Advance(p) /\ SendAcks(p, "ok")
      /\ ents' = [ents EXCEPT ![p] = <<>>]
      /\ \/ file' = file
         \/ file' = [file EXCEPT ![current] = file[current] \o ents[p]]
      /\ UNCHANGED <<config, pending, timed, permit, disk, torn, current,
                     segments, counter, ret, op, listed, dataVars, now, past,
                     bounds>>
  BY DEF Write
<1>2. pc \in [Procs -> Steps] /\ ents \in [Procs -> Seq(LogType)]
  BY DEF FrameTypes, ProcessTypes
<1>3. FrameTypes'
  <2>1. file' \in [Ids -> Seq(LogType)]
    <3>1. current \in Ids /\ file \in [Ids -> Seq(LogType)] /\ ents[p] \in Seq(LogType)
      BY <1>1, <1>2 DEF FrameTypes, SegmentTypes
    <3>2. file[current] \o ents[p] \in Seq(LogType)
      BY <3>1, Joined
    <3>3. QED
      BY <1>1, <3>1, <3>2
  <2>2. SegmentTypes'
    BY <1>1, <2>1 DEF FrameTypes, SegmentTypes
  <2>3. ents' \in [Procs -> Seq(LogType)]
    BY <1>1, ProcessTyped DEF FrameTypes
  <2>4. ProcessTypes'
    BY <1>1, <2>3, AdvanceTyped, AckTyped DEF FrameTypes, ProcessTypes
  <2>5. QueueTypes'
    BY <1>1, AdvanceTyped DEF FrameTypes, QueueTypes
  <2>6. QED
    BY <1>1, <2>2, <2>4, <2>5 DEF FrameTypes, DataTypes, RunTypes
<1>4. ret[p] = "rest"
  BY <1>1 DEF Control, BatchOK
<1>5. CASE p = "caller"
  <2>1. Caller \in {"write", "try", "rewrite", "retry"} /\ reply' = reply
    BY <1>1, <1>5 DEF Caller, SendAcks
  <2>2. /\ Caller' \notin Batch \cup {"down", "enqueue", "notify", "await"}
        /\ Committer' = Committer /\ RouteOK' /\ CallOK'
        /\ AfterPublish' => AfterPublish
        /\ plan' \in {POwn, PCkpt, PTake} => plan \in {POwn, PCkpt, PTake}
        /\ Caller' = "take" => plan = PTake
        /\ pc' \in [Procs -> Steps] /\ task' = task
    BY <1>1, <1>5, <2>1, AdvanceControl DEF Control
  <2>3. BatchOK'
    <3>1. ents'["caller"] = <<>> /\ ents'["committer"] = ents["committer"]
      BY <1>1, <1>2, <1>5
    <3>2. ~Single' /\ Caller' \notin {"rotate", "bump"}
      BY <1>1, <1>4, <1>5, <2>2 DEF Single, Batch
    <3>3. \A q \in Procs : /\ pc'[q] \notin Batch => ents'[q] = <<>>
                           /\ ret'[q] = "rest" \/ pc'[q] \in {"rotate", "bump"}
      BY <1>1, <1>4, <1>5, <2>2, <3>1 DEF Control, BatchOK, Committer
    <3>4. QED
      BY <1>1, <2>2, <3>1, <3>2, <3>3 DEF Control, BatchOK
  <2>4. RestOK'
    BY <1>1, <2>1, <2>2 DEF Control, RestOK
  <2>5. QED
    BY <1>1, <1>3, <2>2, <2>3, <2>4 DEF Control, PubOK, TruthOK
<1>6. CASE p = "committer"
  <2>1. /\ Caller' = Caller /\ Committer' = "rest" /\ plan' = plan
        /\ ents'["caller"] = ents["caller"] /\ ents'["committer"] = <<>>
        /\ Committer # "rest" /\ task' = "look"
    BY <1>1, <1>2, <1>6, AdvanceTyped DEF Committer
  <2>2. RouteOK' /\ CallOK' /\ PubOK' /\ TruthOK'
    BY <1>1, <2>1, CommitterControl
  <2>3. BatchOK'
    <3>1. <<>> \in Seq(PutType) /\ ret["committer"] = "rest"
      BY <1>4, <1>6
    <3>2. \A q \in Procs : /\ pc'[q] \notin Batch => ents'[q] = <<>>
                           /\ ret'[q] = "rest" \/ pc'[q] \in {"rotate", "bump"}
      BY <1>1, <1>4, <1>6, <2>1 DEF Control, BatchOK, Caller, Committer
    <3>3. QED
      BY <1>1, <2>1, <3>1, <3>2 DEF Control, BatchOK, Single
  <2>4. RestOK'
    <3>1. reply' # "none" => wait /\ Caller \in {"notify", "await"}
      BY <1>1, AckTyped DEF Control, RestOK
    <3>2. group /\ Caller # "down"
      BY <2>1 DEF Control, RestOK
    <3>3. QED
      BY <1>1, <2>1, <3>1, <3>2 DEF Control, RestOK
  <2>5. QED
    BY <1>3, <2>2, <2>3, <2>4 DEF Control
<1>7. QED
  BY <1>5, <1>6

\* An error ends what the process was doing; shutdown() goes on to publish.
LEMMA FailControl ==
  ASSUME FrameTypes, Control, NEW p \in Procs, Fail(p), pc[p] # "rest",
         p = "caller" => Caller \notin {"notify", "await"}
  PROVE  /\ ProcessTypes' /\ QueueTypes' /\ DataTypes' /\ Control'
         /\ now' = now /\ admin' = admin /\ crashes' = crashes
<1>1. /\ SendAcks(p, "err") /\ ents' = [ents EXCEPT ![p] = <<>>]
      /\ ret' = [ret EXCEPT ![p] = "rest"]
      /\ UNCHANGED <<config, pending, timed, permit, dataVars, now, admin,
                     crashes>>
  BY DEF Fail
<1>2. /\ pc \in [Procs -> Steps] /\ ents \in [Procs -> Seq(LogType)]
      /\ ret \in [Procs -> {"rest", "write", "rewrite", "retry"}]
  BY DEF FrameTypes, ProcessTypes
<1>3. ents' \in [Procs -> Seq(LogType)] /\ ret' \in [Procs -> {"rest", "write", "rewrite", "retry"}]
  BY <1>1, ProcessTyped DEF FrameTypes
<1>4. CASE p = "caller"
  <2>1. /\ op' = NoOp /\ listed' = {} /\ task' = task
        /\ \/ pc' = [pc EXCEPT !["caller"] = "publish"] /\ plan' = PMark
           \/ pc' = [pc EXCEPT !["caller"] = "rest"] /\ plan' = PNone
    BY <1>4 DEF Fail, PMark, PNone
  <2>2. /\ \/ Caller' = "publish" /\ plan' = PMark
           \/ Caller' = "rest" /\ plan' = PNone
        /\ Committer' = Committer /\ pc' \in [Procs -> Steps] /\ plan' \in Plans
    BY <1>2, <2>1 DEF Caller, Committer, Steps, Plans
  <2>3. reply' = reply
    BY <1>1, <1>4 DEF SendAcks, Caller
  <2>4. ProcessTypes' /\ QueueTypes' /\ DataTypes'
    BY <1>1, <1>3, <2>1, <2>2, <2>3
       DEF FrameTypes, ProcessTypes, QueueTypes, DataTypes
  <2>5. RouteOK' /\ CallOK' /\ ~AfterPublish'
    BY <2>1, <2>2, PlansDiffer DEF RouteOK, CallOK, AfterPublish
  <2>6. BatchOK'
    <3>1. /\ ents'["caller"] = <<>> /\ ents'["committer"] = ents["committer"]
          /\ ret'["caller"] = "rest" /\ ret'["committer"] = ret["committer"]
      BY <1>1, <1>2, <1>4
    <3>2. ~Single' /\ Caller' \notin Batch
      BY <2>2, <3>1 DEF Single, Batch
    <3>3. \A q \in Procs : /\ pc'[q] \notin Batch => ents'[q] = <<>>
                           /\ ret'[q] = "rest" \/ pc'[q] \in {"rotate", "bump"}
      BY <2>2, <3>1 DEF Control, BatchOK, Committer
    <3>4. QED
      BY <2>2, <3>1, <3>2, <3>3 DEF Control, BatchOK, Batch
  <2>7. RestOK'
    BY <1>1, <1>4, <2>1, <2>2, <2>3, PlansDiffer DEF Control, RestOK
  <2>8. QED
    BY <1>1, <2>4, <2>5, <2>6, <2>7 DEF Control, PubOK, TruthOK
<1>5. CASE p = "committer"
  <2>1. /\ Advance("committer") /\ op' = op /\ listed' = listed
    BY <1>5 DEF Fail
  <2>2. /\ Caller' = Caller /\ Committer' = "rest" /\ plan' = plan
        /\ ents'["caller"] = ents["caller"] /\ ents'["committer"] = <<>>
        /\ ret'["caller"] = ret["caller"] /\ ret'["committer"] = "rest"
        /\ Committer # "rest" /\ task' = "look"
        /\ pc' \in [Procs -> Steps]
    BY <1>1, <1>2, <1>5, <2>1, AdvanceTyped DEF Committer
  <2>3. ProcessTypes' /\ QueueTypes' /\ DataTypes'
    BY <1>1, <1>3, <2>1, <2>2, AckTyped DEF FrameTypes, ProcessTypes, QueueTypes, DataTypes
  <2>4. RouteOK' /\ CallOK' /\ PubOK' /\ TruthOK'
    BY <1>1, <2>1, <2>2, CommitterControl
  <2>5. BatchOK'
    <3>1. <<>> \in Seq(PutType)
      OBVIOUS
    <3>2. \A q \in Procs : /\ pc'[q] \notin Batch => ents'[q] = <<>>
                           /\ ret'[q] = "rest" \/ pc'[q] \in {"rotate", "bump"}
      BY <2>2 DEF Control, BatchOK, Caller, Committer
    <3>3. QED
      BY <1>1, <2>1, <2>2, <3>1, <3>2 DEF Control, BatchOK, Single
  <2>6. RestOK'
    <3>1. reply' # "none" => wait /\ Caller \in {"notify", "await"}
      BY <1>1, AckTyped DEF Control, RestOK
    <3>2. group /\ Caller # "down"
      BY <2>2 DEF Control, RestOK
    <3>3. QED
      BY <1>1, <2>1, <2>2, <3>1, <3>2 DEF Control, RestOK
  <2>7. QED
    BY <1>1, <2>3, <2>4, <2>5, <2>6 DEF Control
<1>6. QED
  BY <1>4, <1>5

\* What an error is known to leave behind.
LEMMA RemnantsTyped ==
  ASSUME past \in SUBSET Circumstances
  PROVE  /\ past \cup Remnants \in SUBSET Circumstances
         /\ past \cup Remnants \cup {"torn"} \in SUBSET Circumstances
         /\ past \cup {"cleanup"} \in SUBSET Circumstances
  BY DEF Remnants, Circumstances

\* Every fault ends like that, and leaves the types as they were.
LEMMA FaultControl ==
  ASSUME FrameTypes, Control
  PROVE  /\ \A p \in Procs :
              /\ Refused(p) => FrameTypes' /\ Control'
              /\ RotateFails(p) => FrameTypes' /\ Control'
              /\ \A n \in 0..MaxWrites, tail \in BOOLEAN :
                   WriteFails(p, n, tail) => FrameTypes' /\ Control'
         /\ Residue => FrameTypes' /\ Control'
         /\ AdminFails => FrameTypes' /\ Control'
<1>1. ASSUME NEW p \in Procs, Refused(p) PROVE FrameTypes' /\ Control'
  <2>1. Fail(p) /\ pc[p] \in {"write", "rewrite", "try", "retry"}
        /\ UNCHANGED <<segVars, past, errors>>
    BY <1>1 DEF Refused
  <2>2. /\ ProcessTypes' /\ QueueTypes' /\ DataTypes' /\ Control'
        /\ now' = now /\ admin' = admin /\ crashes' = crashes
    BY <2>1, FailControl DEF Caller
  <2>3. QED
    BY <2>1, <2>2 DEF FrameTypes, SegmentTypes, RunTypes
<1>2. ASSUME NEW p \in Procs, RotateFails(p) PROVE FrameTypes' /\ Control'
  <2>1. /\ Fail(p) /\ pc[p] = "rotate" /\ UNCHANGED <<file, disk, torn, counter>>
        /\ current' = 0 /\ segments' \in {segments, Tracked}
        /\ errors' = errors + 1 /\ past' = past \cup Remnants
    BY <1>2 DEF RotateFails
  <2>2. /\ ProcessTypes' /\ QueueTypes' /\ DataTypes' /\ Control'
        /\ now' = now /\ admin' = admin /\ crashes' = crashes
    BY <2>1, FailControl DEF Caller
  <2>3. SegmentTypes'
    BY <2>1 DEF FrameTypes, SegmentTypes, Tracked
  <2>4. RunTypes'
    BY <2>1, <2>2, RemnantsTyped DEF FrameTypes, RunTypes
  <2>5. QED
    BY <2>2, <2>3, <2>4 DEF FrameTypes
<1>3. ASSUME NEW p \in Procs, NEW n \in 0..MaxWrites, NEW tail \in BOOLEAN,
             WriteFails(p, n, tail)
      PROVE  FrameTypes' /\ Control'
  <2>1. /\ Fail(p) /\ pc[p] \in {"write", "try", "rewrite", "retry"}
        /\ UNCHANGED <<disk, current, segments, counter>> /\ current # 0
        /\ n <= Len(ents[p])
        /\ file' = [file EXCEPT ![current] = file[current] \o SubSeq(ents[p], 1, n)]
        /\ torn' = IF tail THEN torn \cup {current} ELSE torn
        /\ errors' = errors + 1
        /\ past' = past \cup Remnants \cup (IF tail THEN {"torn"} ELSE {})
    BY <1>3 DEF WriteFails, Writing, Partial
  <2>2. /\ ProcessTypes' /\ QueueTypes' /\ DataTypes' /\ Control'
        /\ now' = now /\ admin' = admin /\ crashes' = crashes
    BY <2>1, FailControl DEF Caller
  <2>3. SegmentTypes'
    <3>1. /\ current \in Ids /\ file \in [Ids -> Seq(LogType)]
          /\ ents[p] \in Seq(LogType) /\ torn \in SUBSET Ids
      BY <2>1 DEF FrameTypes, SegmentTypes, ProcessTypes
    <3>2. PICK part : part = SubSeq(ents[p], 1, n)
      OBVIOUS
    <3>3. part \in Seq(LogType)
      BY <2>1, <3>1, <3>2
    <3>4. file[current] \o part \in Seq(LogType)
      BY <3>1, <3>3, Joined
    <3>5. file' \in [Ids -> Seq(LogType)]
      BY <2>1, <3>1, <3>2, <3>4
    <3>6. torn' \in SUBSET Ids
      BY <2>1, <3>1
    <3>7. QED
      BY <2>1, <3>5, <3>6 DEF FrameTypes, SegmentTypes
  <2>4. RunTypes'
    BY <2>1, <2>2, RemnantsTyped DEF FrameTypes, RunTypes
  <2>5. QED
    BY <2>2, <2>3, <2>4 DEF FrameTypes
<1>4. ASSUME Residue \/ AdminFails PROVE FrameTypes' /\ Control'
  <2>1. /\ Fail("caller") /\ Caller \in {"renew", "sync", "remove"}
        /\ UNCHANGED segVars /\ past' = past \cup Remnants
        /\ errors' = errors \/ errors' = errors + 1
    BY <1>4 DEF Residue, AdminFails, Caller
  <2>2. /\ ProcessTypes' /\ QueueTypes' /\ DataTypes' /\ Control'
        /\ now' = now /\ admin' = admin /\ crashes' = crashes
    BY <2>1, FailControl DEF Caller
  <2>3. RunTypes'
    BY <2>1, <2>2, RemnantsTyped DEF FrameTypes, RunTypes
  <2>4. QED
    BY <2>1, <2>2, <2>3 DEF FrameTypes, SegmentTypes
<1>5. QED
  BY <1>1, <1>2, <1>3, <1>4

\* The queue is taken, and its entries are written if there are any.
LEMMA TakeControl ==
  ASSUME FrameTypes, Control, NEW p \in Procs, Take(p)
  PROVE  FrameTypes' /\ Control'
<1>1. /\ pending' = <<>> /\ timed' \in BOOLEAN
      /\ ents' = [ents EXCEPT ![p] = pending]
      /\ UNCHANGED <<config, permit, segVars, ret, op, reply, listed, dataVars,
                     now, past, bounds>>
      /\ IF pending = <<>> THEN Advance(p)
         ELSE pc' = [pc EXCEPT ![p] = "check"] /\ UNCHANGED <<plan, task>>
  BY DEF Take, TakeQueue, Goto, FrameTypes, QueueTypes
<1>2. /\ pc \in [Procs -> Steps] /\ ents \in [Procs -> Seq(LogType)]
      /\ ret \in [Procs -> {"rest", "write", "rewrite", "retry"}]
      /\ pending \in Seq(PutType) /\ pending \in Seq(LogType)
  BY ProcessTyped DEF FrameTypes, ProcessTypes, QueueTypes
<1>3. FrameTypes'
  <2>1. "check" \in Steps /\ ents' \in [Procs -> Seq(LogType)]
    BY <1>1, <1>2, ProcessTyped DEF FrameTypes, Steps, Batch
  <2>2. /\ pc' \in [Procs -> Steps] /\ plan' \in Plans
        /\ task' \in {"off", "look", "idle", "armed", "count", "flush"}
    BY <1>1, <2>1, ProcessTyped, AdvanceTyped DEF FrameTypes, ProcessTypes, QueueTypes
  <2>3. ProcessTypes'
    BY <1>1, <2>1, <2>2 DEF FrameTypes, ProcessTypes
  <2>4. QueueTypes'
    BY <1>1, <2>2 DEF FrameTypes, QueueTypes
  <2>5. QED
    BY <1>1, <2>3, <2>4 DEF FrameTypes, SegmentTypes, DataTypes, RunTypes
<1>4. CASE p = "caller"
  <2>1. Caller = "take"
    BY <1>4 DEF Take, Caller
  <2>2. /\ ents'["caller"] = pending /\ ents'["committer"] = ents["committer"]
        /\ ret["caller"] = "rest" /\ group
    BY <1>1, <1>2, <1>4, <2>1 DEF Control, BatchOK, RestOK, Caller
  <2>3. CASE pending = <<>>
    <3>1. /\ Caller' \notin Batch \cup {"down", "enqueue", "notify", "await"}
          /\ Committer' = Committer /\ RouteOK' /\ CallOK'
          /\ AfterPublish' => AfterPublish
          /\ pc' \in [Procs -> Steps] /\ task' = task
      BY <1>1, <1>4, <2>1, <2>3, AdvanceControl DEF Control
    <3>2. BatchOK'
      <4>1. ~Single' /\ Caller' \notin {"rotate", "bump"}
        BY <1>1, <2>2, <3>1 DEF Single, Batch
      <4>2. \A q \in Procs : /\ pc'[q] \notin Batch => ents'[q] = <<>>
                             /\ ret'[q] = "rest" \/ pc'[q] \in {"rotate", "bump"}
        BY <1>1, <2>2, <2>3, <3>1 DEF Control, BatchOK, Committer
      <4>3. QED
        BY <1>1, <2>2, <3>1, <4>1, <4>2 DEF Control, BatchOK
    <3>3. RestOK'
      BY <1>1, <2>1, <2>2, <3>1 DEF Control, RestOK
    <3>4. QED
      BY <1>1, <1>3, <3>1, <3>2, <3>3 DEF Control, PubOK, TruthOK
  <2>4. CASE pending # <<>>
    <3>1. /\ Caller' = "check" /\ Committer' = Committer
          /\ UNCHANGED <<plan, task, ret>>
      BY <1>1, <1>2, <1>4, <2>4 DEF Caller, Committer
    <3>2. RouteOK' /\ CallOK' /\ (AfterPublish' => AfterPublish)
      BY <1>1, <2>1, <3>1, InnerControl DEF Control, Batch
    <3>3. plan # PDone
      BY <2>1, PlansDiffer DEF Control, RouteOK, Batch
    <3>4. BatchOK'
      <4>1. ~Single'
        BY <2>2, <3>1 DEF Single
      <4>2. \A q \in Procs : /\ pc'[q] \notin Batch => ents'[q] = <<>>
                             /\ ret'[q] = "rest" \/ pc'[q] \in {"rotate", "bump"}
        BY <2>2, <3>1 DEF Control, BatchOK, Committer, Caller, Batch
      <4>3. QED
        BY <2>2, <3>1, <3>3, <4>1, <4>2 DEF Control, BatchOK
    <3>5. RestOK'
      BY <1>1, <2>1, <2>2, <3>1 DEF Control, RestOK
    <3>6. QED
      BY <1>1, <1>3, <3>2, <3>4, <3>5 DEF Control, PubOK, TruthOK
  <2>5. QED
    BY <2>3, <2>4
<1>5. CASE p = "committer"
  <2>1. Committer = "rest" /\ task = "flush"
    BY <1>5 DEF Take, Committer
  <2>2. /\ ents'["caller"] = ents["caller"] /\ ents'["committer"] = pending
        /\ ret["committer"] = "rest" /\ group /\ Caller # "down"
    BY <1>1, <1>2, <1>5, <2>1 DEF Control, BatchOK, RestOK, Committer
  <2>3. /\ Caller' = Caller /\ plan' = plan
        /\ \/ Committer' = "rest" /\ pending = <<>>
           \/ Committer' = "check"
    BY <1>1, <1>2, <1>5, AdvanceTyped DEF Caller, Committer
  <2>4. RouteOK' /\ CallOK' /\ PubOK' /\ TruthOK'
    BY <1>1, <2>3, CommitterControl
  <2>5. BatchOK'
    <3>1. \A q \in Procs : /\ pc'[q] \notin Batch => ents'[q] = <<>>
                           /\ ret'[q] = "rest" \/ pc'[q] \in {"rotate", "bump"}
      BY <1>1, <2>2, <2>3 DEF Control, BatchOK, Caller, Committer, Batch
    <3>2. QED
      BY <1>1, <1>2, <2>2, <2>3, <3>1 DEF Control, BatchOK, Single
  <2>6. RestOK'
    BY <1>1, <2>2, <2>3 DEF Control, RestOK
  <2>7. QED
    BY <1>3, <2>4, <2>5, <2>6 DEF Control
<1>6. QED
  BY <1>4, <1>5

\* A segment is replaced by the next one ...
LEMMA RotateControl ==
  ASSUME FrameTypes, Control, NEW p \in Procs, Rotate(p)
  PROVE  FrameTypes' /\ Control'
<1>1. /\ pc[p] = "rotate" /\ pc' = [pc EXCEPT ![p] = "bump"]
      /\ segments' = Tracked /\ current' = counter /\ counter <= MaxIds
      /\ OpenSegment(counter) /\ UNCHANGED <<plan, task>>
      /\ UNCHANGED <<config, pending, timed, permit, counter, ret, ents, op,
                     reply, listed, dataVars, now, past, bounds>>
  BY DEF Rotate, Goto
<1>2. pc \in [Procs -> Steps]
  BY DEF FrameTypes, ProcessTypes
<1>3. FrameTypes'
  <2>1. counter \in Ids
    BY <1>1 DEF FrameTypes, SegmentTypes
  <2>2. SegmentTypes'
    <3>1. file' \in [Ids -> Seq(LogType)] /\ disk' \in SUBSET Ids /\ torn' \in SUBSET Ids
      BY <1>1, <2>1 DEF OpenSegment, FrameTypes, SegmentTypes
    <3>2. segments' \in SUBSET (Nat \X Nat)
      BY <1>1 DEF Tracked, FrameTypes, SegmentTypes
    <3>3. QED
      BY <1>1, <2>1, <3>1, <3>2 DEF FrameTypes, SegmentTypes
  <2>3. pc' \in [Procs -> Steps]
    BY <1>1, <1>2 DEF Steps, Batch
  <2>4. QED
    BY <1>1, <2>2, <2>3 DEF FrameTypes, ProcessTypes, QueueTypes, DataTypes, RunTypes
<1>4. \A q \in Procs : /\ pc'[q] \notin Batch => ents'[q] = <<>>
                       /\ pc'[q] \notin {"rotate", "bump"} => ret'[q] = "rest"
  BY <1>1, <1>2 DEF Control, BatchOK, Batch
<1>5. CASE p = "caller"
  <2>1. /\ Caller = "rotate" /\ Caller' = "bump" /\ Committer' = Committer
    BY <1>1, <1>2, <1>5 DEF Caller, Committer
  <2>2. RouteOK' /\ CallOK' /\ (AfterPublish' => AfterPublish)
    BY <1>1, <2>1, InnerControl DEF Control, Batch
  <2>3. BatchOK'
    <3>1. Single' => Single
      BY <1>1, <2>1 DEF Single
    <3>2. Caller \in Batch
      BY <2>1 DEF Batch
    <3>3. QED
      BY <1>1, <1>4, <2>1, <3>1, <3>2 DEF Control, BatchOK
  <2>4. RestOK'
    BY <1>1, <2>1 DEF Control, RestOK
  <2>5. QED
    BY <1>1, <1>3, <2>2, <2>3, <2>4 DEF Control, PubOK, TruthOK
<1>6. CASE p = "committer"
  <2>1. Committer = "rotate" /\ Committer' = "bump" /\ Caller' = Caller
    BY <1>1, <1>2, <1>6 DEF Caller, Committer
  <2>2. RouteOK' /\ CallOK' /\ PubOK' /\ TruthOK'
    BY <1>1, <2>1, CommitterControl
  <2>3. BatchOK'
    BY <1>1, <1>4, <2>1 DEF Control, BatchOK, Single
  <2>4. RestOK'
    BY <1>1, <2>1 DEF Control, RestOK
  <2>5. QED
    BY <1>3, <2>2, <2>3, <2>4 DEF Control
<1>7. QED
  BY <1>5, <1>6

\* ... and the counter is incremented.
LEMMA BumpControl ==
  ASSUME FrameTypes, Control, NEW p \in Procs, Bump(p)
  PROVE  FrameTypes' /\ Control'
<1>1. /\ pc[p] = "bump" /\ counter' = counter + 1
      /\ ret' = [ret EXCEPT ![p] = "rest"]
      /\ IF ret[p] = "rest" THEN Advance(p)
         ELSE pc' = [pc EXCEPT ![p] = ret[p]] /\ UNCHANGED <<plan, task>>
      /\ UNCHANGED <<config, pending, timed, permit, file, disk, torn, current,
                     segments, ents, op, reply, listed, dataVars, now, past,
                     bounds>>
  BY DEF Bump, Goto
<1>2. /\ pc \in [Procs -> Steps]
      /\ ret \in [Procs -> {"rest", "write", "rewrite", "retry"}]
  BY DEF FrameTypes, ProcessTypes
<1>3. FrameTypes'
  <2>1. /\ pc' \in [Procs -> Steps] /\ plan' \in Plans
        /\ task' \in {"off", "look", "idle", "armed", "count", "flush"}
    <3>1. CASE ret[p] = "rest"
      BY <1>1, <3>1, AdvanceTyped
    <3>2. CASE ret[p] # "rest"
      <4>1. ret[p] \in Steps
        BY <1>2 DEF Steps, Batch
      <4>2. pc' \in [Procs -> Steps]
        BY <1>1, <3>2, <4>1, ProcessTyped DEF FrameTypes
      <4>3. QED
        BY <1>1, <3>2, <4>2 DEF FrameTypes, ProcessTypes, QueueTypes
    <3>3. QED
      BY <3>1, <3>2
  <2>2. ret' \in [Procs -> {"rest", "write", "rewrite", "retry"}]
    BY <1>1, <1>2
  <2>3. ProcessTypes'
    BY <1>1, <2>1, <2>2 DEF FrameTypes, ProcessTypes
  <2>4. QueueTypes'
    BY <1>1, <2>1 DEF FrameTypes, QueueTypes
  <2>5. SegmentTypes'
    BY <1>1 DEF FrameTypes, SegmentTypes
  <2>6. QED
    BY <1>1, <2>3, <2>4, <2>5 DEF FrameTypes, DataTypes, RunTypes
<1>4. CASE p = "caller" /\ ret["caller"] = "rest"
  <2>1. Caller = "bump" /\ ents["caller"] = <<>>
    BY <1>1, <1>4 DEF Caller, Control, BatchOK
  <2>2. /\ Caller' \notin Batch \cup {"down", "enqueue", "notify", "await"}
        /\ Committer' = Committer /\ RouteOK' /\ CallOK'
        /\ AfterPublish' => AfterPublish
        /\ plan' \in {POwn, PCkpt, PTake} => plan \in {POwn, PCkpt, PTake}
        /\ Caller' = "take" => plan = PTake
        /\ pc' \in [Procs -> Steps] /\ task' = task
    BY <1>1, <1>4, <2>1, AdvanceControl DEF Control
  <2>3. BatchOK'
    <3>1. ret'["caller"] = "rest" /\ ret'["committer"] = ret["committer"]
      BY <1>1, <1>2, <1>4
    <3>2. ~Single' /\ Caller' \notin {"rotate", "bump"}
      BY <2>2, <3>1 DEF Single, Batch
    <3>3. \A q \in Procs : /\ pc'[q] \notin Batch => ents'[q] = <<>>
                           /\ ret'[q] = "rest" \/ pc'[q] \in {"rotate", "bump"}
      BY <1>1, <2>1, <2>2, <3>1 DEF Control, BatchOK, Committer
    <3>4. QED
      BY <1>1, <2>2, <3>1, <3>2, <3>3 DEF Control, BatchOK
  <2>4. RestOK'
    BY <1>1, <2>1, <2>2 DEF Control, RestOK
  <2>5. QED
    BY <1>1, <1>3, <2>2, <2>3, <2>4 DEF Control, PubOK, TruthOK
<1>5. CASE p = "caller" /\ ret["caller"] # "rest"
  <2>1. /\ Caller = "bump" /\ Caller' = ret["caller"] /\ Committer' = Committer
        /\ UNCHANGED <<plan, task>>
        /\ ret'["caller"] = "rest" /\ ret'["committer"] = ret["committer"]
        /\ ret["caller"] \in {"write", "rewrite", "retry"}
    BY <1>1, <1>2, <1>5 DEF Caller, Committer
  <2>2. RouteOK' /\ CallOK' /\ (AfterPublish' => AfterPublish)
    BY <1>1, <2>1, InnerControl DEF Control, Batch
  <2>3. BatchOK'
    <3>1. Single' => Single
      BY <2>1 DEF Single
    <3>2. Caller \in Batch /\ Caller' \in Batch \ {"rotate", "bump"}
      BY <2>1 DEF Batch
    <3>3. \A q \in Procs : /\ pc'[q] \notin Batch => ents'[q] = <<>>
                           /\ ret'[q] = "rest" \/ pc'[q] \in {"rotate", "bump"}
      BY <1>1, <2>1, <3>2 DEF Control, BatchOK, Committer, Caller
    <3>4. QED
      BY <1>1, <2>1, <3>1, <3>2, <3>3 DEF Control, BatchOK
  <2>4. RestOK'
    BY <1>1, <2>1 DEF Control, RestOK
  <2>5. QED
    BY <1>1, <1>3, <2>2, <2>3, <2>4 DEF Control, PubOK, TruthOK
<1>6. CASE p = "committer"
  <2>1. /\ Committer = "bump" /\ ret["committer"] \in {"write", "rewrite"}
    BY <1>1, <1>2, <1>6 DEF Committer, Control, BatchOK
  <2>2. /\ Committer' \in {"write", "rewrite"} /\ Caller' = Caller
        /\ ret'["caller"] = ret["caller"] /\ ret'["committer"] = "rest"
        /\ UNCHANGED <<plan, task>>
    BY <1>1, <1>2, <1>6, <2>1 DEF Caller, Committer
  <2>3. RouteOK' /\ CallOK' /\ PubOK' /\ TruthOK'
    BY <1>1, <2>2, CommitterControl
  <2>4. BatchOK'
    <3>1. \A q \in Procs : /\ pc'[q] \notin Batch => ents'[q] = <<>>
                           /\ ret'[q] = "rest" \/ pc'[q] \in {"rotate", "bump"}
      BY <1>1, <2>2 DEF Control, BatchOK, Caller, Committer, Batch
    <3>2. QED
      BY <1>1, <2>2, <3>1 DEF Control, BatchOK, Single
  <2>5. RestOK'
    BY <1>1, <2>1, <2>2 DEF Control, RestOK
  <2>6. QED
    BY <1>3, <2>3, <2>4, <2>5 DEF Control
<1>7. QED
  BY <1>4, <1>5, <1>6

\* A caller outside batch_write_entries holds no records.
LEMMA IdleBatch ==
  ASSUME FrameTypes, BatchOK, UNCHANGED <<ents, ret>>, Committer' = Committer,
         Caller \notin Batch, Caller' \notin Batch
  PROVE  BatchOK'
<1>1. ret["caller"] = "rest" /\ ents["caller"] = <<>>
  BY DEF BatchOK, Batch, Caller
<1>2. ~Single'
  BY <1>1 DEF Single, Batch
<1>3. \A q \in Procs : /\ pc'[q] \notin Batch => ents'[q] = <<>>
                       /\ ret'[q] = "rest" \/ pc'[q] \in {"rotate", "bump"}
  BY <1>1 DEF BatchOK, Committer
<1>4. QED
  BY <1>2, <1>3 DEF BatchOK, Batch

\* The background task decides when to flush.
LEMMA TaskControl ==
  ASSUME FrameTypes, Control, TaskStep,
         UNCHANGED <<config, segVars, procVars, dataVars, now, past, bounds>>
  PROVE  FrameTypes' /\ Control'
<1>1. /\ task \notin {"off", "flush"} /\ pending' = pending /\ timed' = timed
      /\ permit' \in {FALSE, permit}
      /\ task' \in {"look", "idle", "armed", "count", "flush"}
  BY DEF TaskStep, TaskLook, TaskTimer, TaskNotified, TaskCount
<1>2. FrameTypes'
  BY <1>1 DEF FrameTypes, QueueTypes, SegmentTypes, ProcessTypes, DataTypes, RunTypes
<1>3. RouteOK' /\ CallOK' /\ PubOK' /\ TruthOK'
  BY CommitterControl DEF Caller
<1>4. BatchOK' /\ RestOK'
  BY <1>1 DEF Control, BatchOK, RestOK, Single, Caller, Committer
<1>5. QED
  BY <1>2, <1>3, <1>4 DEF Control

\* write_entry_group_commit: enqueue, wake the task, wait for the answer.
LEMMA QueueControl ==
  ASSUME FrameTypes, Control, PutEnqueue \/ PutNotify \/ PutAwait
  PROVE  FrameTypes' /\ Control'
<1>1. /\ UNCHANGED <<config, segVars, ret, ents, plan, task, listed, dataVars,
                     now, past, bounds>>
      /\ \/ /\ Caller = "enqueue" /\ pc' = [pc EXCEPT !["caller"] = "notify"]
            /\ Enqueue(op) /\ UNCHANGED <<op, reply, permit>>
         \/ /\ Caller = "notify" /\ pending' = pending
            /\ pc' = [pc EXCEPT !["caller"] = IF wait THEN "await" ELSE "done"]
            /\ UNCHANGED <<timed, op, reply>> /\ permit' = TRUE
         \/ /\ Caller = "await" /\ reply' = "none" /\ pending' = pending
            /\ \/ pc' = [pc EXCEPT !["caller"] = "done"] /\ op' = op
               \/ pc' = [pc EXCEPT !["caller"] = "rest"] /\ op' = NoOp
            /\ UNCHANGED <<timed, permit>>
  BY DEF PutEnqueue, PutNotify, PutAwait, Goto, Notify, Caller
<1>2. pc \in [Procs -> Steps]
  BY DEF FrameTypes, ProcessTypes
<1>3. /\ Caller \in {"enqueue", "notify", "await"}
      /\ Caller' \in {"notify", "await", "done", "rest"} /\ Committer' = Committer
      /\ plan = PNone /\ group /\ pc' \in [Procs -> Steps]
      /\ Caller' = "rest" <=> op' = NoOp
      /\ op # NoOp /\ op' \in {op, NoOp}
      /\ reply' \in {"none", reply}
      /\ Caller' \in {"done", "rest"} => Caller = "await" \/ (Caller = "notify" /\ ~wait)
  <2>1. plan = PNone /\ group /\ op # NoOp
    BY <1>1, PlansDiffer DEF Control, RouteOK, CallOK, RestOK, Batch
  <2>2. Committer' = Committer /\ pc' \in [Procs -> Steps]
    BY <1>1, <1>2 DEF Committer, Steps
  <2>3. QED
    BY <1>1, <1>2, <2>1, <2>2 DEF Caller
<1>4. FrameTypes'
  <2>1. op \in PutType
    BY <1>3 DEF FrameTypes, ProcessTypes
  <2>2. QueueTypes'
    <3>1. pending' \in Seq(PutType) /\ timed' \in BOOLEAN /\ permit' \in BOOLEAN
      <4>1. pending \in Seq(PutType) /\ timed \in BOOLEAN /\ permit \in BOOLEAN
        BY DEF FrameTypes, QueueTypes
      <4>2. Append(pending, op) \in Seq(PutType)
        BY <2>1, <4>1
      <4>3. pending' \in {pending, Append(pending, op)} /\ permit' \in {permit, TRUE}
        BY <1>1 DEF Enqueue
      <4>4. timed' \in BOOLEAN
        BY <1>1, <4>1 DEF Enqueue
      <4>5. QED
        BY <4>1, <4>2, <4>3, <4>4
    <3>2. QED
      BY <1>1, <3>1 DEF FrameTypes, QueueTypes
  <2>3. ProcessTypes'
    BY <1>1, <1>3 DEF FrameTypes, ProcessTypes
  <2>4. QED
    BY <1>1, <2>2, <2>3 DEF FrameTypes, SegmentTypes, DataTypes, RunTypes
<1>5. RouteOK' /\ CallOK' /\ ~AfterPublish'
  BY <1>1, <1>3, PlansDiffer DEF Control, RouteOK, CallOK, AfterPublish, Batch
<1>6. BatchOK'
  BY <1>1, <1>3, IdleBatch DEF Control, Batch
<1>7. RestOK'
  <2>1. reply' # "none" => wait /\ Caller' \in {"notify", "await"}
    BY <1>1, <1>2 DEF Control, RestOK, Caller
  <2>2. QED
    BY <1>1, <1>3, <2>1 DEF Control, RestOK
<1>8. QED
  BY <1>1, <1>4, <1>5, <1>6, <1>7 DEF Control, PubOK, TruthOK

\* A call that writes a batch, or that administers, begins.
LEMMA StartControl ==
  ASSUME FrameTypes, Control, Caller = "rest",
         NEW steps, Start(Head(steps), Tail(steps)),
         NEW first \in Plans, first \in {POwn, PSync, PFlush, PStop},
         steps = IF group THEN <<"take">> \o first ELSE first,
         UNCHANGED <<config, groupVars, segVars, ret, ents, reply, listed, mem,
                     sst, truth, now>>,
         past' = past, admin' \in Nat, crashes' = crashes, errors' = errors,
         first # POwn => UNCHANGED <<op, ver>>,
         first = POwn => /\ op' \in PutType /\ op'.ver = ver' /\ op'.ts = now
                         /\ ver' = ver + 1
  PROVE  FrameTypes' /\ Control'
<1>1. /\ pc' = [pc EXCEPT !["caller"] = Head(steps)] /\ plan' = Tail(steps)
  BY DEF Start
<1>2. plan = PNone /\ op = NoOp
  BY PlansDiffer DEF Control, RouteOK, CallOK, Batch
<1>3. /\ \/ group /\ Head(steps) = "take" /\ plan' = first
         \/ ~group /\ first = POwn /\ Head(steps) = "own" /\ plan' = PDone
         \/ ~group /\ first = PSync /\ Head(steps) = "sync" /\ plan' = PNone
         \/ ~group /\ first = PFlush /\ Head(steps) = "sync" /\ plan' = PPublish
         \/ ~group /\ first = PStop /\ Head(steps) = "sync" /\ plan' = PLeave
  <2>1. CASE group
    <3>1. first \in Seq(Steps) /\ "take" \in Steps
      <4>1. /\ POwn \in Seq(Steps) /\ PSync \in Seq(Steps)
            /\ PFlush \in Seq(Steps) /\ PStop \in Seq(Steps)
        BY DEF POwn, PSync, PFlush, PStop, Steps, Batch
      <4>2. QED
        BY <4>1 DEF Steps
    <3>2. steps = <<"take">> \o first
      BY <2>1
    <3>3. Head(steps) = "take" /\ Tail(steps) = first
      BY <3>1, <3>2, Prefixed
    <3>4. QED
      BY <1>1, <2>1, <3>3
  <2>2. CASE ~group
    BY <1>1, <2>2, PlanFacts
  <2>3. QED
    BY <2>1, <2>2
<1>4. /\ Caller' = Head(steps) /\ Committer' = Committer
      /\ Head(steps) \in {"take", "own", "sync"}
      /\ plan' \in Plans /\ pc' \in [Procs -> Steps]
  BY <1>1, <1>3 DEF FrameTypes, ProcessTypes, Caller, Committer, Steps, Plans
<1>5. (\A r \in PutType : r # NoOp) /\ op' \in PutType \cup {NoOp} /\ ver' \in Nat
  BY <1>2, NewRecords DEF FrameTypes, DataTypes
<1>6. FrameTypes'
  BY <1>4, <1>5 DEF FrameTypes, QueueTypes, SegmentTypes, ProcessTypes, DataTypes, RunTypes
<1>7. RouteOK' /\ ~AfterPublish'
  BY <1>3, <1>4, PlansDiffer DEF RouteOK, AfterPublish
<1>8. CallOK'
  BY <1>2, <1>3, <1>4, <1>5, PlansDiffer DEF CallOK
<1>9. BatchOK'
  BY <1>4, IdleBatch DEF Control, Batch
<1>10. RestOK'
  BY <1>3, <1>4, PlansDiffer DEF Control, RestOK
<1>11. TruthOK'
  BY <1>5 DEF Control, TruthOK, FrameTypes, DataTypes
<1>12. QED
  BY <1>6, <1>7, <1>8, <1>9, <1>10, <1>11 DEF Control, PubOK

\* batch_put, flush_wal(), flush() and shutdown() begin.
LEMMA CallsControl ==
  ASSUME FrameTypes, Control
  PROVE  /\ \A k \in Keys : BatchPut(k) => FrameTypes' /\ Control'
         /\ FlushWal => FrameTypes' /\ Control'
         /\ FlushEngine => FrameTypes' /\ Control'
         /\ Shutdown => FrameTypes' /\ Control'
<1>1. POwn \in Plans /\ PSync \in Plans /\ PFlush \in Plans /\ PStop \in Plans
  BY DEF Plans
<1>2. ASSUME NEW k \in Keys, BatchPut(k) PROVE FrameTypes' /\ Control'
  <2>1. PICK steps : steps = IfGroup(<<"take">>) \o <<"own", "done">>
    OBVIOUS
  <2>2. steps = IF group THEN <<"take">> \o POwn ELSE POwn
    BY <2>1, CallPlans
  <2>3. /\ Start(Head(steps), Tail(steps)) /\ op' = Record("put", k, ver + 1)
        /\ UNCHANGED <<config, groupVars, segVars, ret, ents, reply, listed,
                       mem, sst, truth, now, past, bounds>>
        /\ ver' = ver + 1
    BY <1>2, <2>1 DEF BatchPut
  <2>4. op' \in PutType /\ op'.ver = ver' /\ op'.ts = now
    BY <2>3, NewRecords
  <2>5. Caller = "rest" /\ admin' \in Nat
    BY <2>3 DEF Start, Caller, FrameTypes, RunTypes
  <2>6. QED
    BY <1>1, <2>2, <2>3, <2>4, <2>5, StartControl
<1>3. ASSUME NEW steps, NEW first \in {PSync, PFlush, PStop},
             steps = IF group THEN <<"take">> \o first ELSE first,
             Administer(steps)
      PROVE  FrameTypes' /\ Control'
  <2>1. /\ Start(Head(steps), Tail(steps)) /\ admin' = admin + 1
        /\ UNCHANGED <<config, groupVars, segVars, ret, ents, op, reply, listed,
                       dataVars, now, past, crashes, errors>>
    BY <1>3 DEF Administer
  <2>2. Caller = "rest" /\ admin' \in Nat
    BY <2>1 DEF Start, Caller, FrameTypes, RunTypes
  <2>3. first # POwn /\ first \in Plans /\ first \in {POwn, PSync, PFlush, PStop}
    BY <1>1, <1>3, PlansDiffer
  <2>4. QED
    BY <1>3, <2>1, <2>2, <2>3, StartControl
<1>4. ASSUME FlushWal PROVE FrameTypes' /\ Control'
  BY <1>3, <1>4, CallPlans DEF FlushWal
<1>5. ASSUME FlushEngine PROVE FrameTypes' /\ Control'
  BY <1>3, <1>5, CallPlans DEF FlushEngine
<1>6. ASSUME Shutdown PROVE FrameTypes' /\ Control'
  BY <1>3, <1>6, CallPlans DEF Shutdown
<1>7. QED
  BY <1>2, <1>4, <1>5, <1>6

\* A step of the caller's plan outside batch_write_entries.
LEMMA PlanStepControl ==
  ASSUME FrameTypes, Control, Advance("caller"),
         Caller \in {"sync", "publish", "close", "remove", "renew"},
         UNCHANGED <<config, pending, timed, permit, file, disk, torn, counter,
                     ret, ents, op, reply, truth, ver, now, past, bounds>>,
         current' \in {0, current}, segments' \in {{}, segments},
         sst' \in [Keys -> Nat], mem' \in {NoVersion, mem},
         Caller = "publish" => mem' = NoVersion,
         listed' \in {listed, disk}, listed' = {} \/ Caller = "close"
  PROVE  FrameTypes' /\ Control'
<1>1. /\ Caller' \notin Batch \cup {"down", "enqueue", "notify", "await"}
      /\ Committer' = Committer /\ RouteOK' /\ CallOK'
      /\ Caller # "publish" => (AfterPublish' => AfterPublish)
      /\ plan' \in {POwn, PCkpt, PTake} => plan \in {POwn, PCkpt, PTake}
      /\ Caller' = "take" => plan = PTake
      /\ pc' \in [Procs -> Steps] /\ task' = task /\ plan' \in Plans
  BY AdvanceControl DEF Control
<1>2. FrameTypes'
  <2>1. NoVersion \in [Keys -> Nat]
    BY DEF NoVersion
  <2>2. mem' \in [Keys -> Nat]
    BY <2>1 DEF FrameTypes, DataTypes
  <2>3. DataTypes'
    BY <2>2 DEF FrameTypes, DataTypes
  <2>4. SegmentTypes' /\ QueueTypes' /\ RunTypes'
    BY <1>1 DEF FrameTypes, SegmentTypes, QueueTypes, RunTypes
  <2>5. ProcessTypes'
    BY <1>1 DEF FrameTypes, ProcessTypes, SegmentTypes
  <2>6. QED
    BY <2>3, <2>4, <2>5 DEF FrameTypes
<1>3. BatchOK'
  BY <1>1, IdleBatch DEF Control, Batch
<1>4. RestOK'
  <2>1. Caller = "close" => Caller' = "remove"
    <3>1. Caller = "close" => plan = PRemove
      BY PlansDiffer DEF Control, RouteOK, Batch
    <3>2. plan = PRemove => Caller' = "remove"
      <4>1. pc \in [Procs -> Steps]
        BY DEF FrameTypes, ProcessTypes
      <4>2. PRemove # <<>> /\ Head(PRemove) = "remove"
        BY PlanFacts
      <4>3. QED
        BY <4>1, <4>2 DEF Advance, Caller
    <3>3. QED
      BY <3>1, <3>2
  <2>2. Caller' # "remove" => listed' = {}
    BY <2>1
  <2>3. reply = "none"
    BY DEF Control, RestOK
  <2>4. QED
    BY <1>1, <2>2, <2>3 DEF Control, RestOK
<1>5. PubOK'
  BY <1>1 DEF Control, PubOK
<1>6. TruthOK'
  BY DEF Control, TruthOK
<1>7. QED
  BY <1>1, <1>2, <1>3, <1>4, <1>5, <1>6 DEF Control

\* Sync, publication and truncation.
LEMMA PlanStepsControl ==
  ASSUME FrameTypes, Control, Sync \/ Publish \/ Close \/ Removed
  PROVE  FrameTypes' /\ Control'
<1>1. Caller \in {"sync", "publish", "close", "remove"} /\ Advance("caller")
  BY DEF Sync, Publish, Close, Removed, Caller
<1>2. CASE Sync \/ Removed
  <2>1. /\ UNCHANGED <<config, pending, timed, permit, segVars, ret, ents, op,
                       reply, listed, dataVars, now, past, bounds>>
        /\ Caller = "sync" \/ listed = {}
    BY <1>2 DEF Sync, Removed, Caller
  <2>2. listed = {} /\ Caller # "publish" /\ sst' \in [Keys -> Nat]
    BY <1>2, <2>1 DEF Control, RestOK, Sync, Removed, Caller, FrameTypes, DataTypes
  <2>3. QED
    BY <1>1, <2>1, <2>2, PlanStepControl
<1>3. CASE Publish
  <2>1. /\ UNCHANGED <<config, pending, timed, permit, segVars, ret, ents, op,
                       reply, listed, truth, ver, now, past, bounds>>
        /\ Caller = "publish" /\ mem' = NoVersion
        /\ sst' = [k \in Keys |-> IF mem[k] # 0 THEN mem[k] ELSE sst[k]]
    BY <1>3 DEF Publish, Caller
  <2>2. listed = {} /\ sst' \in [Keys -> Nat]
    BY <2>1 DEF Control, RestOK, FrameTypes, DataTypes
  <2>3. QED
    BY <1>1, <2>1, <2>2, PlanStepControl
<1>4. CASE Close
  <2>1. /\ UNCHANGED <<config, pending, timed, permit, file, disk, torn,
                       counter, ret, ents, op, reply, dataVars, now, past,
                       bounds>>
        /\ current' = 0 /\ segments' = {} /\ listed' = disk
        /\ Caller = "close"
    BY <1>4 DEF Close, Caller
  <2>2. sst' \in [Keys -> Nat] /\ mem' = mem
    BY <2>1 DEF FrameTypes, DataTypes
  <2>3. QED
    BY <1>1, <2>1, <2>2, PlanStepControl
<1>5. QED
  BY <1>2, <1>3, <1>4

\* A file is removed, by the truncation or by the cleanup task.
LEMMA RemovalControl ==
  ASSUME FrameTypes, Control
  PROVE  /\ \A i \in Ids : RemoveFile(i) => FrameTypes' /\ Control'
         /\ \A S \in SUBSET segments : Cleanup(S) => FrameTypes' /\ Control'
<1>1. ASSUME UNCHANGED <<config, groupVars, file, torn, current, counter, pc,
                         ret, ents, plan, op, reply, dataVars, now, crashes,
                         errors>>,
             segments' \subseteq segments, disk' \subseteq disk,
             listed' \subseteq listed, past' \in SUBSET Circumstances,
             admin' \in Nat
      PROVE  FrameTypes' /\ Control'
  <2>1. FrameTypes'
    BY <1>1 DEF FrameTypes, QueueTypes, SegmentTypes, ProcessTypes, DataTypes,
                RunTypes
  <2>2. RouteOK' /\ CallOK' /\ PubOK' /\ TruthOK'
    BY <1>1, CommitterControl DEF Caller
  <2>3. BatchOK'
    BY <1>1 DEF Control, BatchOK, Single, Caller, Committer
  <2>4. RestOK'
    BY <1>1 DEF Control, RestOK, Caller, Committer
  <2>5. QED
    BY <2>1, <2>2, <2>3, <2>4 DEF Control
<1>2. ASSUME NEW i \in Ids, RemoveFile(i) PROVE FrameTypes' /\ Control'
  <2>1. past \in SUBSET Circumstances /\ admin \in Nat
    BY DEF FrameTypes, RunTypes
  <2>2. QED
    BY <1>1, <1>2, <2>1 DEF RemoveFile
<1>3. ASSUME NEW S \in SUBSET segments, Cleanup(S) PROVE FrameTypes' /\ Control'
  <2>1. past' \in SUBSET Circumstances /\ admin' \in Nat
    BY <1>3, RemnantsTyped DEF FrameTypes, RunTypes, Cleanup
  <2>2. QED
    BY <1>1, <1>3, <2>1 DEF Cleanup
<1>4. QED
  BY <1>2, <1>3

\* The places recovery reads.
LEMMA PlaceFacts ==
  ASSUME FrameTypes
  PROVE  /\ \A p \in Places : /\ p[1] \in disk \ torn /\ p[1] \in Ids
                              /\ p[2] \in 1..Len(file[p[1]]) /\ p[2] \in Nat
                              /\ p = <<p[1], p[2]>> /\ At(p) = file[p[1]][p[2]]
                              /\ At(p) \in LogType
                              /\ At(p).ts \in 1..MaxTime /\ At(p).ver \in Nat
         /\ \A i \in disk \ torn : \A n \in 1..Len(file[i]) :
              <<i, n>> \in Places /\ At(<<i, n>>) = file[i][n]
<1>1. /\ file \in [Ids -> Seq(LogType)] /\ disk \subseteq Ids
  BY DEF FrameTypes, SegmentTypes
<1>2. \A r \in LogType : r.ts \in 1..MaxTime /\ r.ver \in Nat
  BY DEF LogType, PutType, CkptType
<1>3. \A i \in Ids : DOMAIN file[i] = 1..Len(file[i]) /\ Len(file[i]) \in Nat
  BY <1>1
<1>4. \A i \in Ids : \A n \in 1..Len(file[i]) : file[i][n] \in LogType
  BY <1>1
<1>5. ASSUME NEW p \in Places
      PROVE  /\ p[1] \in disk \ torn /\ p[1] \in Ids
             /\ p[2] \in 1..Len(file[p[1]]) /\ p[2] \in Nat
             /\ p = <<p[1], p[2]>>
  <2>1. PICK i \in disk \ torn : p \in {i} \X DOMAIN file[i]
    BY DEF Places
  <2>2. i \in Ids
    BY <1>1, <2>1
  <2>3. p[1] = i /\ p[2] \in 1..Len(file[i]) /\ p = <<p[1], p[2]>>
    BY <1>3, <2>1, <2>2
  <2>4. QED
    BY <1>3, <2>1, <2>2, <2>3
<1>6. ASSUME NEW i \in disk \ torn, NEW n \in 1..Len(file[i])
      PROVE  <<i, n>> \in Places
  BY <1>1, <1>3, <1>6 DEF Places
<1>7. QED
  BY <1>2, <1>4, <1>5, <1>6 DEF At

\* Replay picks an entry of the key that no other one follows.
LEMMA ReplayFacts ==
  ASSUME FrameTypes, NEW k
  PROVE  /\ Replay(k) = {} => Replayed(k) = 0
         /\ Replay(k) # {} =>
              \E p \in Replay(k) :
                 /\ Replayed(k) = At(p).ver
                 /\ \A q \in Replay(k) : q = p \/ ReplayedBefore(q, p)
<1>1. Replay(k) = {} => Replayed(k) = 0
  BY DEF Replayed
<1>2. ASSUME Replay(k) # {}
      PROVE  \E p \in Replay(k) : \A q \in Replay(k) : q = p \/ ReplayedBefore(q, p)
  <2> DEFINE R == Replay(k)
             T == {At(p).ts : p \in R}
  <2>1. \A p \in R : /\ p \in Places /\ p[1] \in Ids /\ p[2] \in Nat
                     /\ p[2] <= Len(file[p[1]]) /\ p = <<p[1], p[2]>>
                     /\ At(p).ts \in Nat /\ At(p).ts <= MaxTime
    BY PlaceFacts DEF Replay
  <2>2. PICK t : t \in T /\ \A x \in T : x <= t
    <3>1. T \in SUBSET Nat /\ T # {} /\ \A x \in T : x <= MaxTime
      BY <1>2, <2>1
    <3>2. MaxTime \in Nat
      OBVIOUS
    <3> HIDE DEF T
    <3>3. QED
      BY <3>1, <3>2, MaxNat
  <2> DEFINE R1 == {p \in R : At(p).ts = t}
             I == {p[1] : p \in R1}
  <2>3. PICK i : i \in I /\ \A x \in I : x <= i
    <3>1. I \in SUBSET Nat /\ I # {} /\ \A x \in I : x <= MaxIds
      BY <2>1, <2>2
    <3>2. MaxIds \in Nat
      OBVIOUS
    <3> HIDE DEF I
    <3>3. QED
      BY <3>1, <3>2, MaxNat
  <2> DEFINE R2 == {p \in R1 : p[1] = i}
             N == {p[2] : p \in R2}
  <2>4. PICK n : n \in N /\ \A x \in N : x <= n
    <3>1. i \in Ids
      BY <2>1, <2>3
    <3>2. N \in SUBSET Nat /\ N # {} /\ \A x \in N : x <= Len(file[i])
      BY <2>1, <2>3
    <3>3. Len(file[i]) \in Nat
      BY <3>1 DEF FrameTypes, SegmentTypes
    <3> HIDE DEF N
    <3>4. QED
      BY <3>2, <3>3, MaxNat
  <2>5. PICK p \in R2 : p[2] = n
    BY <2>4
  <2>6. p \in R /\ At(p).ts = t /\ p[1] = i
    BY <2>5
  <2>7. ASSUME NEW q \in R PROVE q = p \/ ReplayedBefore(q, p)
    <3>1. /\ q[1] \in Nat /\ q[2] \in Nat /\ p[1] \in Nat /\ p[2] \in Nat
          /\ q = <<q[1], q[2]>> /\ p = <<p[1], p[2]>>
          /\ At(q).ts \in Nat /\ At(p).ts \in Nat
      BY <2>1, <2>6
    <3>2. At(q).ts <= t
      BY <2>2
    <3>3. At(q).ts = t => q[1] <= i
      BY <2>3
    <3>4. At(q).ts = t /\ q[1] = i => q[2] <= n
      BY <2>4
    <3>5. CASE At(q).ts # t
      BY <2>6, <3>1, <3>2, <3>5 DEF ReplayedBefore
    <3>6. CASE At(q).ts = t /\ q[1] # i
      BY <2>6, <3>1, <3>3, <3>6 DEF ReplayedBefore
    <3>7. CASE At(q).ts = t /\ q[1] = i /\ q[2] # n
      BY <2>5, <2>6, <3>1, <3>4, <3>7 DEF ReplayedBefore
    <3>8. CASE At(q).ts = t /\ q[1] = i /\ q[2] = n
      <4>1. q[1] = p[1] /\ q[2] = p[2]
        BY <2>5, <2>6, <3>8
      <4>2. q = p
        BY <3>1, <4>1
      <4>3. QED
        BY <4>2
    <3>9. QED
      BY <3>5, <3>6, <3>7, <3>8
  <2>8. QED
    BY <2>6, <2>7
<1>3. ASSUME Replay(k) # {}
      PROVE  \E p \in Replay(k) :
                /\ Replayed(k) = At(p).ver
                /\ \A q \in Replay(k) : q = p \/ ReplayedBefore(q, p)
  <2>1. PICK p : p = CHOOSE x \in Replay(k) :
                       \A q \in Replay(k) : q = x \/ ReplayedBefore(q, x)
    OBVIOUS
  <2>2. p \in Replay(k) /\ \A q \in Replay(k) : q = p \/ ReplayedBefore(q, p)
    BY <1>2, <1>3, <2>1
  <2>3. Replayed(k) = At(p).ver
    BY <1>3, <2>1 DEF Replayed
  <2>4. QED
    BY <2>2, <2>3
<1>4. QED
  BY <1>1, <1>3

\* A version, or none, is replayed for each key.
LEMMA ReplayTyped ==
  ASSUME FrameTypes, NEW k
  PROVE  Replayed(k) \in Nat
<1>1. Replay(k) \subseteq Places
  BY DEF Replay
<1>2. QED
  BY <1>1, ReplayFacts, PlaceFacts

\* A record is put into the caller's hands: its own write, or a checkpoint.
LEMMA OwnControl ==
  ASSUME FrameTypes, Control,
         WriteOwn("own", op, "check") \/ WriteOwn("ckpt", Checkpoint, "try")
  PROVE  FrameTypes' /\ Control'
<1>1. /\ UNCHANGED <<config, pending, timed, permit, segVars, ret, op, reply,
                     listed, dataVars, now, past, bounds, plan, task>>
      /\ \/ /\ Caller = "own" /\ pc' = [pc EXCEPT !["caller"] = "check"]
            /\ ents' = [ents EXCEPT !["caller"] = <<op>>]
         \/ /\ Caller = "ckpt" /\ pc' = [pc EXCEPT !["caller"] = "try"]
            /\ ents' = [ents EXCEPT !["caller"] = <<Checkpoint>>]
  BY DEF WriteOwn, Goto, Caller
<1>2. pc \in [Procs -> Steps] /\ ents \in [Procs -> Seq(LogType)]
  BY DEF FrameTypes, ProcessTypes
<1>3. /\ Committer' = Committer /\ ents'["committer"] = ents["committer"]
      /\ ret["caller"] = "rest" /\ pc' \in [Procs -> Steps]
      /\ \/ /\ Caller = "own" /\ Caller' = "check" /\ plan = PDone
            /\ ents'["caller"] = <<op>> /\ op # NoOp
         \/ /\ Caller = "ckpt" /\ Caller' = "try" /\ plan \in {PTake, PLast}
            /\ ents'["caller"] = <<Checkpoint>>
  <2>1. Caller = "own" => plan = PDone /\ op # NoOp
    BY PlansDiffer DEF Control, RouteOK, CallOK, Batch
  <2>2. Caller = "ckpt" => plan \in {PTake, PLast}
    BY PlansDiffer DEF Control, RouteOK, Batch
  <2>3. Caller \in {"own", "ckpt"} => ret["caller"] = "rest"
    BY DEF Control, BatchOK, Caller
  <2>4. QED
    BY <1>1, <1>2, <2>1, <2>2, <2>3 DEF Caller, Committer, Steps, Batch
<1>4. FrameTypes'
  <2>1. (op # NoOp => op \in LogType) /\ Checkpoint \in LogType
    BY NewRecords DEF FrameTypes, ProcessTypes, LogType
  <2>2. /\ op # NoOp => <<op>> \in Seq(LogType)
        /\ <<Checkpoint>> \in Seq(LogType)
    BY <2>1
  <2>3. ents' \in [Procs -> Seq(LogType)]
    BY <1>1, <1>2, <1>3, <2>2
  <2>4. ProcessTypes'
    BY <1>1, <1>3, <2>3 DEF FrameTypes, ProcessTypes
  <2>5. QED
    BY <1>1, <2>4 DEF FrameTypes, QueueTypes, SegmentTypes, DataTypes, RunTypes
<1>5. RouteOK' /\ CallOK' /\ (AfterPublish' => AfterPublish)
  BY <1>1, <1>3, InnerControl DEF Control, Batch
<1>6. BatchOK'
  <2>1. \A q \in Procs : /\ pc'[q] \notin Batch => ents'[q] = <<>>
                         /\ ret'[q] = "rest" \/ pc'[q] \in {"rotate", "bump"}
    BY <1>1, <1>3 DEF Control, BatchOK, Batch, Caller, Committer
  <2>2. plan' = PDone => ents'["caller"] = <<op'>>
    BY <1>1, <1>3, PlansDiffer
  <2>3. Single' => /\ plan' \in {PTake, PLast}
                   /\ \E c \in CkptType : ents'["caller"] = <<c>>
    BY <1>1, <1>3, NewRecords DEF Single
  <2>4. QED
    BY <1>1, <1>3, <2>1, <2>2, <2>3 DEF Control, BatchOK
<1>7. RestOK'
  BY <1>1, <1>3 DEF Control, RestOK
<1>8. QED
  BY <1>1, <1>4, <1>5, <1>6, <1>7 DEF Control, PubOK, TruthOK

\* The call returns.
LEMMA DoneControl ==
  ASSUME FrameTypes, Control, Done
  PROVE  FrameTypes' /\ Control'
<1>1. /\ Caller = "done" /\ pc' = [pc EXCEPT !["caller"] = "rest"] /\ op' = NoOp
      /\ mem' = [mem EXCEPT ![op.key] = op.ver]
      /\ truth' = [truth EXCEPT ![op.key] = op.ver]
      /\ UNCHANGED <<config, pending, timed, permit, segVars, ret, ents, reply,
                     listed, sst, ver, now, past, bounds, plan, task>>
  BY DEF Done, Goto, Caller
<1>2. plan = PNone /\ op # NoOp /\ op.ver = ver /\ reply = "none"
  BY <1>1, PlansDiffer DEF Control, RouteOK, CallOK, RestOK, Batch
<1>3. op \in PutType
  BY <1>2 DEF FrameTypes, ProcessTypes
<1>4. op.key \in Keys /\ op.ver \in Nat
  BY <1>3 DEF PutType
<1>5. Caller' = "rest" /\ Committer' = Committer /\ pc' \in [Procs -> Steps]
  BY <1>1 DEF FrameTypes, ProcessTypes, Caller, Committer, Steps
<1>6. FrameTypes'
  BY <1>1, <1>4, <1>5 DEF FrameTypes, QueueTypes, SegmentTypes, ProcessTypes, DataTypes, RunTypes
<1>7. RouteOK' /\ CallOK' /\ ~AfterPublish'
  BY <1>1, <1>2, <1>5, PlansDiffer DEF RouteOK, CallOK, AfterPublish
<1>8. BatchOK'
  BY <1>1, <1>5, IdleBatch DEF Control, Batch
<1>9. RestOK'
  BY <1>1, <1>2, <1>5 DEF Control, RestOK
<1>10. TruthOK'
  BY <1>1, <1>2, <1>4 DEF Control, TruthOK, FrameTypes, DataTypes
<1>11. QED
  BY <1>6, <1>7, <1>8, <1>9, <1>10 DEF Control, PubOK

\* shutdown() goes on with a checkpoint, or at once with the truncation.
LEMMA MarkControl ==
  ASSUME FrameTypes, Control, Mark
  PROVE  FrameTypes' /\ Control'
<1>1. PICK steps : steps = IF current = 0 THEN Wipe
                           ELSE IfGroup(<<"take">>) \o <<"ckpt">>
                                  \o IfGroup(<<"take">>) \o <<"sync">> \o Wipe
  OBVIOUS
<1>2. /\ Caller = "mark" /\ pc' = [pc EXCEPT !["caller"] = Head(steps)]
      /\ plan' = Tail(steps)
      /\ UNCHANGED <<config, groupVars, segVars, ret, ents, op, reply, listed,
                     dataVars, now, past, bounds>>
  BY <1>1 DEF Mark, Caller
<1>3. \/ steps = PWipe
      \/ group /\ steps = <<"take">> \o PCkpt
      \/ ~group /\ steps = <<"ckpt">> \o PLast
  BY <1>1, CallPlans DEF Wipe, PWipe
<1>4. \/ Head(steps) = "close" /\ plan' = PRemove
      \/ group /\ Head(steps) = "take" /\ plan' = PCkpt
      \/ ~group /\ Head(steps) = "ckpt" /\ plan' = PLast
  <2>1. "take" \in Steps /\ "ckpt" \in Steps
    BY DEF Steps, Batch
  <2>2. PCkpt \in Seq(Steps) /\ PLast \in Seq(Steps)
    BY DEF PCkpt, PLast, Steps, Batch
  <2>3. CASE steps = PWipe
    BY <1>2, <2>3, PlanFacts
  <2>4. CASE group /\ steps = <<"take">> \o PCkpt
    BY <1>2, <2>1, <2>2, <2>4, Prefixed
  <2>5. CASE ~group /\ steps = <<"ckpt">> \o PLast
    BY <1>2, <2>1, <2>2, <2>5, Prefixed
  <2>6. QED
    BY <1>3, <2>3, <2>4, <2>5
<1>5. /\ Caller' = Head(steps) /\ Committer' = Committer
      /\ plan' \in Plans /\ pc' \in [Procs -> Steps]
  BY <1>2, <1>4 DEF FrameTypes, ProcessTypes, Caller, Committer, Steps, Plans
<1>6. op = NoOp
  BY <1>2, PlansDiffer DEF Control, RouteOK, CallOK, Batch
<1>7. FrameTypes'
  BY <1>2, <1>5 DEF FrameTypes, QueueTypes, SegmentTypes, ProcessTypes, DataTypes, RunTypes
<1>8. RouteOK' /\ CallOK'
  BY <1>2, <1>4, <1>5, <1>6, PlansDiffer DEF RouteOK, CallOK
<1>9. BatchOK'
  BY <1>2, <1>4, <1>5, IdleBatch DEF Control, Batch
<1>10. RestOK'
  BY <1>2, <1>4, <1>5, PlansDiffer DEF Control, RestOK
<1>11. PubOK' /\ TruthOK'
  BY <1>2 DEF Control, PubOK, AfterPublish, TruthOK
<1>12. QED
  BY <1>7, <1>8, <1>9, <1>10, <1>11 DEF Control

\* truncate_after_flush creates the new segment.
LEMMA RenewControl ==
  ASSUME FrameTypes, Control, Renew
  PROVE  FrameTypes' /\ Control'
<1>1. /\ Caller = "renew" /\ pc' = [pc EXCEPT !["caller"] = "rotate"]
      /\ ret' = [ret EXCEPT !["caller"] = "rest"]
      /\ UNCHANGED <<config, pending, timed, permit, segVars, ents, op, reply,
                     listed, dataVars, now, past, bounds, plan, task>>
  BY DEF Renew, ToRotate, Goto, Caller
<1>2. plan = PNone /\ op = NoOp /\ ents["caller"] = <<>>
  BY <1>1, PlansDiffer DEF Control, RouteOK, CallOK, BatchOK, Batch, Caller
<1>3. pc \in [Procs -> Steps] /\ ret \in [Procs -> {"rest", "write", "rewrite", "retry"}]
  BY DEF FrameTypes, ProcessTypes
<1>4. /\ Caller' = "rotate" /\ Committer' = Committer /\ ret'["caller"] = "rest"
      /\ ret'["committer"] = ret["committer"]
      /\ pc' \in [Procs -> Steps]
      /\ ret' \in [Procs -> {"rest", "write", "rewrite", "retry"}]
  BY <1>1, <1>3 DEF Caller, Committer, Steps, Batch
<1>5. FrameTypes'
  BY <1>1, <1>4 DEF FrameTypes, QueueTypes, SegmentTypes, ProcessTypes, DataTypes, RunTypes
<1>6. RouteOK' /\ CallOK'
  BY <1>1, <1>2, <1>4, PlansDiffer DEF RouteOK, CallOK
<1>7. BatchOK'
  <2>1. \A q \in Procs : /\ pc'[q] \notin Batch => ents'[q] = <<>>
                         /\ ret'[q] = "rest" \/ pc'[q] \in {"rotate", "bump"}
    BY <1>1, <1>2, <1>4 DEF Control, BatchOK, Committer
  <2>2. QED
    BY <1>1, <1>2, <1>4, <2>1, PlansDiffer DEF Control, BatchOK, Single
<1>8. RestOK'
  BY <1>1, <1>4 DEF Control, RestOK
<1>9. PubOK' /\ TruthOK'
  BY <1>1 DEF Control, PubOK, AfterPublish, TruthOK
<1>10. QED
  BY <1>5, <1>6, <1>7, <1>8, <1>9 DEF Control

\* A crash leaves the files and the configuration.
LEMMA CrashControl ==
  ASSUME FrameTypes, Control, Crash
  PROVE  FrameTypes' /\ Control'
<1>1. /\ \/ UNCHANGED <<file, torn>>
         \/ \E p \in Procs, n \in Nat : \E tail \in BOOLEAN :
              Writing(p) /\ n <= Len(ents[p]) /\ Partial(p, n, tail)
  <2>1. \A p \in Procs : 0 <= Len(ents[p]) /\ Len(ents[p]) \in Nat
    BY DEF FrameTypes, ProcessTypes
  <2>2. CASE UNCHANGED <<file, torn>>
    BY <2>2
  <2>3. ASSUME NEW p \in Procs, Writing(p),
               \/ \E tail \in BOOLEAN : Partial(p, 0, tail)
               \/ Partial(p, Len(ents[p]), FALSE)
        PROVE  \E n \in Nat : \E tail \in BOOLEAN :
                 n <= Len(ents[p]) /\ Partial(p, n, tail)
    <3>1. CASE \E tail \in BOOLEAN : Partial(p, 0, tail)
      <4>1. 0 \in Nat /\ 0 <= Len(ents[p])
        BY <2>1
      <4>2. QED
        BY <3>1, <4>1, Zenon
    <3>2. CASE Partial(p, Len(ents[p]), FALSE)
      <4>1. Len(ents[p]) \in Nat /\ Len(ents[p]) <= Len(ents[p]) /\ FALSE \in BOOLEAN
        BY <2>1
      <4>2. QED
        BY <3>2, <4>1, Zenon
    <3>3. QED
      BY <2>3, <3>1, <3>2
  <2>4. QED
    BY <2>2, <2>3 DEF Crash
<1>2. /\ past' = past \cup Remnants \cup (IF torn' # torn THEN {"torn"} ELSE {})
      /\ pending' = <<>> /\ timed' = FALSE /\ permit' = FALSE /\ task' = "off"
      /\ current' = 0 /\ segments' = {} /\ listed' = {}
      /\ pc' = [p \in Procs |-> IF p = "caller" THEN "down" ELSE "rest"]
      /\ ret' = [p \in Procs |-> "rest"] /\ ents' = [p \in Procs |-> <<>>]
      /\ plan' = <<>> /\ op' = NoOp /\ reply' = "none"
      /\ mem' = NoVersion /\ crashes' = crashes + 1
      /\ UNCHANGED <<config, disk, counter, sst, truth, ver, now, admin, errors>>
  BY DEF Crash, GroupReset
<1>3. file' \in [Ids -> Seq(LogType)] /\ torn' \in SUBSET Ids
  <2>1. /\ file \in [Ids -> Seq(LogType)] /\ torn \in SUBSET Ids
        /\ ents \in [Procs -> Seq(LogType)] /\ current \in Ids \cup {0}
    BY DEF FrameTypes, SegmentTypes, ProcessTypes
  <2>2. CASE UNCHANGED <<file, torn>>
    BY <2>1, <2>2
  <2>3. ASSUME NEW p \in Procs, NEW n \in Nat, NEW tail \in BOOLEAN,
               Writing(p), n <= Len(ents[p]), Partial(p, n, tail)
        PROVE  file' \in [Ids -> Seq(LogType)] /\ torn' \in SUBSET Ids
    <3>1. /\ file' = [file EXCEPT ![current] = file[current] \o SubSeq(ents[p], 1, n)]
          /\ torn' = IF tail THEN torn \cup {current} ELSE torn
          /\ current \in Ids
      BY <2>1, <2>3 DEF Partial, Writing
    <3>2. PICK part : part = SubSeq(ents[p], 1, n)
      OBVIOUS
    <3>3. part \in Seq(LogType)
      BY <2>1, <2>3, <3>2
    <3>4. file[current] \o part \in Seq(LogType)
      BY <2>1, <3>1, <3>3, Joined
    <3>5. QED
      BY <2>1, <3>1, <3>2, <3>4
  <2>4. QED
    BY <1>1, <2>2, <2>3
<1>4. FrameTypes'
  <2>1. QueueTypes'
    <3>1. pending' \in Seq(PutType)
      BY <1>2
    <3>2. QED
      BY <1>2, <3>1 DEF FrameTypes, QueueTypes
  <2>5. SegmentTypes'
    BY <1>2, <1>3 DEF FrameTypes, SegmentTypes
  <2>2. ProcessTypes'
    <3>1. pc' \in [Procs -> Steps] /\ ents' \in [Procs -> Seq(LogType)]
      BY <1>2 DEF Steps
    <3>2. plan' \in Plans
      BY <1>2 DEF Plans, PNone
    <3>3. QED
      BY <1>2, <3>1, <3>2 DEF FrameTypes, ProcessTypes
  <2>3. DataTypes' /\ RunTypes'
    BY <1>2, RemnantsTyped DEF FrameTypes, DataTypes, RunTypes, NoVersion
  <2>4. QED
    BY <2>1, <2>2, <2>3, <2>5 DEF FrameTypes
<1>5. Caller' = "down" /\ Committer' = "rest" /\ plan' = PNone
  BY <1>2 DEF Caller, Committer, PNone
<1>6. RouteOK' /\ CallOK' /\ PubOK' /\ TruthOK'
  BY <1>2, <1>5, PlansDiffer DEF Control, RouteOK, CallOK, PubOK, TruthOK
<1>7. BatchOK'
  BY <1>2, <1>5 DEF BatchOK, Batch, Single, Caller, Committer
<1>8. RestOK'
  BY <1>2, <1>5, PlansDiffer DEF RestOK
<1>9. QED
  BY <1>4, <1>6, <1>7, <1>8 DEF Control

\* The id of the segment a restart creates.
LEMMA NextId ==
  ASSUME FrameTypes
  PROVE  /\ Max({0} \cup disk) \in Nat
         /\ \A i \in disk : i <= Max({0} \cup disk)
         /\ Max({0} \cup disk) \in disk \cup {0}
<1>1. PICK S : S = {0} \cup disk
  OBVIOUS
<1>2. S \in SUBSET Nat /\ S # {} /\ (\A x \in S : x <= MaxIds) /\ MaxIds \in Nat
  BY <1>1 DEF FrameTypes, SegmentTypes
<1>3. Max(S) \in S /\ \A x \in S : x <= Max(S)
  BY <1>2, MaxNat
<1>4. QED
  BY <1>1, <1>2, <1>3

\* A restart replays the files and opens a new one.
LEMMA RestartControl ==
  ASSUME FrameTypes, Control, Restart
  PROVE  FrameTypes' /\ Control'
<1>1. PICK next : next = Max({0} \cup disk) + 1
  OBVIOUS
<1>2. /\ Caller = "down" /\ mem' = [k \in Keys |-> Replayed(k)]
      /\ next <= MaxIds /\ current' = next /\ counter' = next + 1
      /\ OpenSegment(next)
      /\ pending' = <<>> /\ timed' = FALSE /\ permit' = FALSE
      /\ task' = IF group THEN "look" ELSE "off"
      /\ pc' = [pc EXCEPT !["caller"] = "rest"]
      /\ UNCHANGED <<config, segments, ret, ents, plan, op, reply, listed, sst,
                     truth, ver, now, past, bounds>>
  BY <1>1 DEF Restart, GroupReset, Caller
<1>3. next \in Ids
  BY <1>1, <1>2, NextId
<1>4. FrameTypes'
  <2>1. mem' \in [Keys -> Nat]
    BY <1>2, ReplayTyped
  <2>2. SegmentTypes'
    <3>1. file' \in [Ids -> Seq(LogType)] /\ disk' \in SUBSET Ids /\ torn' \in SUBSET Ids
      BY <1>2, <1>3 DEF OpenSegment, FrameTypes, SegmentTypes
    <3>2. QED
      BY <1>2, <1>3, <3>1 DEF FrameTypes, SegmentTypes
  <2>3. pc' \in [Procs -> Steps]
    BY <1>2 DEF FrameTypes, ProcessTypes, Steps
  <2>4. QueueTypes'
    <3>1. pending' \in Seq(PutType)
      BY <1>2
    <3>2. QED
      BY <1>2, <3>1 DEF FrameTypes, QueueTypes
  <2>5. QED
    BY <1>2, <2>1, <2>2, <2>3, <2>4 DEF FrameTypes, ProcessTypes, DataTypes, RunTypes
<1>5. /\ Caller' = "rest" /\ Committer' = Committer /\ plan = PNone
      /\ op = NoOp /\ reply = "none" /\ listed = {}
  <2>1. plan = PNone
    BY <1>2, PlansDiffer DEF Control, RouteOK, Batch
  <2>2. QED
    BY <1>2, <2>1, PlansDiffer DEF FrameTypes, ProcessTypes, Caller, Committer, Control, CallOK, RestOK
<1>6. RouteOK' /\ CallOK' /\ PubOK' /\ TruthOK'
  BY <1>2, <1>5, PlansDiffer DEF Control, RouteOK, CallOK, PubOK, AfterPublish, TruthOK
<1>7. BatchOK'
  BY <1>2, <1>5, IdleBatch DEF Control, Batch
<1>8. RestOK'
  BY <1>2, <1>5 DEF Control, RestOK
<1>9. QED
  BY <1>4, <1>6, <1>7, <1>8 DEF Control

\* The start.
LEMMA InitControl ==
  ASSUME Init
  PROVE  FrameTypes /\ Control
<1>1. /\ pc = [p \in Procs |-> "rest"] /\ ret = [p \in Procs |-> "rest"]
      /\ ents = [p \in Procs |-> <<>>] /\ plan = PNone
      /\ op = NoOp /\ reply = "none" /\ listed = {}
  BY DEF Init, PNone
<1>2. Caller = "rest" /\ Committer = "rest"
  BY <1>1 DEF Caller, Committer
<1>3. ProcessTypes
  <2>1. pc \in [Procs -> Steps] /\ ents \in [Procs -> Seq(LogType)]
    BY <1>1 DEF Steps
  <2>2. plan \in Plans
    BY <1>1 DEF Plans
  <2>3. QED
    BY <1>1, <2>1, <2>2 DEF ProcessTypes
<1>4. QueueTypes /\ SegmentTypes /\ RunTypes
  <2>1. QueueTypes
    <3>1. group \in BOOLEAN /\ wait \in BOOLEAN /\ pending = <<>>
          /\ timed = FALSE /\ permit = FALSE /\ task \in {"look", "off"}
      BY DEF Init, GroupInit
    <3>2. pending \in Seq(PutType)
      BY <3>1
    <3>3. QED
      BY <3>1, <3>2 DEF QueueTypes
  <2>2. SegmentTypes
    BY DEF Init, SegmentTypes
  <2>3. RunTypes
    BY DEF Init, RunTypes, Circumstances
  <2>4. QED
    BY <2>1, <2>2, <2>3
<1>5. DataTypes /\ TruthOK /\ PubOK
  BY DEF Init, NoVersion, DataTypes, TruthOK, PubOK
<1>6. RouteOK /\ CallOK
  BY <1>1, <1>2, PlansDiffer DEF RouteOK, CallOK
<1>7. BatchOK
  BY <1>1, <1>2 DEF BatchOK, Batch, Single, Caller, Committer
<1>8. RestOK
  BY <1>1, <1>2, PlansDiffer DEF RestOK, Init, GroupInit
<1>9. QED
  BY <1>3, <1>4, <1>5, <1>6, <1>7, <1>8 DEF FrameTypes, Control

\* What every step keeps whatever the configuration.
FrameInv == FrameTypes /\ Control

\* One step ...
LEMMA FrameStep ==
  ASSUME FrameInv, Next
  PROVE  FrameInv'
<1>1. FrameTypes /\ Control
  BY DEF FrameInv
<1>2. CASE Tick
  BY <1>1, <1>2, TickControl DEF FrameInv
<1>3. ASSUME NEW k \in Keys, Put(k) \/ BatchPut(k) PROVE FrameInv'
  BY <1>1, <1>3, PutControl, CallsControl DEF FrameInv
<1>4. CASE FlushWal \/ FlushEngine \/ Shutdown
  BY <1>1, <1>4, CallsControl DEF FrameInv
<1>5. ASSUME NEW S \in SUBSET segments, Cleanup(S) PROVE FrameInv'
  BY <1>1, <1>5, RemovalControl DEF FrameInv
<1>6. ASSUME NEW p \in Procs, BatchStep(p) PROVE FrameInv'
  <2>1. CASE Take(p)
    BY <1>1, <2>1, TakeControl DEF FrameInv
  <2>2. CASE Check(p) \/ NoRoom(p)
    BY <1>1, <2>2, CheckControl DEF FrameInv
  <2>3. CASE Write(p)
    BY <1>1, <2>3, WriteControl DEF FrameInv
  <2>4. CASE Rotate(p)
    BY <1>1, <2>4, RotateControl DEF FrameInv
  <2>5. CASE Bump(p)
    BY <1>1, <2>5, BumpControl DEF FrameInv
  <2>6. CASE Refused(p)
    BY <1>1, <2>6, FaultControl DEF FrameInv
  <2>7. QED
    BY <1>6, <2>1, <2>2, <2>3, <2>4, <2>5, <2>6 DEF BatchStep
<1>7. CASE CallerStep
  <2>1. CASE BatchStep("caller")
    BY <1>6, <2>1
  <2>2. CASE PutEnqueue \/ PutNotify \/ PutAwait
    BY <1>1, <2>2, QueueControl DEF FrameInv
  <2>3. CASE Done
    BY <1>1, <2>3, DoneControl DEF FrameInv
  <2>4. CASE WriteOwn("own", op, "check") \/ WriteOwn("ckpt", Checkpoint, "try")
    BY <1>1, <2>4, OwnControl DEF FrameInv
  <2>5. CASE Sync \/ Publish \/ Close \/ Removed
    BY <1>1, <2>5, PlanStepsControl DEF FrameInv
  <2>6. CASE Mark
    BY <1>1, <2>6, MarkControl DEF FrameInv
  <2>7. CASE \E i \in Ids : RemoveFile(i)
    BY <1>1, <2>7, RemovalControl DEF FrameInv
  <2>8. CASE Renew
    BY <1>1, <2>8, RenewControl DEF FrameInv
  <2>9. CASE Residue
    BY <1>1, <2>9, FaultControl DEF FrameInv
  <2>10. CASE Restart
    BY <1>1, <2>10, RestartControl DEF FrameInv
  <2>11. QED
    BY <1>7, <2>1, <2>2, <2>3, <2>4, <2>5, <2>6, <2>7, <2>8, <2>9, <2>10
       DEF CallerStep
<1>8. CASE CommitterStep
  <2>1. CASE BatchStep("committer")
    BY <1>6, <2>1
  <2>2. CASE /\ TaskStep
             /\ UNCHANGED <<config, segVars, procVars, dataVars, now, past, bounds>>
    BY <1>1, <2>2, TaskControl DEF FrameInv
  <2>3. QED
    BY <1>8, <2>1, <2>2 DEF CommitterStep
<1>9. CASE Fault
  <2>1. ASSUME NEW p \in Procs,
               \/ RotateFails(p)
               \/ \E n \in 0..MaxWrites, tail \in BOOLEAN : WriteFails(p, n, tail)
        PROVE  FrameInv'
    BY <1>1, <2>1, FaultControl DEF FrameInv
  <2>2. CASE AdminFails
    BY <1>1, <2>2, FaultControl DEF FrameInv
  <2>3. CASE Crash
    BY <1>1, <2>3, CrashControl DEF FrameInv
  <2>4. QED
    BY <1>9, <2>1, <2>2, <2>3 DEF Fault
<1>10. QED
  BY <1>2, <1>3, <1>4, <1>5, <1>7, <1>8, <1>9 DEF Next

\* ... or none.
LEMMA FrameStutter ==
  ASSUME FrameInv, UNCHANGED vars
  PROVE  FrameInv'
<1>1. FrameTypes'
  BY DEF FrameInv, vars, FrameTypes, QueueTypes, SegmentTypes, ProcessTypes,
         DataTypes, RunTypes
<1>2. RouteOK' /\ CallOK' /\ PubOK' /\ TruthOK'
  BY CommitterControl DEF FrameInv, vars, Caller
<1>3. BatchOK'
  BY DEF FrameInv, vars, Control, BatchOK, Single, Caller, Committer
<1>4. RestOK'
  BY DEF FrameInv, vars, Control, RestOK, Caller, Committer
<1>5. QED
  BY <1>1, <1>2, <1>3, <1>4 DEF FrameInv, Control

-----------------------------------------------------------------------------
(* Segments: which id is current, which are completed.                     *)

\* A step that touches neither the segments nor the data.
Quiet ==
  /\ UNCHANGED <<config, segVars, mem, sst, truth, crashes>>
  /\ \A p \in Procs : pc'[p] = "bump" <=> pc[p] = "bump"
  /\ Caller # "down" /\ Caller' # "down"
  /\ listed' \subseteq listed /\ past \subseteq past' /\ errors <= errors'
  /\ ver <= ver' /\ now <= now'

\* The other steps.
Special ==
  \/ \E p \in Procs : \/ Write(p) \/ Rotate(p) \/ Bump(p) \/ RotateFails(p)
                      \/ \E n \in 0..MaxWrites, tail \in BOOLEAN :
                           WriteFails(p, n, tail)
  \/ Done \/ Publish \/ Close \/ (\E i \in Ids : RemoveFile(i))
  \/ (\E S \in SUBSET segments : Cleanup(S)) \/ Crash \/ Restart

\* A process that goes to a step other than "bump".
LEMMA GotoQuiet ==
  ASSUME FrameTypes, NEW p \in Procs, NEW step, step \notin {"bump", "down"},
         pc[p] \notin {"bump", "down"}, Caller # "down",
         pc' = [pc EXCEPT ![p] = step]
  PROVE  /\ \A q \in Procs : pc'[q] = "bump" <=> pc[q] = "bump"
         /\ Caller' # "down"
<1>1. pc \in [Procs -> Steps]
  BY DEF FrameTypes, ProcessTypes
<1>2. QED
  BY <1>1 DEF Caller

\* ... one that goes on in its plan or its loop ...
LEMMA AdvanceQuiet ==
  ASSUME FrameInv, NEW p \in Procs, Advance(p), pc[p] # "bump", Caller # "down",
         p = "caller" => Caller \notin {"rest", "enqueue", "notify", "await", "done"}
  PROVE  /\ \A q \in Procs : pc'[q] = "bump" <=> pc[q] = "bump"
         /\ Caller' # "down"
<1>1. CASE p = "caller"
  <2>1. /\ Caller' \notin Batch \cup {"down"} /\ Committer' = Committer
    BY <1>1, AdvanceControl DEF FrameInv, Control
  <2>2. QED
    BY <1>1, <2>1 DEF Caller, Committer, Batch
<1>2. CASE p = "committer"
  BY <1>2, AdvanceTyped DEF FrameInv, Caller, Committer
<1>3. QED
  BY <1>1, <1>2

\* ... and one that fails.
LEMMA FailQuiet ==
  ASSUME FrameInv, NEW p \in Procs, Fail(p), pc[p] # "bump", Caller # "down"
  PROVE  /\ \A q \in Procs : pc'[q] = "bump" <=> pc[q] = "bump"
         /\ Caller' # "down" /\ listed' \subseteq listed
<1>1. CASE p = "caller"
  <2>1. /\ listed' = {}
        /\ \/ pc' = [pc EXCEPT !["caller"] = "publish"]
           \/ pc' = [pc EXCEPT !["caller"] = "rest"]
    BY <1>1 DEF Fail
  <2>2. QED
    BY <1>1, <2>1, GotoQuiet DEF FrameInv, Caller
<1>2. CASE p = "committer"
  <2>1. Advance(p) /\ listed' = listed
    BY <1>2 DEF Fail
  <2>2. QED
    BY <1>2, <2>1, AdvanceQuiet
<1>3. QED
  BY <1>1, <1>2

\* The first step of each call ...
LEMMA CallHeads ==
  /\ Head(IfGroup(<<"take">>) \o <<"own", "done">>) \in {"take", "own", "sync"}
  /\ Head(IfGroup(<<"take">>) \o <<"sync">>) \in {"take", "own", "sync"}
  /\ Head(IfGroup(<<"take">>) \o <<"sync", "publish">> \o Wipe)
       \in {"take", "own", "sync"}
  /\ Head(IfGroup(<<"take">>) \o <<"sync", "publish", "mark">>)
       \in {"take", "own", "sync"}
<1>1. "take" \in Steps
  BY DEF Steps
<1>2. POwn \in Seq(Steps) /\ PSync \in Seq(Steps) /\ PFlush \in Seq(Steps) /\ PStop \in Seq(Steps)
  BY DEF POwn, PSync, PFlush, PStop, Steps, Batch
<1>3. /\ Head(<<"take">> \o POwn) = "take" /\ Head(<<"take">> \o PSync) = "take"
      /\ Head(<<"take">> \o PFlush) = "take" /\ Head(<<"take">> \o PStop) = "take"
  BY <1>1, <1>2, Prefixed
<1>4. QED
  BY <1>3, CallPlans, PlanFacts

\* ... and of what shutdown() goes on with.
LEMMA MarkSteps ==
  Head(IF current = 0 THEN Wipe
       ELSE IfGroup(<<"take">>) \o <<"ckpt">> \o IfGroup(<<"take">>)
              \o <<"sync">> \o Wipe) \in {"close", "take", "ckpt"}
<1>1. "take" \in Steps /\ "ckpt" \in Steps
  BY DEF Steps
<1>2. PCkpt \in Seq(Steps) /\ PLast \in Seq(Steps)
  BY DEF PCkpt, PLast, Steps, Batch
<1>3. Head(<<"take">> \o PCkpt) = "take" /\ Head(<<"ckpt">> \o PLast) = "ckpt"
  BY <1>1, <1>2, Prefixed
<1>4. Head(Wipe) = "close"
  BY DEF Wipe
<1>5. QED
  BY <1>3, <1>4, CallPlans

\* Every step is of one kind or the other.
LEMMA QuietSteps ==
  ASSUME FrameInv, Next
  PROVE  Quiet \/ Special
<1>1. /\ FrameTypes /\ now \in Nat /\ ver \in Nat /\ errors \in Nat
      /\ listed \subseteq listed /\ past \subseteq past
  BY DEF FrameInv, FrameTypes, RunTypes, DataTypes
<1>2. CASE Tick
  BY <1>1, <1>2 DEF Tick, Quiet, Caller
<1>3. ASSUME NEW k \in Keys, Put(k) PROVE Quiet
  <2>1. /\ UNCHANGED <<config, groupVars, segVars, ret, reply, listed, mem, sst,
                       truth, now, past, bounds>>
        /\ ver' = ver + 1 /\ Caller = "rest"
        /\ \E step \in {"enqueue", "try"} : pc' = [pc EXCEPT !["caller"] = step]
    BY <1>3 DEF Put, Start, Caller
  <2>2. QED
    BY <1>1, <2>1, GotoQuiet DEF Quiet, Caller
<1>4. ASSUME NEW steps, Start(Head(steps), Tail(steps)),
             Head(steps) \in {"take", "own", "sync"},
             UNCHANGED <<config, segVars, listed, mem, sst, truth, now, past,
                         crashes, errors>>,
             ver' \in {ver, ver + 1}
      PROVE  Quiet
  <2>1. Caller = "rest" /\ pc' = [pc EXCEPT !["caller"] = Head(steps)] /\ ver <= ver'
    BY <1>1, <1>4 DEF Start, Caller
  <2>2. QED
    BY <1>1, <1>4, <2>1, GotoQuiet DEF Quiet, Caller
<1>5. /\ Head(IfGroup(<<"take">>) \o <<"own", "done">>) \in {"take", "own", "sync"}
      /\ Head(IfGroup(<<"take">>) \o <<"sync">>) \in {"take", "own", "sync"}
      /\ Head(IfGroup(<<"take">>) \o <<"sync", "publish">> \o Wipe)
           \in {"take", "own", "sync"}
      /\ Head(IfGroup(<<"take">>) \o <<"sync", "publish", "mark">>)
           \in {"take", "own", "sync"}
  BY CallHeads
<1>6. ASSUME NEW k \in Keys, BatchPut(k) PROVE Quiet
  <2>1. PICK steps : steps = IfGroup(<<"take">>) \o <<"own", "done">>
    OBVIOUS
  <2>2. /\ Start(Head(steps), Tail(steps))
        /\ UNCHANGED <<config, segVars, listed, mem, sst, truth, now, past,
                       crashes, errors>>
        /\ ver' = ver + 1
    BY <1>6, <2>1 DEF BatchPut
  <2>3. QED
    BY <1>4, <1>5, <2>1, <2>2
<1>7. CASE FlushWal \/ FlushEngine \/ Shutdown
  <2>1. PICK steps : Administer(steps) /\ Head(steps) \in {"take", "own", "sync"}
    BY <1>5, <1>7 DEF FlushWal, FlushEngine, Shutdown
  <2>2. /\ Start(Head(steps), Tail(steps))
        /\ UNCHANGED <<config, segVars, listed, mem, sst, truth, ver, now, past,
                       crashes, errors>>
    BY <2>1 DEF Administer
  <2>3. QED
    BY <1>4, <2>1, <2>2
<1>8. ASSUME NEW p \in Procs, Committer # "rest" \/ p = "caller" \/ task # "off"
      PROVE  p = "committer" => Caller # "down"
  BY <1>8 DEF FrameInv, Control, RestOK
<1>9. ASSUME NEW p \in Procs, Take(p) \/ Check(p) \/ NoRoom(p) \/ Refused(p)
      PROVE  Quiet
  <2>1. Caller # "down"
    BY <1>8, <1>9 DEF Take, Check, NoRoom, Refused, Caller, Committer
  <2>2. CASE Take(p)
    <3>1. /\ UNCHANGED <<config, segVars, listed, dataVars, now, past, bounds>>
          /\ Advance(p) \/ pc' = [pc EXCEPT ![p] = "check"]
          /\ pc[p] \in {"rest", "take"} /\ (p = "caller" => Caller = "take")
      BY <2>2 DEF Take, Goto, Caller
    <3>2. /\ \A q \in Procs : pc'[q] = "bump" <=> pc[q] = "bump"
          /\ Caller' # "down"
      <4>1. CASE Advance(p)
        BY <2>1, <3>1, <4>1, AdvanceQuiet
      <4>2. CASE pc' = [pc EXCEPT ![p] = "check"]
        BY <1>1, <2>1, <3>1, <4>2, GotoQuiet
      <4>3. QED
        BY <3>1, <4>1, <4>2
    <3>3. QED
      BY <1>1, <2>1, <3>1, <3>2 DEF Quiet
  <2>3. CASE Check(p) \/ NoRoom(p)
    <3>1. /\ UNCHANGED <<config, segVars, listed, dataVars, now, past, bounds>>
          /\ pc[p] \in {"check", "write", "try"}
          /\ \E step \in {"write", "rotate"} : pc' = [pc EXCEPT ![p] = step]
      BY <2>3 DEF Check, NoRoom, Move, ToRotate, Goto
    <3>2. /\ \A q \in Procs : pc'[q] = "bump" <=> pc[q] = "bump"
          /\ Caller' # "down"
      BY <1>1, <2>1, <3>1, GotoQuiet
    <3>3. QED
      BY <1>1, <2>1, <3>1, <3>2 DEF Quiet
  <2>4. CASE Refused(p)
    <3>1. /\ UNCHANGED <<config, segVars, dataVars, now, past, crashes, errors>>
          /\ pc[p] \in {"write", "rewrite", "try", "retry"} /\ Fail(p)
      BY <2>4 DEF Refused, Fail
    <3>2. QED
      BY <1>1, <2>1, <3>1, FailQuiet DEF Quiet
  <2>5. QED
    BY <1>9, <2>2, <2>3, <2>4
<1>10. CASE CallerStep
  <2>1. CASE BatchStep("caller")
    BY <1>9, <2>1 DEF BatchStep, Special
  <2>2. CASE \/ PutEnqueue \/ PutNotify \/ PutAwait \/ WriteOwn("own", op, "check")
             \/ WriteOwn("ckpt", Checkpoint, "try") \/ Renew
    <3>1. /\ UNCHANGED <<config, segVars, listed, dataVars, now, past, bounds>>
          /\ Caller \in {"enqueue", "notify", "await", "own", "ckpt", "renew"}
          /\ \E step \in {"notify", "await", "done", "rest", "check", "try", "rotate"} :
               pc' = [pc EXCEPT !["caller"] = step]
      BY <2>2 DEF PutEnqueue, PutNotify, PutAwait, WriteOwn, Renew, ToRotate, Goto, Caller
    <3>2. QED
      BY <1>1, <3>1, GotoQuiet DEF Quiet, Caller
  <2>3. CASE Sync \/ Removed
    <3>1. /\ UNCHANGED <<config, segVars, listed, dataVars, now, past, bounds>>
          /\ Caller \in {"sync", "remove"} /\ Advance("caller")
      BY <2>3 DEF Sync, Removed, Caller
    <3>2. QED
      BY <1>1, <3>1, AdvanceQuiet DEF Quiet, Caller
  <2>4. CASE Mark
    <3>1. /\ UNCHANGED <<config, segVars, listed, dataVars, now, past, bounds>>
          /\ Caller = "mark" /\ Committer' = Committer
      BY <2>4 DEF Mark, Caller, Committer, FrameInv, FrameTypes, ProcessTypes
    <3>2. PICK steps : steps = IF current = 0 THEN Wipe
                               ELSE IfGroup(<<"take">>) \o <<"ckpt">>
                                      \o IfGroup(<<"take">>) \o <<"sync">> \o Wipe
      OBVIOUS
    <3>3. Head(steps) \in {"close", "take", "ckpt"}
      BY <3>2, MarkSteps
    <3>4. pc' = [pc EXCEPT !["caller"] = Head(steps)]
      BY <2>4, <3>2 DEF Mark
    <3>5. QED
      BY <1>1, <3>1, <3>3, <3>4, GotoQuiet DEF Quiet, Caller
  <2>5. CASE Residue
    <3>1. /\ UNCHANGED <<config, segVars, dataVars, now, crashes, errors>>
          /\ Caller = "renew" /\ Fail("caller") /\ past' = past \cup Remnants
      BY <2>5 DEF Residue, Fail, Caller
    <3>2. QED
      BY <1>1, <3>1, FailQuiet DEF Quiet, Caller
  <2>6. QED
    BY <1>10, <2>1, <2>2, <2>3, <2>4, <2>5 DEF CallerStep, Special
<1>11. CASE CommitterStep
  <2>1. CASE BatchStep("committer")
    BY <1>9, <2>1 DEF BatchStep, Special
  <2>2. CASE /\ TaskStep
             /\ UNCHANGED <<config, segVars, procVars, dataVars, now, past, bounds>>
    <3>1. task # "off"
      BY <2>2 DEF TaskStep, TaskLook, TaskTimer, TaskNotified, TaskCount
    <3>2. Caller # "down"
      BY <1>8, <3>1
    <3>3. QED
      BY <1>1, <2>2, <3>2 DEF Quiet, Caller
  <2>3. QED
    BY <1>11, <2>1, <2>2 DEF CommitterStep
<1>12. CASE AdminFails
  <2>1. /\ UNCHANGED <<config, segVars, dataVars, now, crashes>>
        /\ Caller \in {"sync", "remove"} /\ Fail("caller")
        /\ past' = past \cup Remnants /\ errors' = errors + 1
    BY <1>12 DEF AdminFails, Fail, Caller
  <2>2. QED
    BY <1>1, <2>1, FailQuiet DEF Quiet, Caller
<1>13. QED
  BY <1>2, <1>3, <1>6, <1>7, <1>10, <1>11, <1>12 DEF Next, Fault, Special

\* No id is beyond the counter, nor is any equal to it unless a rotation has
\* just taken it.
IdOK(i) == i <= counter /\ ((\A p \in Procs : pc[p] # "bump") => i < counter)
IdsBelow ==
  Caller # "down" => /\ IdOK(current)
                     /\ \A i \in disk \cup listed : IdOK(i)
                     /\ \A s \in segments : IdOK(s[2])

\* When calls wait for durability, or there is no group commit, at most one
\* process is writing: the committer only for a caller that waits.
Alone == wait \/ ~group
QueueAlone ==
  /\ Committer # "rest" => /\ Caller \in {"notify", "await"} /\ reply = "none"
                           /\ ents["committer"] = <<op>> /\ pending = <<>>
  /\ pending # <<>> => /\ Caller \in {"notify", "await"} /\ reply = "none"
                       /\ pending = <<op>>
  /\ Caller \in Batch => plan = PDone \/ plan = PNone \/ Single

\* A segment is entered among the completed ones when it is no longer current.
SegmentsAlone ==
  /\ (\E p \in Procs : pc[p] = "bump") =>
       current = counter /\ \A s \in segments : s[2] < counter
  /\ current # 0 => \A s \in segments : s[2] # current
AloneInv == Alone => QueueAlone /\ SegmentsAlone

\* A rotation, and the others that change segments.
LEMMA IdsStep ==
  ASSUME FrameInv, FrameInv', IdsBelow, Next
  PROVE  IdsBelow'
<1>1. /\ counter \in Nat \ {0} /\ current \in Nat /\ disk \subseteq Nat
      /\ listed \subseteq Nat /\ segments \subseteq Nat \X Nat
      /\ \A s \in segments : s[1] \in Nat /\ s[2] \in Nat
      /\ pc \in [Procs -> Steps]
  BY DEF FrameInv, FrameTypes, SegmentTypes, ProcessTypes
<1>2. CASE Quiet
  BY <1>1, <1>2 DEF Quiet, IdsBelow, IdOK
<1>3. ASSUME UNCHANGED counter, Caller # "down",
             \A p \in Procs : pc[p] = "bump" => pc'[p] = "bump",
             current' \in {0, current}, disk' \subseteq disk,
             listed' \subseteq listed \cup disk,
             \A s \in segments' : s \in segments
      PROVE  IdsBelow'
  BY <1>1, <1>3 DEF IdsBelow, IdOK
<1>4. ASSUME NEW p \in Procs, Write(p) \/ \E n \in 0..MaxWrites, tail \in BOOLEAN :
                                            WriteFails(p, n, tail)
      PROVE  IdsBelow'
  <2>1. /\ UNCHANGED <<counter, current, disk, segments>>
        /\ pc[p] \in {"write", "try", "rewrite", "retry"}
        /\ (Advance(p) /\ listed' = listed) \/ Fail(p)
    BY <1>4 DEF Write, WriteFails, Writing
  <2>2. Caller # "down"
    BY <2>1 DEF FrameInv, Control, RestOK, Caller, Committer
  <2>3. /\ \A q \in Procs : pc'[q] = "bump" <=> pc[q] = "bump"
        /\ listed' \subseteq listed
    <3>1. CASE Advance(p) /\ listed' = listed
      BY <2>1, <2>2, <3>1, AdvanceQuiet DEF Caller
    <3>2. CASE Fail(p)
      BY <2>1, <2>2, <3>2, FailQuiet
    <3>3. QED
      BY <2>1, <3>1, <3>2
  <2>4. QED
    BY <1>3, <2>1, <2>2, <2>3
<1>5. ASSUME NEW p \in Procs, Rotate(p) PROVE IdsBelow'
  <2>1. /\ pc[p] = "rotate" /\ pc' = [pc EXCEPT ![p] = "bump"]
        /\ segments' = Tracked /\ current' = counter /\ counter' = counter
        /\ disk' = disk \cup {counter} /\ listed' = listed
    BY <1>5 DEF Rotate, Goto, OpenSegment
  <2>2. Caller # "down"
    BY <2>1 DEF FrameInv, Control, RestOK, Caller, Committer
  <2>3. pc'[p] = "bump"
    BY <1>1, <2>1
  <2>4. /\ current <= counter /\ \A i \in disk \cup listed : i <= counter
        /\ \A s \in segments : s[2] <= counter
    BY <2>2 DEF IdsBelow, IdOK
  <2>5. \A s \in segments' : s[2] <= counter
    BY <2>1, <2>4 DEF Tracked
  <2>6. QED
    BY <1>1, <2>1, <2>3, <2>4, <2>5 DEF IdsBelow, IdOK
<1>6. ASSUME NEW p \in Procs, RotateFails(p) PROVE IdsBelow'
  <2>1. /\ pc[p] = "rotate" /\ Fail(p) /\ UNCHANGED <<disk, counter>>
        /\ current' = 0 /\ segments' \in {segments, Tracked}
    BY <1>6 DEF RotateFails
  <2>2. Caller # "down"
    BY <2>1 DEF FrameInv, Control, RestOK, Caller, Committer
  <2>3. /\ \A q \in Procs : pc'[q] = "bump" <=> pc[q] = "bump"
        /\ listed' \subseteq listed
    BY <2>1, <2>2, FailQuiet
  <2>4. \A s \in segments' : s \in segments \/ s[2] = current
    BY <2>1 DEF Tracked
  <2>5. IdOK(current) /\ (\A i \in disk \cup listed : IdOK(i)) /\ \A s \in segments : IdOK(s[2])
    BY <2>2 DEF IdsBelow
  <2>6. QED
    BY <1>1, <2>1, <2>3, <2>4, <2>5 DEF IdsBelow, IdOK
<1>7. ASSUME NEW p \in Procs, Bump(p) PROVE IdsBelow'
  <2>1. /\ counter' = counter + 1 /\ UNCHANGED <<disk, current, segments, listed>>
        /\ pc[p] = "bump"
    BY <1>7 DEF Bump
  <2>2. Caller # "down"
    BY <2>1 DEF FrameInv, Control, RestOK, Caller, Committer
  <2>3. /\ current <= counter /\ \A i \in disk \cup listed : i <= counter
        /\ \A s \in segments : s[2] <= counter
    BY <2>2 DEF IdsBelow, IdOK
  <2>4. QED
    BY <1>1, <2>1, <2>3 DEF IdsBelow, IdOK
<1>8. CASE Done
  BY <1>1, <1>3, <1>8 DEF Done, Goto, Caller
<1>9. CASE Publish \/ Close
  <2>1. /\ counter' = counter /\ disk' = disk /\ current' \in {0, current}
        /\ segments' \subseteq segments /\ listed' \in {listed, disk}
        /\ Caller \in {"publish", "close"} /\ Advance("caller")
    BY <1>9 DEF Publish, Close, Caller
  <2>2. \A q \in Procs : pc'[q] = "bump" <=> pc[q] = "bump"
    BY <2>1, AdvanceQuiet DEF Caller
  <2>3. QED
    BY <1>3, <2>1, <2>2
<1>10. ASSUME NEW i \in Ids, RemoveFile(i) PROVE IdsBelow'
  BY <1>3, <1>10 DEF RemoveFile, Caller
<1>11. ASSUME NEW S \in SUBSET segments, Cleanup(S) PROVE IdsBelow'
  BY <1>3, <1>11 DEF Cleanup, Caller
<1>12. CASE Crash
  BY <1>12 DEF Crash, IdsBelow, Caller
<1>13. CASE Restart
  <2>1. PICK next : next = Max({0} \cup disk) + 1
    OBVIOUS
  <2>2. /\ current' = next /\ counter' = next + 1 /\ disk' = disk \cup {next}
        /\ segments' = {} /\ listed' = {}
    BY <1>13, <2>1 DEF Restart, OpenSegment, FrameInv, Control, RestOK, Caller
  <2>3. next \in Nat /\ \A i \in disk : i < next
    <3>1. PICK m : m = Max({0} \cup disk)
      OBVIOUS
    <3>2. m \in Nat /\ \A i \in disk : i <= m
      BY <3>1, NextId DEF FrameInv
    <3>3. next = m + 1
      BY <2>1, <3>1, Zenon
    <3>4. \A i \in disk : i \in Nat
      BY <1>1
    <3>5. QED
      BY <3>2, <3>3, <3>4
  <2>4. QED
    BY <1>1, <2>2, <2>3 DEF IdsBelow, IdOK
<1>14. QED
  BY <1>2, <1>4, <1>5, <1>6, <1>7, <1>8, <1>9, <1>10, <1>11, <1>12, <1>13,
     QuietSteps DEF Special

\* While the caller does not wait, the queue is empty and the committer rests.
LEMMA QuietCaller ==
  ASSUME QueueAlone, Caller \notin {"notify", "await"}
  PROVE  Committer = "rest" /\ pending = <<>>
  BY DEF QueueAlone

\* It stays so, and the caller goes on with its own record or a checkpoint.
LEMMA CallerAlone ==
  ASSUME QueueAlone, Caller \notin {"notify", "await"}, Committer' = Committer,
         pending' \in {pending, <<>>},
         Caller' \in Batch => plan' = PDone \/ plan' = PNone \/ Single'
  PROVE  QueueAlone'
  BY QuietCaller DEF QueueAlone

\* The caller's own steps.
LEMMA CallerQueue ==
  ASSUME FrameInv, Alone, QueueAlone, CallerStep
  PROVE  QueueAlone'
<1>1. pc \in [Procs -> Steps] /\ FrameTypes /\ Control
  BY DEF FrameInv, FrameTypes, ProcessTypes
<1>2. ASSUME Advance("caller"), pending' \in {pending, <<>>},
             Caller \notin {"rest", "down", "enqueue", "notify", "await", "done"}
      PROVE  QueueAlone'
  <2>1. Caller' \notin Batch /\ Committer' = Committer
    BY <1>1, <1>2, AdvanceControl DEF Control
  <2>2. QED
    BY <1>2, <2>1, CallerAlone
<1>3. CASE Take("caller")
  <2>1. Caller = "take" /\ pending' = <<>>
    BY <1>3 DEF Take, TakeQueue, Caller
  <2>2. pending = <<>>
    BY <2>1, QuietCaller
  <2>3. Advance("caller")
    BY <1>3, <2>2 DEF Take
  <2>4. QED
    BY <1>2, <2>1, <2>3
<1>4. CASE Check("caller") \/ NoRoom("caller") \/ Rotate("caller")
  <2>1. /\ Caller \in {"check", "write", "try", "rotate"} /\ pending' = pending
        /\ plan' = plan /\ Committer' = Committer
        /\ Single => Single'
    BY <1>1, <1>4 DEF Check, NoRoom, Rotate, Move, ToRotate, Goto, Caller,
                      Committer, Single, FrameTypes, ProcessTypes, Control, BatchOK
  <2>2. plan = PDone \/ plan = PNone \/ Single
    BY <2>1 DEF QueueAlone, Batch
  <2>3. QED
    BY <2>1, <2>2, CallerAlone
<1>5. CASE Write("caller")
  BY <1>2, <1>5 DEF Write, Caller
<1>6. CASE Bump("caller")
  <2>1. CASE ret["caller"] = "rest"
    BY <1>2, <1>6, <2>1 DEF Bump, Caller
  <2>2. CASE ret["caller"] # "rest"
    <3>1. /\ Caller = "bump" /\ pending' = pending /\ plan' = plan
          /\ Committer' = Committer /\ Caller' = ret["caller"]
      BY <1>1, <1>6, <2>2 DEF Bump, Goto, Caller, Committer
    <3>2. plan = PDone \/ plan = PNone \/ Single
      BY <3>1 DEF QueueAlone, Batch
    <3>3. Single => Single'
      BY <3>1 DEF Single
    <3>4. QED
      BY <3>1, <3>2, <3>3, CallerAlone
  <2>3. QED
    BY <2>1, <2>2
<1>7. ASSUME Fail("caller"), Caller \notin {"notify", "await"} PROVE QueueAlone'
  <2>1. Caller' \in {"publish", "rest"} /\ Committer' = Committer /\ pending' = pending
    BY <1>1, <1>7 DEF Fail, Caller, Committer
  <2>2. QED
    BY <1>7, <2>1, CallerAlone DEF Batch
<1>8. CASE Refused("caller") \/ Residue
  BY <1>7, <1>8 DEF Refused, Residue, Caller
<1>9. CASE PutEnqueue
  <2>1. /\ Caller = "enqueue" /\ pending' = Append(pending, op) /\ op' = op
        /\ Caller' = "notify" /\ Committer' = Committer /\ reply' = reply
    BY <1>1, <1>9 DEF PutEnqueue, Enqueue, Goto, Caller, Committer
  <2>2. pending = <<>> /\ Committer = "rest" /\ reply = "none"
    BY <2>1, QuietCaller DEF FrameInv, Control, RestOK
  <2>3. pending' = <<op>>
    BY <2>1, <2>2
  <2>4. QED
    BY <2>1, <2>2, <2>3 DEF QueueAlone, Batch
<1>10. CASE PutNotify
  <2>1. Caller = "notify" /\ group /\ wait
    BY <1>10 DEF PutNotify, Caller, FrameInv, Control, RestOK, Alone
  <2>2. /\ Caller' = "await" /\ Committer' = Committer
        /\ UNCHANGED <<pending, op, reply, ents>>
    BY <1>1, <1>10, <2>1 DEF PutNotify, Goto, Caller, Committer
  <2>3. QED
    BY <2>1, <2>2 DEF QueueAlone, Batch
<1>11. CASE PutAwait
  <2>1. /\ Committer' = Committer /\ pending' = pending /\ reply # "none"
        /\ Caller' \in {"done", "rest"}
    BY <1>1, <1>11 DEF PutAwait, Goto, Caller, Committer
  <2>2. Committer = "rest" /\ pending = <<>>
    BY <2>1 DEF QueueAlone
  <2>3. QED
    BY <2>1, <2>2 DEF QueueAlone, Batch
<1>12. CASE Done
  <2>1. /\ Caller = "done" /\ Caller' = "rest" /\ Committer' = Committer
        /\ pending' = pending
    BY <1>1, <1>12 DEF Done, Goto, Caller, Committer
  <2>2. QED
    BY <2>1, CallerAlone DEF Batch
<1>13. CASE WriteOwn("own", op, "check")
  <2>1. /\ Caller = "own" /\ Committer' = Committer
        /\ pending' = pending /\ plan' = plan
    BY <1>1, <1>13 DEF WriteOwn, Goto, Caller, Committer
  <2>2. plan = PDone
    BY <2>1, PlansDiffer DEF FrameInv, Control, RouteOK, Batch
  <2>3. QED
    BY <2>1, <2>2, CallerAlone
<1>14. CASE WriteOwn("ckpt", Checkpoint, "try")
  <2>1. /\ Caller = "ckpt" /\ Caller' = "try" /\ Committer' = Committer
        /\ pending' = pending
    BY <1>1, <1>14 DEF WriteOwn, Goto, Caller, Committer
  <2>2. QED
    BY <2>1, CallerAlone DEF Single
<1>15. CASE Sync \/ Publish \/ Close \/ Removed
  BY <1>2, <1>15 DEF Sync, Publish, Close, Removed, Caller
<1>16. CASE Mark
  <2>1. /\ Caller = "mark" /\ Committer' = Committer /\ pending' = pending
    BY <1>1, <1>16 DEF Mark, Caller, Committer
  <2>2. Caller' \notin Batch
    <3>1. PICK steps : steps = IF current = 0 THEN Wipe
                               ELSE IfGroup(<<"take">>) \o <<"ckpt">>
                                      \o IfGroup(<<"take">>) \o <<"sync">> \o Wipe
      OBVIOUS
    <3>2. pc' = [pc EXCEPT !["caller"] = Head(steps)]
      BY <1>16, <3>1 DEF Mark
    <3>3. Head(steps) \in {"close", "take", "ckpt"}
      BY <3>1, MarkSteps
    <3>4. QED
      BY <1>1, <3>2, <3>3 DEF Caller, Batch
  <2>3. QED
    BY <2>1, <2>2, CallerAlone
<1>17. ASSUME NEW i \in Ids, RemoveFile(i) PROVE QueueAlone'
  <2>1. Caller = "remove" /\ Caller' = Caller /\ Committer' = Committer /\ pending' = pending
    BY <1>17 DEF RemoveFile, Caller, Committer
  <2>2. QED
    BY <2>1, CallerAlone DEF Batch
<1>18. CASE Renew
  <2>1. /\ Caller = "renew" /\ Committer' = Committer /\ pending' = pending /\ plan' = plan
    BY <1>1, <1>18 DEF Renew, ToRotate, Goto, Caller, Committer
  <2>2. plan = PNone
    BY <2>1, PlansDiffer DEF FrameInv, Control, RouteOK, Batch
  <2>3. QED
    BY <2>1, <2>2, CallerAlone
<1>19. CASE Restart
  <2>1. /\ Caller = "down" /\ Caller' = "rest" /\ Committer' = Committer
        /\ pending' = <<>>
    BY <1>1, <1>19 DEF Restart, GroupReset, Caller, Committer
  <2>2. QED
    BY <2>1, CallerAlone DEF Batch
<1>20. QED
  BY <1>3, <1>4, <1>5, <1>6, <1>8, <1>9, <1>10, <1>11, <1>12, <1>13, <1>14,
     <1>15, <1>16, <1>17, <1>18, <1>19 DEF CallerStep, BatchStep

\* The committer's.
LEMMA CommitterQueue ==
  ASSUME FrameInv, Alone, QueueAlone, CommitterStep
  PROVE  QueueAlone'
<1>1. /\ pc \in [Procs -> Steps] /\ ents \in [Procs -> Seq(LogType)]
      /\ ret \in [Procs -> {"rest", "write", "rewrite", "retry"}]
      /\ FrameTypes /\ Control
  BY DEF FrameInv, FrameTypes, ProcessTypes
<1>2. ASSUME Committer # "rest", Caller' = Caller, op' = op, plan' = plan,
             ret'["caller"] = ret["caller"], pending' = pending,
             \/ Committer' = "rest"
             \/ UNCHANGED <<ents, reply>>
      PROVE  QueueAlone'
  BY <1>2 DEF QueueAlone, Single, Batch
<1>3. CASE Take("committer")
  <2>1. /\ pending' = <<>> /\ ents'["committer"] = pending /\ Caller' = Caller
        /\ UNCHANGED <<ret, op, reply, plan>>
        /\ pending = <<>> => Committer' = "rest"
    BY <1>1, <1>3, AdvanceTyped DEF Take, TakeQueue, Goto, Caller
  <2>2. QED
    BY <2>1 DEF QueueAlone, Single
<1>4. CASE \/ Check("committer") \/ NoRoom("committer") \/ Rotate("committer")
  <2>1. /\ Committer # "rest" /\ UNCHANGED <<ents, reply, op, plan, pending>>
        /\ Caller' = Caller /\ ret'["caller"] = ret["caller"]
    BY <1>1, <1>4 DEF Check, NoRoom, Rotate, Move, ToRotate, Goto, Caller, Committer
  <2>2. QED
    BY <1>2, <2>1
<1>5. CASE Write("committer") \/ Refused("committer")
  <2>1. /\ Committer # "rest" /\ UNCHANGED <<op, plan, pending>>
        /\ Caller' = Caller /\ ret'["caller"] = ret["caller"]
        /\ Committer' = "rest"
    <3>1. /\ Advance("committer") /\ op' = op /\ pending' = pending
          /\ Committer \in {"write", "try", "rewrite", "retry"}
          /\ ret'["caller"] = ret["caller"]
      BY <1>1, <1>5 DEF Write, Refused, Fail, Committer
    <3>2. QED
      BY <1>1, <3>1, AdvanceTyped
  <2>2. QED
    BY <1>2, <2>1
<1>6. CASE Bump("committer")
  <2>1. Committer = "bump" /\ ret["committer"] # "rest"
    BY <1>6 DEF Bump, Committer, FrameInv, Control, BatchOK
  <2>2. /\ UNCHANGED <<ents, reply, op, plan, pending>>
        /\ Caller' = Caller /\ ret'["caller"] = ret["caller"]
    BY <1>1, <1>6, <2>1 DEF Bump, Goto, Caller
  <2>3. QED
    BY <1>2, <2>1, <2>2
<1>7. CASE /\ TaskStep
           /\ UNCHANGED <<config, segVars, procVars, dataVars, now, past, bounds>>
  <2>1. pending' = pending
    BY <1>7 DEF TaskStep, TaskLook, TaskTimer, TaskNotified, TaskCount
  <2>2. QED
    BY <1>7, <2>1 DEF QueueAlone, Caller, Committer, Single
<1>8. QED
  BY <1>3, <1>4, <1>5, <1>6, <1>7 DEF CommitterStep, BatchStep

\* Every step keeps the queue to a single caller.
LEMMA QueueStep ==
  ASSUME FrameInv, Alone, QueueAlone, Next
  PROVE  QueueAlone'
<1>1. pc \in [Procs -> Steps] /\ FrameTypes /\ Control
  BY DEF FrameInv, FrameTypes, ProcessTypes
<1>2. CASE Tick
  BY <1>2 DEF Tick, QueueAlone, Caller, Committer, Single
<1>3. ASSUME NEW k \in Keys, Put(k) PROVE QueueAlone'
  <2>1. /\ Caller = "rest" /\ Committer' = Committer /\ pending' = pending
        /\ Caller' = "enqueue" \/ plan' = PDone
    BY <1>1, <1>3 DEF Put, Start, PDone, Caller, Committer
  <2>2. QED
    BY <2>1, CallerAlone DEF Batch
<1>4. ASSUME NEW steps, Start(Head(steps), Tail(steps)), pending' = pending,
             Head(steps) \in {"take", "own", "sync"}
      PROVE  QueueAlone'
  <2>1. Caller = "rest" /\ Committer' = Committer /\ Caller' \in {"take", "own", "sync"}
    BY <1>1, <1>4 DEF Start, Caller, Committer
  <2>2. QED
    BY <1>4, <2>1, CallerAlone DEF Batch
<1>5. ASSUME NEW k \in Keys, BatchPut(k) PROVE QueueAlone'
  <2>1. PICK steps : steps = IfGroup(<<"take">>) \o <<"own", "done">>
    OBVIOUS
  <2>2. Start(Head(steps), Tail(steps)) /\ pending' = pending
    BY <1>5, <2>1 DEF BatchPut
  <2>3. QED
    BY <1>4, <2>1, <2>2, CallHeads
<1>6. CASE FlushWal \/ FlushEngine \/ Shutdown
  <2>1. PICK steps : Administer(steps) /\ Head(steps) \in {"take", "own", "sync"}
    BY <1>6, CallHeads DEF FlushWal, FlushEngine, Shutdown
  <2>2. QED
    BY <1>4, <2>1 DEF Administer
<1>7. ASSUME NEW S \in SUBSET segments, Cleanup(S) PROVE QueueAlone'
  BY <1>7 DEF Cleanup, QueueAlone, Caller, Committer, Single
<1>8. ASSUME NEW p \in Procs, Fail(p), pc[p] # "rest",
             p = "caller" => Caller \notin {"notify", "await"}
      PROVE  QueueAlone'
  <2>1. CASE p = "caller"
    <3>1. Caller' \in {"publish", "rest"} /\ Committer' = Committer /\ pending' = pending
      BY <1>1, <1>8, <2>1 DEF Fail, Caller, Committer
    <3>2. QED
      BY <1>8, <2>1, <3>1, CallerAlone DEF Batch
  <2>2. CASE p = "committer"
    <3>1. /\ Advance("committer") /\ UNCHANGED <<op, pending>>
          /\ Committer # "rest" /\ ret'["caller"] = ret["caller"]
      BY <1>1, <1>8, <2>2 DEF Fail, Committer, FrameTypes, ProcessTypes
    <3>2. Committer' = "rest" /\ Caller' = Caller /\ plan' = plan
      BY <1>1, <3>1, AdvanceTyped
    <3>3. QED
      BY <3>1, <3>2 DEF QueueAlone, Single, Batch
  <2>3. QED
    BY <2>1, <2>2
<1>9. CASE Fault
  <2>1. ASSUME NEW p \in Procs,
               \/ RotateFails(p)
               \/ \E n \in 0..MaxWrites, tail \in BOOLEAN : WriteFails(p, n, tail)
        PROVE  QueueAlone'
    <3>1. Fail(p) /\ pc[p] \in {"rotate", "write", "try", "rewrite", "retry"}
      BY <2>1 DEF RotateFails, WriteFails, Writing
    <3>2. QED
      BY <1>8, <3>1 DEF Caller
  <2>2. CASE AdminFails
    BY <1>8, <2>2 DEF AdminFails, Caller
  <2>3. CASE Crash
    BY <2>3 DEF Crash, GroupReset, QueueAlone, Caller, Committer, Batch
  <2>4. QED
    BY <1>9, <2>1, <2>2, <2>3 DEF Fault
<1>10. QED
  BY <1>2, <1>3, <1>5, <1>6, <1>7, <1>9, CallerQueue, CommitterQueue DEF Next

\* Nobody else rotates while a process does.
LEMMA OneRotates ==
  ASSUME FrameInv, QueueAlone, NEW p \in Procs, pc[p] = "rotate"
  PROVE  \A q \in Procs : pc[q] # "bump"
  BY DEF QueueAlone, Caller, Committer

\* Every step keeps the completed segments apart from the current one.
LEMMA SegmentsStep ==
  ASSUME FrameInv, IdsBelow, QueueAlone, SegmentsAlone, Next
  PROVE  SegmentsAlone'
<1>1. /\ counter \in Nat \ {0} /\ current \in Nat
      /\ \A s \in segments : s[1] \in Nat /\ s[2] \in Nat
      /\ pc \in [Procs -> Steps]
  BY DEF FrameInv, FrameTypes, SegmentTypes, ProcessTypes
<1>2. CASE Quiet
  BY <1>2 DEF Quiet, SegmentsAlone
<1>3. ASSUME UNCHANGED counter, \A p \in Procs : pc'[p] # "bump" \/ pc[p] = "bump",
             current' = current \/ (current' = 0 /\ \A p \in Procs : pc'[p] # "bump"),
             \A s \in segments' : s \in segments
      PROVE  SegmentsAlone'
  BY <1>3 DEF SegmentsAlone
<1>4. ASSUME NEW p \in Procs, Write(p) \/ \E n \in 0..MaxWrites, tail \in BOOLEAN :
                                            WriteFails(p, n, tail)
      PROVE  SegmentsAlone'
  <2>1. /\ UNCHANGED <<counter, current, segments>>
        /\ pc[p] \in {"write", "try", "rewrite", "retry"}
        /\ Advance(p) \/ Fail(p)
    BY <1>4 DEF Write, WriteFails, Writing
  <2>2. Caller # "down"
    BY <2>1 DEF FrameInv, Control, RestOK, Caller, Committer
  <2>3. \A q \in Procs : pc'[q] = "bump" <=> pc[q] = "bump"
    <3>1. CASE Advance(p)
      BY <2>1, <2>2, <3>1, AdvanceQuiet DEF Caller
    <3>2. CASE Fail(p)
      BY <2>1, <2>2, <3>2, FailQuiet
    <3>3. QED
      BY <2>1, <3>1, <3>2
  <2>4. QED
    BY <1>3, <2>1, <2>3
<1>5. ASSUME NEW p \in Procs, pc[p] = "rotate"
      PROVE  /\ Caller # "down" /\ current < counter
             /\ \A s \in segments : s[2] < counter
             /\ \A q \in Procs : pc[q] # "bump"
  <2>1. Caller # "down"
    BY <1>5 DEF FrameInv, Control, RestOK, Caller, Committer
  <2>2. QED
    BY <1>5, <2>1, OneRotates DEF IdsBelow, IdOK
<1>6. ASSUME NEW p \in Procs, Rotate(p) PROVE SegmentsAlone'
  <2>1. /\ pc[p] = "rotate" /\ segments' = Tracked
        /\ current' = counter /\ counter' = counter
    BY <1>6 DEF Rotate
  <2>2. \A s \in segments' : s[2] < counter
    BY <1>5, <2>1 DEF Tracked
  <2>3. \A s \in segments' : s[2] # current'
    <3>1. \A s \in segments' : s[2] \in Nat
      BY <1>1, <2>1 DEF Tracked
    <3>2. QED
      BY <1>1, <2>1, <2>2, <3>1
  <2>4. QED
    BY <2>1, <2>2, <2>3 DEF SegmentsAlone
<1>7. ASSUME NEW p \in Procs, RotateFails(p) PROVE SegmentsAlone'
  <2>1. /\ pc[p] = "rotate" /\ current' = 0 /\ Fail(p)
    BY <1>7 DEF RotateFails
  <2>2. \A q \in Procs : pc'[q] # "bump"
    BY <1>5, <2>1, FailQuiet
  <2>3. QED
    BY <2>1, <2>2 DEF SegmentsAlone
<1>8. ASSUME NEW p \in Procs, Bump(p) PROVE SegmentsAlone'
  <2>1. /\ pc[p] = "bump" /\ current' = current /\ segments' = segments
        /\ IF ret[p] = "rest" THEN Advance(p)
           ELSE pc' = [pc EXCEPT ![p] = ret[p]]
    BY <1>8 DEF Bump, Goto
  <2>2. \A q \in Procs : pc'[q] # "bump"
    <3>1. \A q \in Procs : q # p => pc[q] # "bump"
      BY <2>1 DEF QueueAlone, Caller, Committer
    <3>2. CASE Advance(p)
      <4>1. CASE p = "caller"
        <5>1. Caller' \notin Batch /\ Committer' = Committer
          BY <2>1, <3>2, <4>1, AdvanceControl DEF FrameInv, Control, Caller
        <5>2. QED
          BY <3>1, <4>1, <5>1 DEF Caller, Committer, Batch
      <4>2. CASE p = "committer"
        BY <3>1, <3>2, <4>2, AdvanceTyped DEF FrameInv, Caller, Committer
      <4>3. QED
        BY <4>1, <4>2
    <3>3. CASE pc' = [pc EXCEPT ![p] = ret[p]]
      <4>1. ret[p] # "bump"
        BY DEF FrameInv, FrameTypes, ProcessTypes
      <4>2. QED
        BY <1>1, <3>1, <3>3, <4>1
    <3>4. QED
      BY <2>1, <3>2, <3>3
  <2>3. QED
    BY <2>1, <2>2 DEF SegmentsAlone
<1>9. CASE Done
  BY <1>1, <1>3, <1>9 DEF Done, Goto
<1>10. CASE Publish \/ Close
  <2>1. /\ counter' = counter /\ Caller \in {"publish", "close"} /\ Advance("caller")
        /\ \A s \in segments' : s \in segments
        /\ current' = current \/ (current' = 0 /\ Caller = "close")
    BY <1>10 DEF Publish, Close, Caller
  <2>2. \A q \in Procs : pc'[q] = "bump" <=> pc[q] = "bump"
    BY <2>1, AdvanceQuiet DEF Caller
  <2>3. \A q \in Procs : pc[q] # "bump"
    BY <2>1 DEF QueueAlone, Caller, Committer
  <2>4. QED
    BY <1>3, <2>1, <2>2, <2>3
<1>11. ASSUME NEW i \in Ids, RemoveFile(i) PROVE SegmentsAlone'
  BY <1>3, <1>11 DEF RemoveFile
<1>12. ASSUME NEW S \in SUBSET segments, Cleanup(S) PROVE SegmentsAlone'
  BY <1>3, <1>12 DEF Cleanup
<1>13. CASE Crash
  BY <1>13 DEF Crash, SegmentsAlone
<1>14. CASE Restart
  <2>1. /\ segments' = {} /\ pc' = [pc EXCEPT !["caller"] = "rest"]
        /\ Caller = "down"
    BY <1>14 DEF Restart, FrameInv, Control, RestOK, Caller
  <2>2. \A q \in Procs : pc'[q] # "bump"
    BY <1>1, <2>1 DEF FrameInv, Control, RestOK, Committer
  <2>3. QED
    BY <2>1, <2>2 DEF SegmentsAlone
<1>15. QED
  BY <1>2, <1>4, <1>6, <1>7, <1>8, <1>9, <1>10, <1>11, <1>12, <1>13, <1>14,
     QuietSteps DEF Special

-----------------------------------------------------------------------------
(* Theorems about control.                                                 *)

\* No step changes the configuration.
LEMMA ConfigKept ==
  ASSUME Quiet \/ Special
  PROVE  UNCHANGED <<group, wait>>
<1>1. CASE Quiet
  BY <1>1 DEF Quiet
<1>2. ASSUME NEW p \in Procs,
             \/ Write(p) \/ Rotate(p) \/ Bump(p) \/ RotateFails(p)
             \/ \E n \in 0..MaxWrites, tail \in BOOLEAN : WriteFails(p, n, tail)
      PROVE  UNCHANGED <<group, wait>>
  BY <1>2 DEF Write, Rotate, Bump, RotateFails, WriteFails, Fail
<1>3. CASE \/ Done \/ Publish \/ Close \/ (\E i \in Ids : RemoveFile(i))
           \/ (\E S \in SUBSET segments : Cleanup(S)) \/ Crash \/ Restart
  BY <1>3 DEF Done, Publish, Close, RemoveFile, Cleanup, Crash, Restart
<1>4. QED
  BY <1>1, <1>2, <1>3 DEF Special

\* Everything above, from the start on.
AloneFrame == FrameInv /\ IdsBelow /\ AloneInv

\* It holds from the start and every step keeps it.
LEMMA AloneFrameInductive == Spec => []AloneFrame
<1>1. ASSUME Init PROVE AloneFrame
  <2>1. FrameInv
    BY <1>1, InitControl DEF FrameInv
  <2>2. Caller = "rest" /\ Committer = "rest" /\ pending = <<>>
    BY <1>1 DEF Init, GroupInit, Caller, Committer
  <2>3. IdsBelow
    BY <1>1 DEF Init, IdsBelow, IdOK
  <2>4. QueueAlone /\ SegmentsAlone
    BY <1>1, <2>2 DEF Init, QueueAlone, SegmentsAlone, Batch
  <2>5. QED
    BY <2>1, <2>3, <2>4 DEF AloneFrame, AloneInv
<1>2. ASSUME AloneFrame, Next PROVE AloneFrame'
  <2>1. FrameInv' /\ IdsBelow'
    BY <1>2, FrameStep, IdsStep DEF AloneFrame
  <2>2. Alone' => Alone
    BY <1>2, QuietSteps, ConfigKept DEF AloneFrame, Alone
  <2>3. ASSUME Alone PROVE QueueAlone' /\ SegmentsAlone'
    BY <1>2, <2>3, QueueStep, SegmentsStep DEF AloneFrame, AloneInv
  <2>4. QED
    BY <2>1, <2>2, <2>3 DEF AloneFrame, AloneInv
<1>3. ASSUME AloneFrame, UNCHANGED vars PROVE AloneFrame'
  <2>1. FrameInv'
    BY <1>3, FrameStutter DEF AloneFrame
  <2>2. IdsBelow' /\ AloneInv'
    BY <1>3 DEF AloneFrame, vars, IdsBelow, IdOK, AloneInv, Alone, QueueAlone,
                SegmentsAlone, Single, Caller, Committer
  <2>3. QED
    BY <2>1, <2>2 DEF AloneFrame
<1>4. QED
  BY <1>1, <1>2, <1>3, PTL DEF Spec

\* The variables of the frame log keep their types: recovery always finds a
\* last entry, ids stay within the bounds, and what is written is what calls
\* put there.
THEOREM FrameTypesHold == Spec => []FrameTypes
<1>1. AloneFrame => FrameTypes
  BY DEF AloneFrame, FrameInv
<1>2. QED
  BY <1>1, AloneFrameInductive, PTL

\* What has occurred is remembered, and faults are counted.
LEMMA StepGrows ==
  ASSUME FrameInv, Next
  PROVE  /\ past \subseteq past' /\ crashes <= crashes' /\ errors <= errors'
         /\ ver <= ver' /\ now <= now' /\ UNCHANGED <<group, wait>>
<1>1. /\ ver \in Nat /\ now \in Nat /\ crashes \in Nat /\ errors \in Nat
      /\ past \subseteq past
  BY DEF FrameInv, FrameTypes, DataTypes, RunTypes
<1>2. CASE Quiet
  BY <1>1, <1>2 DEF Quiet
<1>3. ASSUME NEW p \in Procs,
             \/ Write(p) \/ Rotate(p) \/ Bump(p) \/ RotateFails(p)
             \/ \E n \in 0..MaxWrites, tail \in BOOLEAN : WriteFails(p, n, tail)
      PROVE  /\ past \subseteq past' /\ UNCHANGED <<crashes, ver, now>>
             /\ errors' = errors \/ errors' = errors + 1
  BY <1>1, <1>3 DEF Write, Rotate, Bump, RotateFails, WriteFails, Fail
<1>4. CASE \/ Done \/ Publish \/ Close \/ (\E i \in Ids : RemoveFile(i))
           \/ (\E S \in SUBSET segments : Cleanup(S)) \/ Crash \/ Restart
  <2>1. /\ past \subseteq past' /\ UNCHANGED <<ver, now, errors>>
        /\ crashes' = crashes \/ crashes' = crashes + 1
    BY <1>1, <1>4 DEF Done, Publish, Close, RemoveFile, Cleanup, Crash, Restart
  <2>2. QED
    BY <1>1, <1>4, <2>1, ConfigKept DEF Special
<1>5. QED
  BY <1>1, <1>2, <1>3, <1>4, QuietSteps, ConfigKept DEF Special

\* A configuration that does not wait for durability is on record as such.
NoWaitKnown == ~Alone => "nowait" \in past

\* It is on record from the first state, and the record only grows.
LEMMA NoWaitRecorded == Spec => []NoWaitKnown
<1>1. Init => NoWaitKnown
  BY DEF Init, NoWaitKnown, Alone
<1>2. AloneFrame /\ NoWaitKnown /\ Next => NoWaitKnown'
  BY StepGrows DEF AloneFrame, NoWaitKnown, Alone
<1>3. NoWaitKnown /\ UNCHANGED vars => NoWaitKnown'
  BY DEF vars, NoWaitKnown, Alone
<1>4. QED
  BY <1>1, <1>2, <1>3, AloneFrameInductive, PTL DEF Spec

\* cleanup_old_segments and force_cleanup cannot remove the file that is being
\* written, when calls wait for durability or there is no group commit: it is
\* not among the completed segments at any step of a rotation, after failed
\* rotations, truncations and restarts included.
THEOREM CleanupNeverTakesCurrent ==
  ASSUME "nowait" \in Exempt
  PROVE  Spec => []CleanupSparesCurrent
<1>1. AloneFrame /\ NoWaitKnown => CleanupSparesCurrent
  BY DEF AloneFrame, AloneInv, SegmentsAlone, NoWaitKnown, CleanupSparesCurrent,
         Sound
<1>2. QED
  BY <1>1, AloneFrameInductive, NoWaitRecorded, PTL

-----------------------------------------------------------------------------
(* No accepted write is dropped on the way.                                *)

\* A sequence of records has one of version v.
Has(s, v) == \E n \in DOMAIN s : s[n].ver = v

\* Joining two sequences has what either of them has.
LEMMA HasJoined ==
  ASSUME NEW s \in Seq(LogType), NEW t \in Seq(LogType), NEW v
  PROVE  Has(s \o t, v) <=> Has(s, v) \/ Has(t, v)
<1>1. /\ Len(s \o t) = Len(s) + Len(t) /\ s \o t \in Seq(LogType)
      /\ \A i \in 1..Len(s) : (s \o t)[i] = s[i]
      /\ \A i \in 1..Len(t) : (s \o t)[i + Len(s)] = t[i]
  OBVIOUS
<1>2. PICK u : u = s \o t
  OBVIOUS
<1>3. /\ DOMAIN s = 1..Len(s) /\ DOMAIN t = 1..Len(t)
      /\ Len(s) \in Nat /\ Len(t) \in Nat
      /\ DOMAIN u = 1..(Len(s) + Len(t))
      /\ \A i \in 1..Len(s) : u[i] = s[i]
      /\ \A i \in 1..Len(t) : u[i + Len(s)] = t[i]
  <2>1. DOMAIN (s \o t) = 1..Len(s \o t)
    BY <1>1
  <2>2. QED
    BY <1>1, <1>2, <2>1
<1>4. ASSUME Has(u, v) PROVE Has(s, v) \/ Has(t, v)
  <2>1. PICK n \in 1..(Len(s) + Len(t)) : u[n].ver = v
    BY <1>3, <1>4 DEF Has
  <2>2. CASE n <= Len(s)
    <3>1. n \in 1..Len(s)
      BY <1>3, <2>1, <2>2
    <3>2. QED
      BY <1>3, <2>1, <3>1 DEF Has
  <2>3. CASE n > Len(s)
    <3>1. PICK m \in 1..Len(t) : n = m + Len(s)
      <4>1. n - Len(s) \in 1..Len(t) /\ n = (n - Len(s)) + Len(s)
        BY <1>3, <2>1, <2>3
      <4>2. QED
        BY <4>1
    <3>2. QED
      BY <1>3, <2>1, <3>1 DEF Has
  <2>4. QED
    BY <1>3, <2>1, <2>2, <2>3
<1>5. ASSUME Has(s, v) PROVE Has(u, v)
  <2>1. PICK n \in 1..Len(s) : s[n].ver = v
    BY <1>3, <1>5 DEF Has
  <2>2. n \in 1..(Len(s) + Len(t)) /\ u[n] = s[n]
    BY <1>3, <2>1
  <2>3. QED
    BY <1>3, <2>1, <2>2 DEF Has
<1>6. ASSUME Has(t, v) PROVE Has(u, v)
  <2>1. PICK n \in 1..Len(t) : t[n].ver = v
    BY <1>3, <1>6 DEF Has
  <2>2. n + Len(s) \in 1..(Len(s) + Len(t)) /\ u[n + Len(s)] = t[n]
    BY <1>3, <2>1
  <2>3. QED
    BY <1>3, <2>1, <2>2 DEF Has
<1>7. QED
  BY <1>2, <1>4, <1>5, <1>6

\* None has one, a single record has its own, and one put at the end is there.
LEMMA HasOne ==
  ASSUME NEW v
  PROVE  /\ ~Has(<<>>, v)
         /\ \A r \in LogType : Has(<<r>>, v) <=> r.ver = v
         /\ \A s \in Seq(LogType), r \in LogType :
              Has(Append(s, r), v) <=> Has(s, v) \/ r.ver = v
<1>1. ~Has(<<>>, v)
  BY DEF Has
<1>2. ASSUME NEW r \in LogType PROVE Has(<<r>>, v) <=> r.ver = v
  <2>1. DOMAIN <<r>> = {1} /\ <<r>>[1] = r
    OBVIOUS
  <2>2. QED
    BY <2>1 DEF Has
<1>3. ASSUME NEW s \in Seq(LogType), NEW r \in LogType
      PROVE  Has(Append(s, r), v) <=> Has(s, v) \/ r.ver = v
  <2>1. Append(s, r) = s \o <<r>> /\ <<r>> \in Seq(LogType)
    OBVIOUS
  <2>2. QED
    BY <1>2, <2>1, HasJoined
<1>4. QED
  BY <1>1, <1>2, <1>3

\* The places of an entry on its way, one by one.
LEMMA OnTheWay ==
  ASSUME NEW v
  PROVE  /\ InQueue(v) <=> \/ Has(pending, v) \/ Has(ents["caller"], v)
                           \/ Has(ents["committer"], v)
         /\ InQueue(v)' <=> \/ Has(pending', v) \/ Has(ents'["caller"], v)
                            \/ Has(ents'["committer"], v)
         /\ InLog(v) <=> \E i \in disk : Has(file[i], v)
         /\ InLog(v)' <=> \E i \in disk' : Has(file'[i], v)
  BY DEF InQueue, InLog, Has

\* Without group commit a single record that found no room goes to a file that
\* has just been created.
FreshOK ==
  ~group /\ (Caller = "retry" \/ (Caller = "bump" /\ ret["caller"] = "retry")) =>
    current # 0 /\ file[current] = <<>>

\* The file is created by the rotation.
LEMMA FreshStep ==
  ASSUME FrameInv, IdsBelow, FreshOK, Next
  PROVE  FreshOK'
<1>1. /\ pc \in [Procs -> Steps] /\ FrameTypes /\ Control
      /\ ret \in [Procs -> {"rest", "write", "rewrite", "retry"}]
      /\ file \in [Ids -> Seq(LogType)]
  BY DEF FrameInv, FrameTypes, ProcessTypes, SegmentTypes
<1>2. SUFFICES ASSUME ~group, Caller' \in {"retry", "bump"} PROVE FreshOK'
  BY StepGrows DEF FreshOK
<1>3. /\ Committer = "rest" /\ task = "off" /\ Caller \notin {"take", "enqueue"}
  BY <1>2 DEF FrameInv, Control, RestOK
<1>4. ASSUME Advance("caller"),
             Caller \notin {"rest", "down", "enqueue", "notify", "await", "done"}
      PROVE  FALSE
  BY <1>1, <1>2, <1>4, AdvanceControl DEF Control, Batch
<1>5. ASSUME Fail("caller") PROVE FALSE
  BY <1>1, <1>2, <1>5 DEF Fail, Caller
<1>6. ASSUME NEW step, step \notin {"retry", "bump"},
             pc' = [pc EXCEPT !["caller"] = step]
      PROVE  FALSE
  BY <1>1, <1>2, <1>6 DEF Caller
<1>7. ASSUME NEW steps, Start(Head(steps), Tail(steps)),
             Head(steps) \in {"take", "own", "sync"}
      PROVE  FALSE
  BY <1>6, <1>7 DEF Start
<1>8. CASE CallerStep
  <2>1. CASE Take("caller")
    BY <1>3, <2>1 DEF Take, Caller
  <2>2. CASE Check("caller") \/ NoRoom("caller")
    BY <1>6, <2>2 DEF Check, NoRoom, Move, ToRotate, Goto
  <2>3. CASE Write("caller") \/ Sync \/ Publish \/ Close \/ Removed
    BY <1>4, <2>3 DEF Write, Sync, Publish, Close, Removed, Caller
  <2>4. CASE Rotate("caller")
    <3>1. /\ Caller = "rotate" /\ current' = counter /\ counter \in Ids
          /\ OpenSegment(counter)
      BY <2>4 DEF Rotate, Caller, FrameInv, FrameTypes, SegmentTypes
    <3>2. counter \notin disk
      <4>1. \A p \in Procs : pc[p] # "bump"
        BY <1>3, <3>1 DEF Caller, Committer
      <4>2. IdOK(counter) => FALSE
        BY <3>1, <4>1 DEF IdOK
      <4>3. QED
        BY <3>1, <4>2 DEF IdsBelow
    <3>3. file'[counter] = <<>> /\ counter # 0
      BY <1>1, <3>1, <3>2 DEF OpenSegment
    <3>4. QED
      BY <3>1, <3>3 DEF FreshOK
  <2>5. CASE Bump("caller")
    <3>1. /\ Caller = "bump" /\ UNCHANGED <<file, current, group>>
          /\ IF ret["caller"] = "rest" THEN Advance("caller")
             ELSE pc' = [pc EXCEPT !["caller"] = ret["caller"]]
      BY <2>5 DEF Bump, Goto, Caller
    <3>2. Caller' = ret["caller"]
      BY <1>1, <1>4, <3>1 DEF Caller
    <3>3. ret["caller"] = "retry"
      BY <1>1, <1>2, <3>2
    <3>4. QED
      BY <1>2, <3>1, <3>3 DEF FreshOK
  <2>6. CASE Refused("caller") \/ Residue
    BY <1>5, <2>6 DEF Refused, Residue
  <2>7. CASE \/ PutEnqueue \/ PutNotify \/ PutAwait \/ Done \/ Renew \/ Restart
             \/ WriteOwn("own", op, "check") \/ WriteOwn("ckpt", Checkpoint, "try")
    <3>1. \E step : step \notin {"retry", "bump"} /\ pc' = [pc EXCEPT !["caller"] = step]
      BY <2>7 DEF PutEnqueue, PutNotify, PutAwait, Done, Renew, Restart, WriteOwn,
                  ToRotate, Goto
    <3>2. QED
      BY <1>6, <3>1
  <2>8. CASE Mark
    <3>1. PICK steps : steps = IF current = 0 THEN Wipe
                               ELSE IfGroup(<<"take">>) \o <<"ckpt">>
                                      \o IfGroup(<<"take">>) \o <<"sync">> \o Wipe
      OBVIOUS
    <3>2. pc' = [pc EXCEPT !["caller"] = Head(steps)]
      BY <2>8, <3>1 DEF Mark
    <3>3. Head(steps) \in {"close", "take", "ckpt"}
      BY <3>1, MarkSteps
    <3>4. QED
      BY <1>6, <3>2, <3>3
  <2>9. ASSUME NEW i \in Ids, RemoveFile(i) PROVE FALSE
    BY <1>2, <2>9 DEF RemoveFile, Caller
  <2>10. QED
    BY <1>8, <2>1, <2>2, <2>3, <2>4, <2>5, <2>6, <2>7, <2>8, <2>9
       DEF CallerStep, BatchStep
<1>9. ASSUME CommitterStep PROVE FALSE
  BY <1>3, <1>9 DEF CommitterStep, BatchStep, Take, Check, NoRoom, Write, Rotate,
     Bump, Refused, TaskStep, TaskLook, TaskTimer, TaskNotified, TaskCount, Committer
<1>10. ASSUME Fault PROVE FALSE
  <2>1. ASSUME NEW p \in Procs,
               \/ RotateFails(p)
               \/ \E n \in 0..MaxWrites, tail \in BOOLEAN : WriteFails(p, n, tail)
        PROVE  FALSE
    <3>1. Fail(p) /\ pc[p] # "rest"
      BY <2>1 DEF RotateFails, WriteFails, Writing
    <3>2. QED
      BY <1>3, <1>5, <3>1 DEF Committer
  <2>2. ASSUME AdminFails \/ Crash PROVE FALSE
    BY <1>2, <1>5, <2>2 DEF AdminFails, Crash, Caller
  <2>3. QED
    BY <1>10, <2>1, <2>2 DEF Fault
<1>11. CASE Tick
  BY <1>2, <1>11 DEF Tick, Caller
<1>12. ASSUME NEW k \in Keys, Put(k) PROVE FALSE
  <2>1. \E step : step \notin {"retry", "bump"} /\ pc' = [pc EXCEPT !["caller"] = step]
    BY <1>12 DEF Put, Start
  <2>2. QED
    BY <1>6, <2>1
<1>13. ASSUME NEW k \in Keys, BatchPut(k) PROVE FALSE
  <2>1. PICK steps : steps = IfGroup(<<"take">>) \o <<"own", "done">>
    OBVIOUS
  <2>2. Start(Head(steps), Tail(steps))
    BY <1>13, <2>1 DEF BatchPut
  <2>3. QED
    BY <1>7, <2>1, <2>2, CallHeads
<1>14. ASSUME FlushWal \/ FlushEngine \/ Shutdown PROVE FALSE
  <2>1. PICK steps : Administer(steps) /\ Head(steps) \in {"take", "own", "sync"}
    BY <1>14, CallHeads DEF FlushWal, FlushEngine, Shutdown
  <2>2. QED
    BY <1>7, <2>1 DEF Administer
<1>15. ASSUME NEW S \in SUBSET segments, Cleanup(S) PROVE FALSE
  BY <1>2, <1>15 DEF Cleanup, Caller
<1>16. QED
  BY <1>8, <1>9, <1>10, <1>11, <1>12, <1>13, <1>14, <1>15 DEF Next

\* No fault, no cleanup task, no restart so far.
Calm == past \cap (Exempt \ {"nowait"}) = {} /\ crashes = 0 /\ errors = 0

\* Then there is a current segment, unless a truncation is about to make one,
\* and it is not one of those the truncation removes.
CalmSegments ==
  /\ Caller # "down"
  /\ current = 0 => \/ Caller \in {"remove", "renew"}
                    \/ Caller = "rotate" /\ plan = PNone
  /\ current # 0 => current \in disk /\ current \notin listed
  /\ current = 0 /\ Caller \in {"remove", "renew"} => disk \subseteq listed

\* Calm steps follow calm ones.
LEMMA CalmBefore ==
  ASSUME FrameInv, Next, Calm', "cleanup" \in Exempt
  PROVE  /\ Calm /\ ~Crash /\ ~AdminFails
         /\ \A S \in SUBSET segments : ~Cleanup(S)
         /\ \A p \in Procs : ~RotateFails(p)
         /\ \A p \in Procs, n \in 0..MaxWrites, tail \in BOOLEAN :
              ~WriteFails(p, n, tail)
<1>1. /\ errors \in Nat /\ crashes \in Nat
      /\ past \subseteq past' /\ crashes <= crashes' /\ errors <= errors'
  BY StepGrows DEF FrameInv, FrameTypes, RunTypes
<1>2. Calm
  BY <1>1 DEF Calm
<1>3. errors' # errors + 1 /\ crashes' # crashes + 1 /\ past' # past \cup {"cleanup"}
  BY <1>1 DEF Calm
<1>4. QED
  BY <1>2, <1>3 DEF Crash, AdminFails, Cleanup, RotateFails, WriteFails

\* The segments, in a calm step.
LEMMA CalmSegmentsStep ==
  ASSUME FrameInv, FrameInv', IdsBelow, CalmSegments, Next, Calm',
         "cleanup" \in Exempt
  PROVE  CalmSegments'
<1>1. /\ pc \in [Procs -> Steps] /\ FrameTypes /\ Control
      /\ counter \in Nat \ {0}
  BY DEF FrameInv, FrameTypes, ProcessTypes, SegmentTypes
<1>2. /\ ~Crash /\ ~AdminFails /\ (\A p \in Procs : ~RotateFails(p))
      /\ \A S \in SUBSET segments : ~Cleanup(S)
      /\ \A p \in Procs, n \in 0..MaxWrites, tail \in BOOLEAN :
           ~WriteFails(p, n, tail)
  BY CalmBefore
\* A step that keeps the files and the caller where it is, or moves it while
\* there is a segment.
<1>3. ASSUME UNCHANGED <<current, disk>>, listed' \subseteq listed, Caller' # "down",
             current # 0 \/ (Caller' = Caller /\ plan' = plan /\ listed' = listed)
      PROVE  CalmSegments'
  BY <1>3 DEF CalmSegments
<1>4. ASSUME current = 0, Caller # "remove", Caller # "renew"
      PROVE  Caller = "rotate" /\ plan = PNone
  BY <1>4 DEF CalmSegments
<1>5. CASE CommitterStep
  <2>1. CASE Rotate("committer")
    <3>1. /\ current' = counter /\ disk' = disk \cup {counter}
          /\ Caller' = Caller /\ listed' = listed /\ plan' = plan
          /\ Committer = "rotate"
      BY <1>1, <2>1 DEF Rotate, Goto, OpenSegment, Caller, Committer
    <3>2. counter \notin listed
      <4>1. CASE Caller = "remove"
        <5>1. \A p \in Procs : pc[p] # "bump"
          BY <3>1, <4>1 DEF Caller, Committer
        <5>2. IdOK(counter) => FALSE
          BY <1>1, <5>1 DEF IdOK
        <5>3. QED
          BY <4>1, <5>2 DEF IdsBelow
      <4>2. CASE Caller # "remove"
        BY <4>2 DEF FrameInv, Control, RestOK
      <4>3. QED
        BY <4>1, <4>2
    <3>3. QED
      BY <1>1, <3>1, <3>2 DEF CalmSegments
  <2>2. CASE ~Rotate("committer")
    <3>1. /\ UNCHANGED <<current, disk, listed, plan>> /\ Caller' = Caller
      <4>1. CASE /\ TaskStep
                 /\ UNCHANGED <<config, segVars, procVars, dataVars, now, past, bounds>>
        BY <4>1 DEF Caller
      <4>2. CASE Take("committer") \/ Write("committer") \/ Refused("committer")
        <5>1. /\ UNCHANGED <<current, disk, listed>>
              /\ \/ Advance("committer")
                 \/ Goto("committer", "check")
          BY <4>2 DEF Take, Write, Refused, Fail
        <5>2. QED
          BY <1>1, <5>1, AdvanceTyped DEF Goto, Caller
      <4>3. CASE Check("committer") \/ NoRoom("committer")
        BY <1>1, <4>3 DEF Check, NoRoom, Move, ToRotate, Goto, Caller
      <4>4. CASE Bump("committer")
        <5>1. ret["committer"] # "rest"
          BY <4>4 DEF Bump, FrameInv, Control, BatchOK, Committer
        <5>2. QED
          BY <1>1, <4>4, <5>1 DEF Bump, Goto, Caller
      <4>5. QED
        BY <1>5, <2>2, <4>1, <4>2, <4>3, <4>4 DEF CommitterStep, BatchStep
    <3>2. QED
      BY <1>3, <3>1 DEF CalmSegments
  <2>3. QED
    BY <2>1, <2>2
<1>6. CASE Rotate("caller")
  <2>1. /\ Caller = "rotate" /\ current' = counter /\ disk' = disk \cup {counter}
        /\ listed' = listed /\ Caller' = "bump"
    BY <1>1, <1>6 DEF Rotate, Goto, OpenSegment, Caller
  <2>2. listed = {}
    BY <2>1 DEF FrameInv, Control, RestOK
  <2>3. QED
    BY <1>1, <2>1, <2>2 DEF CalmSegments
<1>7. CASE Close
  <2>1. /\ Caller = "close" /\ current' = 0 /\ disk' = disk /\ listed' = disk
        /\ Advance("caller")
    BY <1>7 DEF Close, Caller
  <2>2. plan = PRemove
    BY <2>1, PlansDiffer DEF FrameInv, Control, RouteOK, Batch
  <2>3. Caller' = "remove"
    BY <1>1, <2>1, <2>2, PlanFacts DEF Advance, Caller
  <2>4. QED
    BY <2>1, <2>3 DEF CalmSegments
<1>8. ASSUME NEW i \in Ids, RemoveFile(i) PROVE CalmSegments'
  BY <1>8 DEF RemoveFile, CalmSegments, Caller
<1>9. CASE Removed
  <2>1. /\ Caller = "remove" /\ UNCHANGED <<current, disk, listed>> /\ listed = {}
        /\ Advance("caller")
    BY <1>9 DEF Removed, Caller
  <2>2. plan = PRenew
    BY <2>1, PlansDiffer DEF FrameInv, Control, RouteOK, Batch
  <2>3. Caller' = "renew"
    BY <1>1, <2>1, <2>2, PlanFacts DEF Advance, Caller
  <2>4. QED
    BY <2>1, <2>3 DEF CalmSegments
<1>10. CASE Renew
  <2>1. /\ Caller = "renew" /\ Caller' = "rotate" /\ plan' = plan
        /\ UNCHANGED <<current, disk, listed>>
    BY <1>1, <1>10 DEF Renew, ToRotate, Goto, Caller
  <2>2. plan = PNone
    BY <2>1, PlansDiffer DEF FrameInv, Control, RouteOK, Batch
  <2>3. QED
    BY <2>1, <2>2 DEF CalmSegments
<1>11. CASE Residue
  <2>1. /\ Caller = "renew" /\ UNCHANGED <<current, disk>> /\ disk # {}
        /\ listed' = {} /\ Caller' # "down"
    BY <1>1, <1>11 DEF Residue, Fail, Caller
  <2>2. listed = {}
    BY <2>1 DEF FrameInv, Control, RestOK
  <2>3. current # 0
    BY <2>1, <2>2 DEF CalmSegments
  <2>4. QED
    BY <1>3, <2>1, <2>2, <2>3
<1>12. ASSUME Restart PROVE FALSE
  BY <1>12 DEF Restart, CalmSegments, Caller
\* Whoever else moves the caller has a segment.
<1>13. ASSUME Caller \notin {"remove", "renew", "rotate"}, Caller' # "down",
              UNCHANGED <<current, disk>>, listed' \subseteq listed
       PROVE  CalmSegments'
  BY <1>3, <1>4, <1>13
<1>14. CASE Caller \in {"remove", "renew", "rotate"}
  <2>1. CASE CallerStep
    <3>1. \/ Rotate("caller") \/ (\E i \in Ids : RemoveFile(i)) \/ Removed
          \/ Renew \/ Residue
      BY <1>14, <2>1 DEF CallerStep, BatchStep, Take, Check, NoRoom, Write, Bump,
         Refused, PutEnqueue, PutNotify, PutAwait, Done, WriteOwn, Sync, Publish,
         Mark, Close, Restart, Caller
    <3>2. QED
      BY <1>6, <1>8, <1>9, <1>10, <1>11, <3>1
  <2>2. ~Tick /\ (\A k \in Keys : ~Put(k) /\ ~BatchPut(k)) /\ ~FlushWal
        /\ ~FlushEngine /\ ~Shutdown
    BY <1>14 DEF Tick, Put, BatchPut, FlushWal, FlushEngine, Shutdown, Administer,
                 Start, Caller
  <2>3. QED
    BY <1>2, <1>5, <2>1, <2>2 DEF Next, Fault
<1>15. CASE Caller \notin {"remove", "renew", "rotate"}
  <2>1. CASE Quiet
    BY <1>13, <1>15, <2>1 DEF Quiet
  <2>2. ASSUME NEW p \in Procs, Write(p) \/ Rotate(p) \/ Bump(p) PROVE CalmSegments'
    <3>1. CASE p = "committer"
      BY <1>5, <2>2, <3>1 DEF CommitterStep, BatchStep
    <3>2. CASE p = "caller" /\ Rotate(p)
      BY <1>6, <3>2
    <3>3. CASE p = "caller" /\ (Write(p) \/ Bump(p))
      <4>1. /\ UNCHANGED <<current, disk, listed>>
            /\ Caller \in {"write", "try", "rewrite", "retry", "bump"}
            /\ Advance("caller") \/ pc' = [pc EXCEPT !["caller"] = ret["caller"]]
        BY <3>3 DEF Write, Bump, Goto, Caller
      <4>2. Caller' # "down"
        <5>1. CASE Advance("caller")
          BY <1>1, <4>1, <5>1, AdvanceControl DEF Control
        <5>2. CASE pc' = [pc EXCEPT !["caller"] = ret["caller"]]
          BY <1>1, <5>2 DEF Caller, FrameTypes, ProcessTypes
        <5>3. QED
          BY <4>1, <5>1, <5>2
      <4>3. QED
        BY <1>13, <1>15, <4>1, <4>2
    <3>4. QED
      BY <2>2, <3>1, <3>2, <3>3
  <2>3. CASE Done
    BY <1>1, <1>13, <1>15, <2>3 DEF Done, Goto, Caller
  <2>4. CASE Publish
    <3>1. /\ UNCHANGED <<current, disk, listed>> /\ Caller = "publish"
          /\ Advance("caller")
      BY <2>4 DEF Publish, Caller
    <3>2. Caller' # "down"
      BY <1>1, <3>1, AdvanceControl DEF Control
    <3>3. QED
      BY <1>13, <1>15, <3>1, <3>2
  <2>5. QED
    BY <1>2, <1>7, <1>8, <1>12, <2>1, <2>2, <2>3, <2>4, QuietSteps DEF Special
<1>16. QED
  BY <1>14, <1>15

\* A call goes on to wait, or to put its write into the memtable, from the
\* queue or from having written it.
LEMMA CallContinues ==
  ASSUME FrameInv, Next, Caller' \in {"notify", "await", "done"}
  PROVE  \/ PutEnqueue \/ PutNotify \/ PutAwait
         \/ Write("caller") /\ plan = PDone
         \/ Caller' = Caller /\ op' = op
<1>1. pc \in [Procs -> Steps] /\ FrameTypes /\ Control
  BY DEF FrameInv, FrameTypes, ProcessTypes
<1>2. ASSUME Advance("caller"), Caller \notin {"own", "write", "try", "rewrite", "retry"},
             Caller \in {"take", "sync", "publish", "close", "remove"}
               \/ (Caller = "bump" /\ plan = PNone)
      PROVE  FALSE
  <2>1. \E step \in Steps : pc' = [pc EXCEPT !["caller"] = step] /\ After(step, plan')
    BY <1>1, <1>2, AdvanceFacts
  <2>2. plan = PDone
    BY <1>1, <2>1 DEF After, Caller
  <2>3. QED
    BY <1>2, <2>2, PlansDiffer DEF FrameInv, Control, RouteOK, Batch
<1>3. ASSUME Fail("caller") PROVE FALSE
  BY <1>1, <1>3 DEF Fail, Caller
<1>4. ASSUME NEW step, step \notin {"notify", "await", "done"},
             pc' = [pc EXCEPT !["caller"] = step]
      PROVE  FALSE
  BY <1>1, <1>4 DEF Caller
<1>5. ASSUME NEW steps, Start(Head(steps), Tail(steps)),
             Head(steps) \in {"take", "own", "sync"}
      PROVE  FALSE
  BY <1>4, <1>5 DEF Start
<1>6. CASE CallerStep
  <2>1. ASSUME Take("caller") PROVE FALSE
    BY <1>2, <1>4, <2>1 DEF Take, Goto, Caller
  <2>2. ASSUME Check("caller") \/ NoRoom("caller") \/ Rotate("caller") PROVE FALSE
    BY <1>4, <2>2 DEF Check, NoRoom, Move, ToRotate, Rotate, Goto
  <2>3. CASE Write("caller")
    <3>1. \E step \in Steps : pc' = [pc EXCEPT !["caller"] = step] /\ After(step, plan')
      BY <1>1, <2>3, AdvanceFacts DEF Write
    <3>2. plan = PDone
      BY <1>1, <3>1 DEF After, Caller
    <3>3. QED
      BY <2>3, <3>2
  <2>4. ASSUME Bump("caller") PROVE FALSE
    <3>1. CASE ret["caller"] = "rest"
      <4>1. Caller = "bump" /\ plan = PNone /\ Advance("caller")
        BY <2>4, <3>1 DEF Bump, Caller, FrameInv, Control, BatchOK
      <4>2. QED
        BY <1>2, <4>1
    <3>2. CASE ret["caller"] # "rest"
      BY <1>1, <1>4, <2>4, <3>2 DEF Bump, Goto, FrameTypes, ProcessTypes
    <3>3. QED
      BY <3>1, <3>2
  <2>5. ASSUME Refused("caller") \/ Residue PROVE FALSE
    BY <1>3, <2>5 DEF Refused, Residue
  <2>6. ASSUME \/ Done \/ Renew \/ Restart \/ WriteOwn("own", op, "check")
               \/ WriteOwn("ckpt", Checkpoint, "try")
        PROVE  FALSE
    <3>1. \E step : step \notin {"notify", "await", "done"}
                    /\ pc' = [pc EXCEPT !["caller"] = step]
      BY <2>6 DEF Done, Renew, Restart, WriteOwn, ToRotate, Goto
    <3>2. QED
      BY <1>4, <3>1
  <2>7. ASSUME Sync \/ Publish \/ Close \/ Removed PROVE FALSE
    BY <1>2, <2>7 DEF Sync, Publish, Close, Removed, Caller
  <2>8. ASSUME Mark PROVE FALSE
    <3>1. PICK steps : steps = IF current = 0 THEN Wipe
                               ELSE IfGroup(<<"take">>) \o <<"ckpt">>
                                      \o IfGroup(<<"take">>) \o <<"sync">> \o Wipe
      OBVIOUS
    <3>2. pc' = [pc EXCEPT !["caller"] = Head(steps)]
      BY <2>8, <3>1 DEF Mark
    <3>3. Head(steps) \in {"close", "take", "ckpt"}
      BY <3>1, MarkSteps
    <3>4. QED
      BY <1>4, <3>2, <3>3
  <2>9. CASE \E i \in Ids : RemoveFile(i)
    BY <2>9 DEF RemoveFile, Caller
  <2>10. QED
    BY <1>6, <2>1, <2>2, <2>3, <2>4, <2>5, <2>6, <2>7, <2>8, <2>9
       DEF CallerStep, BatchStep
<1>7. ASSUME NEW p \in Procs, p # "caller", Fail(p) \/ Advance(p)
      PROVE  Caller' = Caller /\ (op' = op \/ ~Fail(p))
  BY <1>1, <1>7, AdvanceTyped DEF Fail
<1>8. CASE CommitterStep
  <2>1. CASE Take("committer") \/ Write("committer") \/ Refused("committer")
    <3>1. /\ Advance("committer") \/ Goto("committer", "check")
          /\ op' = op
      BY <2>1 DEF Take, Write, Refused, Fail
    <3>2. QED
      BY <1>1, <3>1, AdvanceTyped DEF Goto, Caller
  <2>2. CASE Check("committer") \/ NoRoom("committer") \/ Rotate("committer")
    BY <1>1, <2>2 DEF Check, NoRoom, Rotate, Move, ToRotate, Goto, Caller
  <2>3. CASE Bump("committer")
    <3>1. ret["committer"] # "rest"
      BY <2>3 DEF Bump, FrameInv, Control, BatchOK, Committer
    <3>2. QED
      BY <1>1, <2>3, <3>1 DEF Bump, Goto, Caller
  <2>4. CASE /\ TaskStep
             /\ UNCHANGED <<config, segVars, procVars, dataVars, now, past, bounds>>
    BY <2>4 DEF Caller
  <2>5. QED
    BY <1>8, <2>1, <2>2, <2>3, <2>4 DEF CommitterStep, BatchStep
<1>9. CASE Fault
  <2>1. ASSUME NEW p \in Procs,
               \/ RotateFails(p)
               \/ \E n \in 0..MaxWrites, tail \in BOOLEAN : WriteFails(p, n, tail)
        PROVE  Caller' = Caller /\ op' = op
    <3>1. Fail(p)
      BY <2>1 DEF RotateFails, WriteFails
    <3>2. QED
      BY <1>3, <1>7, <3>1
  <2>2. ASSUME AdminFails \/ Crash PROVE FALSE
    BY <1>3, <2>2 DEF AdminFails, Crash, Caller
  <2>3. QED
    BY <1>9, <2>1, <2>2 DEF Fault
<1>10. CASE Tick \/ \E S \in SUBSET segments : Cleanup(S)
  BY <1>10 DEF Tick, Cleanup, Caller
<1>11. ASSUME NEW k \in Keys, Put(k) PROVE FALSE
  <2>1. \E step : step \notin {"notify", "await", "done"} /\ pc' = [pc EXCEPT !["caller"] = step]
    BY <1>11 DEF Put, Start
  <2>2. QED
    BY <1>4, <2>1
<1>12. ASSUME NEW k \in Keys, BatchPut(k) PROVE FALSE
  <2>1. PICK steps : steps = IfGroup(<<"take">>) \o <<"own", "done">>
    OBVIOUS
  <2>2. Start(Head(steps), Tail(steps))
    BY <1>12, <2>1 DEF BatchPut
  <2>3. QED
    BY <1>5, <2>1, <2>2, CallHeads
<1>13. ASSUME FlushWal \/ FlushEngine \/ Shutdown PROVE FALSE
  <2>1. PICK steps : Administer(steps) /\ Head(steps) \in {"take", "own", "sync"}
    BY <1>13, CallHeads DEF FlushWal, FlushEngine, Shutdown
  <2>2. QED
    BY <1>5, <2>1 DEF Administer
<1>14. QED
  BY <1>6, <1>8, <1>9, <1>10, <1>11, <1>12, <1>13 DEF Next

\* What a write puts into the file: everything the process holds, except that
\* a single record for which there is still no room is left out; that is never
\* a write, only a checkpoint.
LEMMA WriteEffect ==
  ASSUME FrameInv, FreshOK, NEW p \in Procs, Write(p)
  PROVE  /\ UNCHANGED <<disk, pending, torn, current>>
         /\ ents' = [ents EXCEPT ![p] = <<>>] /\ current \in Ids
         /\ \/ file' = [file EXCEPT ![current] = file[current] \o ents[p]]
            \/ /\ file' = file /\ p = "caller" /\ plan \in {PTake, PLast}
               /\ \E c \in CkptType : ents[p] = <<c>>
<1>1. /\ UNCHANGED <<disk, pending, torn, current>> /\ current # 0
      /\ pc[p] \in {"write", "try", "rewrite", "retry"}
      /\ ents' = [ents EXCEPT ![p] = <<>>]
      /\ \/ file' = [file EXCEPT ![current] = file[current] \o ents[p]]
         \/ file' = file /\ pc[p] = "retry" /\ ~Fits(p)
  BY DEF Write
<1>2. current \in Ids
  BY <1>1 DEF FrameInv, FrameTypes, SegmentTypes
<1>3. ASSUME file' = file, pc[p] = "retry", ~Fits(p)
      PROVE  /\ p = "caller" /\ plan \in {PTake, PLast}
             /\ \E c \in CkptType : ents[p] = <<c>>
  <2>1. p = "caller" /\ Caller = "retry"
    BY <1>3 DEF FrameInv, Control, BatchOK, Caller, Committer
  <2>2. \/ plan = PDone /\ ~group
        \/ plan \in {PTake, PLast} /\ \E c \in CkptType : ents["caller"] = <<c>>
    BY <2>1 DEF FrameInv, Control, BatchOK, Single
  <2>3. ASSUME plan = PDone, ~group PROVE FALSE
    <3>1. ents["caller"] = <<op>> /\ file[current] = <<>>
      BY <2>1, <2>3 DEF FrameInv, Control, BatchOK, Batch, FreshOK
    <3>2. Len(ents["caller"]) = 1 /\ Len(file[current]) = 0
      BY <3>1
    <3>3. Fits("caller")
      BY <3>2 DEF Fits
    <3>4. QED
      BY <1>3, <2>1, <3>3
  <2>4. QED
    BY <2>1, <2>2, <2>3
<1>4. QED
  BY <1>1, <1>2, <1>3


\* Before the SSTable is published a calm step drops nothing: what is in the
\* queue, in a batch or in a file is in one of them afterwards.
LEMMA NothingDropped ==
  ASSUME FrameInv, FreshOK, CalmSegments, Next, Calm', "cleanup" \in Exempt,
         ~AfterPublish, NEW v \in Nat \ {0}, InQueue(v) \/ InLog(v)
  PROVE  InQueue(v)' \/ InLog(v)'
<1>1. /\ pc \in [Procs -> Steps] /\ FrameTypes /\ Control
      /\ ents \in [Procs -> Seq(LogType)] /\ pending \in Seq(PutType)
      /\ file \in [Ids -> Seq(LogType)] /\ disk \subseteq Ids /\ op \in PutType \cup {NoOp}
  BY DEF FrameInv, FrameTypes, ProcessTypes, SegmentTypes, QueueTypes
<1>2. /\ ~Crash /\ ~AdminFails /\ (\A p \in Procs : ~RotateFails(p))
      /\ \A S \in SUBSET segments : ~Cleanup(S)
      /\ \A p \in Procs, n \in 0..MaxWrites, tail \in BOOLEAN :
           ~WriteFails(p, n, tail)
  BY CalmBefore
<1>3. Caller # "renew" /\ Caller # "remove" /\ Caller # "down"
  <2>1. Caller = "remove" => plan = PRenew
    BY PlansDiffer DEF FrameInv, Control, RouteOK, Batch
  <2>2. QED
    BY <2>1 DEF AfterPublish, CalmSegments
<1>4. current # 0 /\ current \in disk
  BY <1>3 DEF CalmSegments, AfterPublish
<1>5. ASSUME UNCHANGED <<pending, ents, file, disk>> PROVE InQueue(v)' \/ InLog(v)'
  BY <1>5, OnTheWay
<1>6. ASSUME ents["caller"] = <<>>, NEW s, ents' = [ents EXCEPT !["caller"] = s],
             UNCHANGED <<pending, file, disk>>
      PROVE  InQueue(v)' \/ InLog(v)'
  <2>1. ents'["committer"] = ents["committer"] /\ ~Has(ents["caller"], v)
    BY <1>1, <1>6, HasOne DEF Procs
  <2>2. QED
    BY <1>6, <2>1, OnTheWay
<1>7. ASSUME NEW p \in Procs, pc[p] \notin Batch PROVE ents[p] = <<>>
  BY <1>7 DEF FrameInv, Control, BatchOK
<1>8. ASSUME NEW p \in Procs, BatchStep(p) PROVE InQueue(v)' \/ InLog(v)'
  <2>1. CASE Take(p)
    <3>1. pc[p] \in {"rest", "take"} /\ ents[p] = <<>>
      BY <1>7, <2>1 DEF Take, Batch
    <3>2. /\ ents' = [ents EXCEPT ![p] = pending] /\ UNCHANGED <<file, disk>>
      BY <2>1 DEF Take
    <3>3. ~Has(ents[p], v) /\ ents'[p] = pending
          /\ \A q \in Procs : q # p => ents'[q] = ents[q]
      BY <1>1, <3>1, <3>2, HasOne
    <3>4. p = "caller" \/ p = "committer"
      BY DEF Procs
    <3>5. QED
      BY <3>2, <3>3, <3>4, OnTheWay DEF Procs
  <2>2. CASE Check(p) \/ NoRoom(p) \/ Bump(p)
    <3>1. UNCHANGED <<pending, ents, file, disk>>
      BY <2>2 DEF Check, NoRoom, Bump, Move, ToRotate
    <3>2. QED
      BY <1>5, <3>1
  <2>3. CASE Write(p)
    <3>1. /\ UNCHANGED <<disk, pending>>
          /\ ents' = [ents EXCEPT ![p] = <<>>] /\ current \in Ids
          /\ \/ file' = [file EXCEPT ![current] = file[current] \o ents[p]]
             \/ file' = file /\ \E c \in CkptType : ents[p] = <<c>>
      BY <2>3, WriteEffect
    <3>2. \A q \in Procs : q # p => ents'[q] = ents[q]
      BY <1>1, <3>1
    <3>3. CASE file' = [file EXCEPT ![current] = file[current] \o ents[p]]
      <4>1. file'[current] = file[current] \o ents[p]
            /\ \A i \in disk : i # current => file'[i] = file[i]
        BY <1>1, <3>1, <3>3
      <4>2. file[current] \in Seq(LogType) /\ ents[p] \in Seq(LogType)
        BY <1>1, <3>1
      <4>3. Has(file'[current], v) <=> Has(file[current], v) \/ Has(ents[p], v)
        BY <4>1, <4>2, HasJoined
      <4>4. InLog(v) \/ Has(ents[p], v) => InLog(v)'
        BY <1>4, <3>1, <4>1, <4>3, OnTheWay
      <4>5. p = "caller" \/ p = "committer"
        BY DEF Procs
      <4>6. QED
        BY <3>1, <3>2, <4>4, <4>5, OnTheWay DEF Procs
    <3>4. CASE file' = file /\ \E c \in CkptType : ents[p] = <<c>>
      <4>1. ~Has(ents[p], v)
        <5>1. PICK c \in CkptType : ents[p] = <<c>>
          BY <3>4
        <5>2. c \in LogType /\ c.ver = 0
          BY DEF CkptType, LogType
        <5>3. Has(<<c>>, v) <=> c.ver = v
          BY <5>2, HasOne
        <5>4. QED
          BY <5>1, <5>2, <5>3
      <4>2. p = "caller" \/ p = "committer"
        BY DEF Procs
      <4>3. QED
        BY <3>1, <3>2, <3>4, <4>1, <4>2, OnTheWay DEF Procs
    <3>5. QED
      BY <3>1, <3>3, <3>4
  <2>4. CASE Rotate(p)
    <3>1. /\ UNCHANGED <<pending, ents>> /\ disk' = disk \cup {counter}
          /\ counter \in Ids
          /\ file' = IF counter \in disk THEN file ELSE [file EXCEPT ![counter] = <<>>]
      BY <2>4 DEF Rotate, OpenSegment, FrameInv, FrameTypes, SegmentTypes
    <3>2. \A i \in disk : file'[i] = file[i] /\ i \in disk'
      BY <1>1, <3>1
    <3>3. QED
      BY <3>1, <3>2, OnTheWay
  <2>5. CASE Refused(p)
    BY <1>4, <2>5 DEF Refused
  <2>6. QED
    BY <1>8, <2>1, <2>2, <2>3, <2>4, <2>5 DEF BatchStep
<1>9. CASE CallerStep
  <2>1. CASE BatchStep("caller")
    BY <1>8, <2>1 DEF Procs
  <2>2. CASE PutEnqueue
    <3>1. /\ pending' = Append(pending, op) /\ UNCHANGED <<ents, file, disk>>
          /\ op \in PutType
      <4>1. Caller = "enqueue" /\ op # NoOp
        BY <2>2 DEF PutEnqueue, Caller, FrameInv, Control, CallOK
      <4>2. QED
        BY <1>1, <2>2, <4>1 DEF PutEnqueue, Enqueue
    <3>2. pending \in Seq(LogType) /\ op \in LogType
      BY <1>1, <3>1 DEF LogType
    <3>3. Has(pending, v) => Has(pending', v)
      BY <3>1, <3>2, HasOne
    <3>4. QED
      BY <3>1, <3>3, OnTheWay
  <2>3. CASE \/ PutNotify \/ PutAwait \/ Done \/ Sync \/ Publish \/ Mark \/ Close
             \/ Removed \/ Renew
    <3>1. UNCHANGED <<pending, ents, file, disk>>
      BY <2>3 DEF PutNotify, PutAwait, Done, Sync, Publish, Mark, Close,
         Removed, Renew, ToRotate, groupVars, segVars
    <3>2. QED
      BY <1>5, <3>1
  <2>4. CASE WriteOwn("own", op, "check") \/ WriteOwn("ckpt", Checkpoint, "try")
    <3>1. \E s : ents' = [ents EXCEPT !["caller"] = s]
      BY <2>4 DEF WriteOwn
    <3>2. UNCHANGED <<pending, file, disk>> /\ pc["caller"] \in {"own", "ckpt"}
      BY <2>4 DEF WriteOwn
    <3>3. ents["caller"] = <<>>
      BY <1>7, <3>2 DEF Batch, Procs
    <3>4. QED
      BY <1>6, <3>1, <3>2, <3>3
  <2>5. CASE (\E i \in Ids : RemoveFile(i)) \/ Residue \/ Restart
    BY <1>3, <2>5 DEF RemoveFile, Residue, Restart, Caller
  <2>6. QED
    BY <1>9, <2>1, <2>2, <2>3, <2>4, <2>5 DEF CallerStep
<1>10. CASE CommitterStep
  <2>1. CASE BatchStep("committer")
    BY <1>8, <2>1 DEF Procs
  <2>2. CASE /\ TaskStep
             /\ UNCHANGED <<config, segVars, procVars, dataVars, now, past, bounds>>
    <3>1. UNCHANGED <<pending, ents, file, disk>>
      BY <2>2 DEF TaskStep, TaskLook, TaskTimer, TaskNotified, TaskCount
    <3>2. QED
      BY <1>5, <3>1
  <2>3. QED
    BY <1>10, <2>1, <2>2 DEF CommitterStep
<1>11. ASSUME NEW k \in Keys, Put(k) PROVE InQueue(v)' \/ InLog(v)'
  <2>1. /\ UNCHANGED <<pending, file, disk>> /\ pc["caller"] = "rest"
        /\ \/ UNCHANGED ents
           \/ \E s : ents' = [ents EXCEPT !["caller"] = s]
    BY <1>11 DEF Put, Start, groupVars, segVars
  <2>2. ents["caller"] = <<>>
    BY <1>7, <2>1 DEF Batch, Procs
  <2>3. QED
    BY <1>5, <1>6, <2>1, <2>2
<1>12. CASE \/ Tick \/ (\E k \in Keys : BatchPut(k))
            \/ FlushWal \/ FlushEngine \/ Shutdown
  <2>1. UNCHANGED <<pending, ents, file, disk>>
    BY <1>12 DEF Tick, BatchPut, FlushWal, FlushEngine, Shutdown, Administer,
       groupVars, segVars
  <2>2. QED
    BY <1>5, <2>1
<1>13. QED
  BY <1>2, <1>9, <1>10, <1>11, <1>12 DEF Next, Fault


\* The memtables over the SSTables show every acknowledged write ...
MemCovers ==
  \A k \in Keys : IF mem[k] # 0 THEN mem[k] >= truth[k] ELSE sst[k] >= truth[k]

\* ... and each of them, and the one under way once it is accepted, is
\* somewhere between the queue and the SSTables.
Kept(k, v) == InQueue(v) \/ InLog(v) \/ sst[k] >= v
AllKept == \A k \in Keys : truth[k] # 0 => Kept(k, truth[k])
OpKept == Caller \in {"notify", "await", "done"} => Kept(op.key, op.ver)

\* What a step does to the data.
LEMMA DataSteps ==
  ASSUME FrameInv, Next
  PROVE  UNCHANGED <<mem, sst, truth>> \/ Done \/ Publish \/ Crash \/ Restart
<1>1. CASE Quiet
  BY <1>1 DEF Quiet
<1>2. ASSUME NEW p \in Procs,
             \/ Write(p) \/ Rotate(p) \/ Bump(p) \/ RotateFails(p)
             \/ \E n \in 0..MaxWrites, tail \in BOOLEAN : WriteFails(p, n, tail)
      PROVE  UNCHANGED <<mem, sst, truth>>
  BY <1>2 DEF Write, Rotate, Bump, RotateFails, WriteFails, Fail, dataVars
<1>3. CASE Close \/ (\E i \in Ids : RemoveFile(i)) \/ (\E S \in SUBSET segments : Cleanup(S))
  BY <1>3 DEF Close, RemoveFile, Cleanup, dataVars
<1>4. QED
  BY <1>1, <1>2, <1>3, QuietSteps DEF Special

\* The memtables cover what was acknowledged, unless the process is down.
LEMMA MemStep ==
  ASSUME FrameInv, MemCovers, Next, ~Crash, ~Restart
  PROVE  MemCovers'
<1>1. /\ mem \in [Keys -> Nat] /\ sst \in [Keys -> Nat] /\ truth \in [Keys -> Nat]
  BY DEF FrameInv, FrameTypes, DataTypes
<1>2. CASE UNCHANGED <<mem, sst, truth>>
  BY <1>2 DEF MemCovers
<1>3. CASE Done
  <2>1. op \in PutType
    BY <1>3 DEF Done, Caller, FrameInv, FrameTypes, ProcessTypes, Control, CallOK
  <2>2. op.key \in Keys /\ op.ver \in Nat \ {0}
    BY <2>1 DEF PutType
  <2>3. /\ mem' = [mem EXCEPT ![op.key] = op.ver]
        /\ truth' = [truth EXCEPT ![op.key] = op.ver] /\ sst' = sst
    BY <1>3 DEF Done
  <2>4. QED
    BY <1>1, <2>2, <2>3 DEF MemCovers
<1>4. CASE Publish
  BY <1>1, <1>4 DEF Publish, MemCovers, NoVersion
<1>5. QED
  BY <1>2, <1>3, <1>4, DataSteps

\* A version that is kept stays so in a calm step, when it is still in the
\* memtables, or acknowledged.
LEMMA KeptStep ==
  ASSUME FrameInv, FreshOK, CalmSegments, MemCovers, Next, Calm',
         "cleanup" \in Exempt, ~Publish,
         NEW k \in Keys, NEW v \in Nat \ {0}, Kept(k, v),
         AfterPublish => v = truth[k]
  PROVE  Kept(k, v)'
<1>1. sst' = sst
  <2>1. ~Crash /\ ~Restart
    BY CalmBefore DEF CalmSegments, Restart, Caller
  <2>2. QED
    BY <2>1, DataSteps DEF Done
<1>2. CASE AfterPublish
  <2>1. sst[k] >= truth[k]
    BY <1>2 DEF FrameInv, Control, PubOK, MemCovers, NoVersion
  <2>2. QED
    BY <1>1, <1>2, <2>1 DEF Kept
<1>3. CASE ~AfterPublish
  <2>1. CASE InQueue(v) \/ InLog(v)
    BY <1>3, <2>1, NothingDropped DEF Kept
  <2>2. CASE sst[k] >= v
    BY <1>1, <2>2 DEF Kept
  <2>3. QED
    BY <2>1, <2>2 DEF Kept
<1>4. QED
  BY <1>2, <1>3

\* The write under way: it is kept from the queue, or from the file, on.
LEMMA OpKeptStep ==
  ASSUME FrameInv, FreshOK, CalmSegments, MemCovers, OpKept, Next, Calm',
         "cleanup" \in Exempt
  PROVE  OpKept'
<1>1. SUFFICES ASSUME Caller' \in {"notify", "await", "done"}
               PROVE  Kept(op.key, op.ver)'
  BY DEF OpKept
<1>2. /\ pc \in [Procs -> Steps] /\ op \in PutType \cup {NoOp}
      /\ pending \in Seq(LogType) /\ file \in [Ids -> Seq(LogType)]
      /\ ents \in [Procs -> Seq(LogType)]
  BY DEF FrameInv, FrameTypes, ProcessTypes, QueueTypes, SegmentTypes, LogType
<1>3. CASE PutEnqueue
  <2>1. Caller = "enqueue" /\ pending' = Append(pending, op) /\ op' = op
    BY <1>3 DEF PutEnqueue, Enqueue, Caller
  <2>2. op \in PutType
    BY <1>2, <2>1 DEF FrameInv, Control, CallOK
  <2>3. op \in LogType
    BY <2>2 DEF LogType
  <2>4. Has(pending', op.ver)
    BY <1>2, <2>1, <2>3, HasOne
  <2>5. PICK v : v = op.ver
    OBVIOUS
  <2>6. InQueue(v)'
    BY <2>4, <2>5, OnTheWay
  <2>7. QED
    BY <2>1, <2>5, <2>6 DEF Kept
<1>4. CASE Write("caller") /\ plan = PDone
  <2>1. Caller \in Batch /\ op' = op /\ current # 0
    BY <1>4 DEF Write, Caller, Batch
  <2>2. ents["caller"] = <<op>> /\ op \in PutType
    BY <1>2, <1>4, <2>1 DEF FrameInv, Control, BatchOK, CallOK
  <2>3. /\ disk' = disk /\ current \in Ids
        /\ file' = [file EXCEPT ![current] = file[current] \o ents["caller"]]
    BY <1>4, WriteEffect, PlansDiffer DEF Procs
  <2>4. current \in disk
    BY <2>1 DEF CalmSegments
  <2>5. file[current] \in Seq(LogType) /\ <<op>> \in Seq(LogType) /\ op \in LogType
    BY <1>2, <2>2, <2>3 DEF LogType
  <2>6. Has(file[current] \o <<op>>, op.ver)
    BY <2>5, HasJoined, HasOne
  <2>7. Has(file'[current], op.ver) /\ current \in disk'
    BY <1>2, <2>2, <2>3, <2>4, <2>6
  <2>8. PICK v : v = op.ver
    OBVIOUS
  <2>9. InLog(v)'
    BY <2>7, <2>8, OnTheWay
  <2>10. QED
    BY <2>1, <2>8, <2>9 DEF Kept
<1>5. CASE Caller \in {"notify", "await", "done"} /\ op' = op
  <2>1. Kept(op.key, op.ver) /\ op \in PutType
    BY <1>2, <1>5 DEF OpKept, FrameInv, Control, CallOK
  <2>2. ~AfterPublish /\ ~Publish
    BY <1>5, PlansDiffer
       DEF AfterPublish, FrameInv, Control, RouteOK, Batch, Publish, Caller
  <2>3. PICK k, v : k = op.key /\ v = op.ver
    OBVIOUS
  <2>4. k \in Keys /\ v \in Nat \ {0}
    BY <2>1, <2>3 DEF PutType
  <2>5. Kept(k, v)'
    BY <2>1, <2>2, <2>3, <2>4, KeptStep
  <2>6. QED
    BY <1>5, <2>3, <2>5 DEF Kept
<1>6. QED
  <2>1. CASE PutNotify \/ PutAwait
    <3>1. Caller \in {"notify", "await"} /\ op' = op
      BY <1>1, <1>2, <2>1 DEF PutNotify, PutAwait, Goto, Caller
    <3>2. QED
      BY <1>5, <3>1
  <2>2. CASE Caller' = Caller /\ op' = op
    BY <1>1, <1>5, <2>2
  <2>3. QED
    BY <1>1, <1>3, <1>4, <2>1, <2>2, CallContinues

\* Acknowledged writes are kept.
LEMMA AllKeptStep ==
  ASSUME FrameInv, FreshOK, CalmSegments, MemCovers, AllKept, OpKept, Next, Calm',
         "cleanup" \in Exempt
  PROVE  AllKept'
<1>1. /\ mem \in [Keys -> Nat] /\ sst \in [Keys -> Nat] /\ truth \in [Keys -> Nat]
      /\ op \in PutType \cup {NoOp}
  BY DEF FrameInv, FrameTypes, DataTypes, ProcessTypes
<1>2. ~Crash /\ ~Restart
  BY CalmBefore DEF CalmSegments, Restart, Caller
<1>3. CASE Publish
  <2>1. \A k \in Keys : sst'[k] >= truth'[k]
    BY <1>1, <1>3 DEF Publish, MemCovers
  <2>2. QED
    BY <2>1 DEF AllKept, Kept
<1>4. CASE ~Publish
  <2>1. SUFFICES ASSUME NEW k \in Keys, truth'[k] # 0
                 PROVE  Kept(k, truth[k])'
    BY DEF AllKept
  <2>2. PICK v : v = truth'[k]
    OBVIOUS
  <2>3. CASE truth'[k] = truth[k]
    <3>1. v \in Nat \ {0} /\ v = truth[k] /\ Kept(k, v)
      BY <1>1, <2>1, <2>2, <2>3 DEF AllKept
    <3>2. Kept(k, v)'
      BY <1>4, <3>1, KeptStep
    <3>3. QED
      BY <2>2, <3>2 DEF Kept
  <2>4. CASE truth'[k] # truth[k]
    <3>1. Done
      BY <1>2, <1>4, <2>4, DataSteps
    <3>2. Caller = "done" /\ truth' = [truth EXCEPT ![op.key] = op.ver]
      BY <3>1 DEF Done, Caller
    <3>3. op \in PutType /\ ~AfterPublish
      BY <1>1, <3>2, PlansDiffer
         DEF FrameInv, Control, CallOK, RouteOK, AfterPublish, Batch
    <3>4. v = op.ver /\ k = op.key
      BY <1>1, <2>2, <2>4, <3>2
    <3>5. v \in Nat \ {0} /\ Kept(k, v)
      BY <3>2, <3>3, <3>4 DEF PutType, OpKept
    <3>6. Kept(k, v)'
      BY <1>4, <3>3, <3>5, KeptStep
    <3>7. QED
      BY <2>2, <3>6 DEF Kept
  <2>5. QED
    BY <2>3, <2>4
<1>5. QED
  BY <1>3, <1>4

\* All of it together is inductive.
CalmOK ==
  FreshOK /\ (Calm => CalmSegments /\ MemCovers /\ AllKept /\ OpKept)

\* From the start on.
LEMMA CalmInductive ==
  ASSUME "cleanup" \in Exempt
  PROVE  Spec => []CalmOK
<1>1. ASSUME Init PROVE CalmOK
  <2>1. Caller = "rest" /\ current = 1 /\ disk = {1} /\ listed = {}
    BY <1>1 DEF Init, Caller, Procs
  <2>2. \A k \in Keys : mem[k] = 0 /\ sst[k] = 0 /\ truth[k] = 0
    BY <1>1 DEF Init, NoVersion
  <2>3. QED
    BY <2>1, <2>2 DEF CalmOK, FreshOK, CalmSegments, MemCovers, AllKept, OpKept
<1>2. ASSUME AloneFrame, AloneFrame', CalmOK, Next PROVE CalmOK'
  <2>1. FrameInv /\ FrameInv' /\ IdsBelow /\ FreshOK
    BY <1>2 DEF AloneFrame, CalmOK
  <2>2. FreshOK'
    BY <1>2, <2>1, FreshStep
  <2>3. ASSUME Calm' PROVE CalmSegments' /\ MemCovers' /\ AllKept' /\ OpKept'
    <3>1. Calm /\ ~Crash
      BY <1>2, <2>1, <2>3, CalmBefore
    <3>2. CalmSegments /\ MemCovers /\ AllKept /\ OpKept
      BY <1>2, <3>1 DEF CalmOK
    <3>3. ~Restart
      BY <3>2 DEF CalmSegments, Restart, Caller
    <3>4. CalmSegments'
      BY <1>2, <2>1, <2>3, <3>2, CalmSegmentsStep
    <3>5. MemCovers'
      BY <1>2, <2>1, <3>1, <3>2, <3>3, MemStep
    <3>6. AllKept'
      BY <1>2, <2>1, <2>3, <3>2, AllKeptStep
    <3>7. OpKept'
      BY <1>2, <2>1, <2>3, <3>2, OpKeptStep
    <3>8. QED
      BY <3>4, <3>5, <3>6, <3>7
  <2>4. QED
    BY <2>2, <2>3 DEF CalmOK
<1>3. ASSUME CalmOK, UNCHANGED vars PROVE CalmOK'
  BY <1>3 DEF CalmOK, vars, FreshOK, Calm, CalmSegments, MemCovers, AllKept, OpKept,
     Kept, InQueue, InLog, Caller
<1>4. QED
  BY <1>1, <1>2, <1>3, AloneFrameInductive, PTL DEF Spec

\* Without crashes, I/O errors or the cleanup task, and whatever the
\* configuration, an entry that was acknowledged is in the queue, in a batch
\* being written, in a file or in an SSTable at every step: neither the taking
\* of the queue, nor a rotation between two attempts to write a batch, nor the
\* truncation after a flush drops it.
THEOREM WritesNeverVanish ==
  ASSUME "cleanup" \in Exempt
  PROVE  Spec => []NoAckedWriteVanishes
<1>1. CalmOK => NoAckedWriteVanishes
  BY DEF CalmOK, Calm, AllKept, Kept, NoAckedWriteVanishes
<1>2. QED
  BY <1>1, CalmInductive, PTL


-----------------------------------------------------------------------------
(* What a crash leaves gives back every acknowledged write.                *)

\* What a step does to the files: nothing, ...
LogSame ==
  UNCHANGED <<file, disk, torn>> /\ current' \in {0, current}

\* ... a record at the end of the current one, ...
Appends(r) ==
  /\ current \in Ids /\ file' = [file EXCEPT ![current] = Append(@, r)]
  /\ UNCHANGED <<disk, torn>> /\ current' \in {0, current}

\* ... a new one, with an id above all others, ...
NewFile ==
  \E i \in Ids : /\ i \notin disk /\ \A j \in disk : j < i
                 /\ disk' = disk \cup {i} /\ file' = [file EXCEPT ![i] = <<>>]
                 /\ torn' = torn \ {i} /\ current' = i

\* ... or one less, by truncate_after_flush.
OneLess ==
  /\ Caller = "remove" /\ Caller' = "remove" /\ plan' = plan
  /\ UNCHANGED <<file, torn, current>> /\ disk' \subseteq disk

\* Whose record it is: the write under way, while nothing is being truncated,
\* or a checkpoint, written by the caller.
AppendsOp ==
  /\ op \in PutType /\ Appends(op)
  /\ (plan = PDone /\ Caller \in Batch) \/ Caller \in {"notify", "await"}
AppendsCkpt ==
  /\ \E c \in CkptType : Appends(c)
  /\ Write("caller") /\ plan \in {PTake, PLast}

\* What a process holds while it writes.
LEMMA BatchHeld ==
  ASSUME FrameInv, QueueAlone, NEW p \in Procs,
         pc[p] \in {"write", "try", "rewrite", "retry"}
  PROVE  \/ /\ ents[p] = <<op>> /\ op \in PutType
            /\ (plan = PDone /\ Caller \in Batch) \/ Caller \in {"notify", "await"}
         \/ /\ p = "caller" /\ plan \in {PTake, PLast}
            /\ \E c \in CkptType : ents[p] = <<c>>
<1>1. op \in PutType \cup {NoOp}
  BY DEF FrameInv, FrameTypes, ProcessTypes
<1>2. CASE p = "committer"
  <2>1. Caller \in {"notify", "await"} /\ ents[p] = <<op>>
    BY <1>2 DEF QueueAlone, Committer
  <2>2. QED
    BY <1>1, <2>1 DEF FrameInv, Control, CallOK
<1>3. CASE p = "caller"
  <2>1. Caller \in Batch /\ Caller \notin {"rotate", "bump", "check"}
    BY <1>3 DEF Caller, Batch
  <2>2. plan # PNone
    BY <1>3, <2>1, PlansDiffer DEF FrameInv, Control, RouteOK, Caller
  <2>3. CASE plan = PDone
    BY <1>1, <1>3, <2>1, <2>3 DEF FrameInv, Control, CallOK, BatchOK
  <2>4. CASE Single /\ plan # PDone
    BY <1>3, <2>4 DEF FrameInv, Control, BatchOK
  <2>5. QED
    BY <2>1, <2>2, <2>3, <2>4 DEF QueueAlone
<1>4. QED
  BY <1>2, <1>3 DEF Procs

\* A record is written whole, or not at all.
LEMMA PartialOne ==
  ASSUME FrameInv, current \in Ids, NEW p \in Procs, NEW r \in LogType,
         ents[p] = <<r>>, NEW n \in {0, 1}, Partial(p, n, FALSE),
         disk' = disk, current' \in {0, current}
  PROVE  LogSame \/ Appends(r)
<1>1. /\ file \in [Ids -> Seq(LogType)] /\ file[current] \in Seq(LogType)
  BY DEF FrameInv, FrameTypes, SegmentTypes
<1>2. /\ file' = [file EXCEPT ![current] = file[current] \o SubSeq(<<r>>, 1, n)]
      /\ torn' = torn
  BY DEF Partial
<1>3. CASE n = 0
  <2>1. SubSeq(<<r>>, 1, n) = <<>>
    BY <1>3
  <2>2. file[current] \o <<>> = file[current]
    BY <1>1
  <2>3. file' = file
    BY <1>1, <1>2, <2>1, <2>2
  <2>4. QED
    BY <1>2, <2>3 DEF LogSame
<1>4. CASE n = 1
  <2>1. SubSeq(<<r>>, 1, n) = <<r>>
    <3>1. <<r>> \in Seq(LogType) /\ Len(<<r>>) = 1
      OBVIOUS
    <3>2. QED
      BY <1>4, <3>1, SubSeqFull
  <2>2. file[current] \o <<r>> = Append(file[current], r)
    BY <1>1
  <2>3. QED
    BY <1>2, <2>1, <2>2 DEF Appends
<1>5. QED
  BY <1>3, <1>4

\* A checkpoint in the caller's hands is a remnant of an error.
LEMMA CkptRemains ==
  ASSUME \E c \in CkptType : ents["caller"] = <<c>>
  PROVE  Remnants # {}
<1>1. PICK c \in CkptType : ents["caller"] = <<c>>
  OBVIOUS
<1>2. 1 \in DOMAIN ents["caller"] /\ ents["caller"][1].kind = "ckpt"
  BY <1>1 DEF CkptType
<1>3. QED
  BY <1>2 DEF Remnants

\* Every step without a circumstance that loses writes is of one of these
\* kinds, as far as the files are concerned.
LEMMA LogStep ==
  ASSUME FrameInv, IdsBelow, FreshOK, QueueAlone, torn = {}, Next, past' = {}
  PROVE  LogSame \/ NewFile \/ OneLess \/ AppendsOp \/ AppendsCkpt
<1>1. /\ pc \in [Procs -> Steps] /\ FrameTypes /\ Control
      /\ file \in [Ids -> Seq(LogType)] /\ disk \subseteq Ids
      /\ ents \in [Procs -> Seq(LogType)] /\ MaxIds \in Nat /\ PutType \subseteq LogType
      /\ CkptType \subseteq LogType /\ current \in Ids \cup {0}
  BY DEF FrameInv, FrameTypes, ProcessTypes, SegmentTypes, LogType
\* A write that is done, or that an error or a crash interrupts.
<1>2. ASSUME NEW p \in Procs, Writing(p), Remnants = {}, NEW n \in {0, 1},
             Partial(p, n, FALSE), disk' = disk, current' \in {0, current}
      PROVE  LogSame \/ AppendsOp
  <2>1. pc[p] \in {"write", "try", "rewrite", "retry"} /\ current \in Ids
    BY <1>1, <1>2 DEF Writing
  <2>2. ~(p = "caller" /\ \E c \in CkptType : ents[p] = <<c>>)
    BY <1>2, CkptRemains
  <2>3. /\ ents[p] = <<op>> /\ op \in PutType
        /\ (plan = PDone /\ Caller \in Batch) \/ Caller \in {"notify", "await"}
    BY <2>1, <2>2, BatchHeld
  <2>4. LogSame \/ Appends(op)
    BY <1>1, <1>2, <2>1, <2>3, PartialOne
  <2>5. QED
    BY <2>3, <2>4 DEF AppendsOp
<1>3. ASSUME NEW p \in Procs, Writing(p) PROVE Len(ents[p]) = 1
  <2>1. \E r \in LogType : ents[p] = <<r>>
    BY <1>1, <1>3, BatchHeld DEF Writing
  <2>2. QED
    BY <2>1
<1>4. ASSUME NEW p \in Procs, Write(p)
      PROVE  LogSame \/ AppendsOp \/ AppendsCkpt
  <2>1. /\ UNCHANGED <<disk, torn, current>> /\ current \in Ids
        /\ \/ file' = [file EXCEPT ![current] = file[current] \o ents[p]]
           \/ file' = file
    BY <1>4, WriteEffect
  <2>2. CASE file' = file
    BY <2>1, <2>2 DEF LogSame
  <2>3. CASE file' = [file EXCEPT ![current] = file[current] \o ents[p]]
    <3>1. ASSUME NEW r \in LogType, ents[p] = <<r>> PROVE Appends(r)
      <4>1. file[current] \o <<r>> = Append(file[current], r)
        BY <1>1, <2>1
      <4>2. QED
        BY <2>1, <2>3, <3>1, <4>1 DEF Appends
    <3>2. pc[p] \in {"write", "try", "rewrite", "retry"}
      BY <1>4 DEF Write
    <3>3. CASE /\ ents[p] = <<op>> /\ op \in PutType
               /\ (plan = PDone /\ Caller \in Batch) \/ Caller \in {"notify", "await"}
      BY <1>1, <3>1, <3>3 DEF AppendsOp
    <3>4. CASE /\ p = "caller" /\ plan \in {PTake, PLast}
               /\ \E c \in CkptType : ents[p] = <<c>>
      BY <1>1, <1>4, <3>1, <3>4 DEF AppendsCkpt
    <3>5. QED
      BY <3>2, <3>3, <3>4, BatchHeld
  <2>4. QED
    BY <2>1, <2>2, <2>3
<1>5. ASSUME NEW p \in Procs, Rotate(p) PROVE NewFile
  <2>1. /\ pc[p] = "rotate" /\ current' = counter /\ OpenSegment(counter)
        /\ counter \in Ids
    BY <1>5 DEF Rotate, FrameInv, FrameTypes, SegmentTypes
  <2>2. \A q \in Procs : pc[q] # "bump"
    BY <2>1, OneRotates
  <2>3. Caller # "down"
    BY <2>1 DEF Caller, Procs, FrameInv, Control, RestOK, Committer
  <2>4. \A j \in disk : j < counter
    BY <2>2, <2>3 DEF IdsBelow, IdOK
  <2>5. counter \notin disk
    <3>1. ~(counter < counter)
      BY <2>1 DEF Ids
    <3>2. QED
      BY <2>4, <3>1
  <2>6. QED
    BY <2>1, <2>4, <2>5 DEF OpenSegment, NewFile
<1>6. CASE Restart
  <2>1. PICK next : next = Max({0} \cup disk) + 1
    OBVIOUS
  <2>2. next \in Ids /\ current' = next /\ OpenSegment(next)
    BY <1>6, <2>1, NextId DEF Restart, Ids, FrameInv
  <2>3. \A j \in disk : j < next
    <3>1. PICK m : m = Max({0} \cup disk)
      OBVIOUS
    <3>2. m \in Nat /\ next = m + 1 /\ \A j \in disk : j <= m
      BY <1>1, <2>1, <3>1, NextId
    <3>3. QED
      BY <1>1, <3>2 DEF Ids
  <2>4. next \notin disk
    <3>1. ~(next < next)
      BY <2>2 DEF Ids
    <3>2. QED
      BY <2>3, <3>1
  <2>5. QED
    BY <2>2, <2>3, <2>4 DEF OpenSegment, NewFile
<1>7. ASSUME NEW p \in Procs, NEW n \in 0..MaxWrites, NEW tail \in BOOLEAN,
             WriteFails(p, n, tail)
      PROVE  LogSame \/ AppendsOp
  <2>1. /\ Writing(p) /\ Partial(p, n, tail) /\ UNCHANGED <<disk, current>>
        /\ n <= Len(ents[p])
        /\ past' = past \cup Remnants \cup (IF tail THEN {"torn"} ELSE {})
    BY <1>7 DEF WriteFails
  <2>2. Remnants = {} /\ tail = FALSE
    BY <2>1
  <2>3. n \in {0, 1}
    <3>1. Len(ents[p]) = 1
      BY <1>3, <2>1
    <3>2. n \in Int /\ 0 <= n /\ n <= 1
      BY <2>1, <3>1
    <3>3. QED
      BY <3>2
  <2>4. QED
    BY <1>2, <2>1, <2>2, <2>3
<1>8. CASE Crash
  <2>1. /\ past' = past \cup Remnants \cup (IF torn' # torn THEN {"torn"} ELSE {})
        /\ disk' = disk /\ current' = 0
    BY <1>8 DEF Crash
  <2>2. Remnants = {} /\ torn' = torn
    BY <2>1
  <2>3. CASE UNCHANGED <<file, torn>>
    BY <2>1, <2>3 DEF LogSame
  <2>4. ASSUME NEW p \in Procs, Writing(p), NEW tail \in BOOLEAN, Partial(p, 0, tail)
        PROVE  LogSame \/ AppendsOp
    <3>1. Partial(p, 0, FALSE)
      BY <2>2, <2>4 DEF Partial
    <3>2. QED
      BY <1>2, <2>1, <2>2, <2>4, <3>1
  <2>5. ASSUME NEW p \in Procs, Writing(p), Partial(p, Len(ents[p]), FALSE)
        PROVE  LogSame \/ AppendsOp
    <3>1. Partial(p, 1, FALSE)
      BY <1>3, <2>5
    <3>2. QED
      BY <1>2, <2>1, <2>2, <2>5, <3>1
  <2>6. QED
    BY <1>8, <2>3, <2>4, <2>5 DEF Crash
<1>9. CASE Quiet \/ Done \/ Publish \/ Close
  BY <1>9 DEF Quiet, Done, Publish, Close, segVars, LogSame
<1>10. ASSUME NEW p \in Procs, Bump(p) \/ RotateFails(p) PROVE LogSame
  BY <1>10 DEF Bump, RotateFails, LogSame
<1>11. ASSUME NEW i \in Ids, RemoveFile(i) PROVE OneLess
  BY <1>11 DEF RemoveFile, OneLess, Caller
<1>12. ASSUME NEW S \in SUBSET segments, Cleanup(S) PROVE FALSE
  BY <1>12 DEF Cleanup
<1>13. QED
  BY <1>4, <1>5, <1>6, <1>7, <1>8, <1>9, <1>10, <1>11, <1>12, QuietSteps DEF Special


\* What has been logged: some entry of k at least as new as v, or none of k.
Held(k, v) ==
  \E i \in disk : \E n \in DOMAIN file[i] : file[i][n].key = k /\ file[i][n].ver >= v
Absent(k) == \A i \in disk : \A n \in DOMAIN file[i] : file[i][n].key # k

\* An acknowledged write is in the files, or its key is in none of them and
\* the SSTables have it.  The truncation removes files in any order: until the
\* last one is gone a restart could find the older ones only.
Covered(k) == Held(k, truth[k]) \/ (Absent(k) /\ sst[k] >= truth[k])
LogCovers == Caller \notin {"remove", "renew"} => \A k \in Keys : Covered(k)

\* The write under way is in the files before its caller hears of it.
OpLogged == Caller = "done" \/ reply = "ok" => Held(op.key, op.ver)

\* In the order of replay, neither versions nor times go back.
Earlier(i, m, j, n) == i < j \/ (i = j /\ m < n)
Ordered ==
  \A i, j \in disk : \A m \in DOMAIN file[i], n \in DOMAIN file[j] :
    /\ Earlier(i, m, j, n)
    /\ file[i][m].kind = "put" /\ file[j][n].kind = "put"
    => file[i][m].ver <= file[j][n].ver /\ file[i][m].ts <= file[j][n].ts
Bounded ==
  \A i \in disk : \A n \in DOMAIN file[i] :
    file[i][n].ver <= ver /\ (file[i][n].kind = "put" => file[i][n].ts <= now)

\* The current file is the last one; those that truncate_after_flush has still
\* to remove are all there are.
SegsOK ==
  /\ current # 0 => current \in disk /\ \A i \in disk : i <= current
  /\ Caller = "remove" => current = 0 /\ disk = listed

\* A checkpoint is in the files only while shutdown() goes on to remove them.
NoCkpt == \A i \in disk : \A n \in DOMAIN file[i] : file[i][n].kind # "ckpt"
CkptPlace ==
  \/ Caller = "take" /\ plan = PLast
  \/ Caller = "sync" /\ plan = PWipe
  \/ Caller \in {"close", "remove"}
CkptOK == NoCkpt \/ CkptPlace

\* The places of a file before and after a record is put at its end.
LEMMA Appended ==
  ASSUME FrameInv, NEW r \in LogType, Appends(r)
  PROVE  /\ \A i \in Ids : \A n \in DOMAIN file'[i] :
              /\ n \in Nat
              /\ \/ n \in DOMAIN file[i] /\ file'[i][n] = file[i][n]
                 \/ /\ i = current /\ n = Len(file[current]) + 1
                    /\ file'[i][n] = r
         /\ \A i \in Ids : \A n \in DOMAIN file[i] :
              /\ n \in DOMAIN file'[i] /\ file'[i][n] = file[i][n]
              /\ n \in Nat /\ n < Len(file[i]) + 1
         /\ Len(file[current]) + 1 \in DOMAIN file'[current]
         /\ file'[current][Len(file[current]) + 1] = r
<1>1. /\ file \in [Ids -> Seq(LogType)] /\ current \in Ids
      /\ file' = [file EXCEPT ![current] = Append(file[current], r)]
  BY DEF FrameInv, FrameTypes, SegmentTypes, Appends
<1>2. PICK s \in Seq(LogType) : s = file[current]
  BY <1>1
<1>3. PICK t : t = Append(s, r)
  OBVIOUS
<1>4. /\ DOMAIN t = 1..(Len(s) + 1) /\ DOMAIN s = 1..Len(s) /\ Len(s) \in Nat
      /\ \A n \in 1..Len(s) : t[n] = s[n]
      /\ t[Len(s) + 1] = r
  <2>1. /\ Append(s, r) \in Seq(LogType) /\ Len(Append(s, r)) = Len(s) + 1
        /\ \A n \in 1..Len(s) : Append(s, r)[n] = s[n]
        /\ Append(s, r)[Len(s) + 1] = r
    OBVIOUS
  <2>2. DOMAIN Append(s, r) = 1..Len(Append(s, r))
    BY <2>1
  <2>3. QED
    BY <1>3, <2>1, <2>2
<1>5. file'[current] = t /\ \A i \in Ids : i # current => file'[i] = file[i]
  BY <1>1, <1>2, <1>3
<1>6. \A i \in Ids : DOMAIN file[i] = 1..Len(file[i]) /\ Len(file[i]) \in Nat
  BY <1>1
<1>7. \A i \in Ids : \A n \in DOMAIN file[i] : n \in Nat /\ n < Len(file[i]) + 1
  BY <1>6
<1>8. \A n \in DOMAIN t : n \in DOMAIN s \/ n = Len(s) + 1
  BY <1>4
<1>9. \A n \in DOMAIN t : n \in Nat
  BY <1>4
<1>10. \A n \in DOMAIN s : n \in DOMAIN t /\ t[n] = s[n]
  BY <1>4
<1>11. Len(s) + 1 \in DOMAIN t
  BY <1>4
<1>12. QED
  BY <1>1, <1>2, <1>4, <1>5, <1>7, <1>8, <1>9, <1>10, <1>11

\* What a step that keeps the files, adds one or removes one does to the places.
LEMMA Untouched ==
  ASSUME FrameInv, LogSame \/ NewFile \/ OneLess
  PROVE  \A i \in disk' : /\ i \in Ids
                          /\ \/ i \in disk /\ file'[i] = file[i]
                             \/ file'[i] = <<>>
<1>1. file \in [Ids -> Seq(LogType)] /\ disk \subseteq Ids
  BY DEF FrameInv, FrameTypes, SegmentTypes
<1>2. QED
  BY <1>1 DEF LogSame, NewFile, OneLess

\* What is held stays so, unless files are removed.
LEMMA HeldStep ==
  ASSUME FrameInv, NEW k, NEW v, Held(k, v),
         LogSame \/ NewFile \/ \E r \in LogType : Appends(r)
  PROVE  Held(k, v)'
<1>1. PICK i \in disk : \E n \in DOMAIN file[i] : file[i][n].key = k /\ file[i][n].ver >= v
  BY DEF Held
<1>2. file \in [Ids -> Seq(LogType)] /\ i \in Ids
  BY DEF FrameInv, FrameTypes, SegmentTypes
<1>3. PICK n \in DOMAIN file[i] : file[i][n].key = k /\ file[i][n].ver >= v
  BY <1>1
<1>4. i \in disk' /\ n \in DOMAIN file'[i] /\ file'[i][n] = file[i][n]
  <2>1. CASE LogSame
    BY <1>1, <1>3, <2>1 DEF LogSame
  <2>2. CASE NewFile
    BY <1>1, <1>2, <1>3, <2>2 DEF NewFile
  <2>3. ASSUME NEW r \in LogType, Appends(r)
        PROVE  i \in disk' /\ n \in DOMAIN file'[i] /\ file'[i][n] = file[i][n]
    BY <1>1, <1>2, <1>3, <2>3, Appended DEF Appends
  <2>4. QED
    BY <2>1, <2>2, <2>3
<1>5. QED
  BY <1>1, <1>3, <1>4 DEF Held

\* A key that is nowhere stays so, unless it is written.
LEMMA AbsentStep ==
  ASSUME FrameInv, NEW k, Absent(k),
         \/ LogSame \/ NewFile
         \/ \E r \in LogType : Appends(r) /\ r.key # k
  PROVE  Absent(k)'
<1>1. CASE LogSame \/ NewFile
  BY <1>1, Untouched DEF Absent
<1>2. ASSUME NEW r \in LogType, Appends(r), r.key # k PROVE Absent(k)'
  <2>1. disk' = disk /\ disk \subseteq Ids
    BY <1>2 DEF Appends, FrameInv, FrameTypes, SegmentTypes
  <2>2. QED
    BY <1>2, <2>1, Appended DEF Absent
<1>3. QED
  BY <1>1, <1>2

\* What has just been written is held.
LEMMA HeldNow ==
  ASSUME FrameInv, SegsOK, NEW r \in PutType, Appends(r)
  PROVE  Held(r.key, r.ver)'
<1>1. current \in disk' /\ r \in LogType /\ r.ver >= r.ver
  BY DEF SegsOK, Appends, PutType, LogType, Ids
<1>2. /\ Len(file[current]) + 1 \in DOMAIN file'[current]
      /\ file'[current][Len(file[current]) + 1] = r
  BY <1>1, Appended
<1>3. QED
  BY <1>1, <1>2 DEF Held

\* Versions and times are bounded by the last ones handed out ...
LEMMA BoundedStep ==
  ASSUME FrameInv, Bounded, Next,
         LogSame \/ NewFile \/ OneLess \/ AppendsOp \/ AppendsCkpt
  PROVE  Bounded'
<1>1. /\ ver <= ver' /\ now <= now' /\ ver \in Nat /\ now \in Nat
      /\ ver' \in Nat /\ now' \in Nat
  BY StepGrows, FrameStep DEF FrameInv, FrameTypes, DataTypes, RunTypes
<1>2. /\ disk \subseteq Ids /\ file \in [Ids -> Seq(LogType)]
      /\ \A i \in Ids : \A n \in DOMAIN file[i] :
           file[i][n].ver \in Nat /\ file[i][n].ts \in Nat
  <2>1. disk \subseteq Ids /\ file \in [Ids -> Seq(LogType)]
    BY DEF FrameInv, FrameTypes, SegmentTypes
  <2>2. \A i \in Ids : \A n \in DOMAIN file[i] : file[i][n] \in LogType
    BY <2>1
  <2>3. \A r \in LogType : r.ver \in Nat /\ r.ts \in Nat
    BY DEF LogType, PutType, CkptType
  <2>4. QED
    BY <2>1, <2>2, <2>3
\* The bounds move on.
<1>3. ASSUME NEW i \in disk, NEW n \in DOMAIN file[i]
      PROVE  /\ file[i][n].ver <= ver'
             /\ file[i][n].kind = "put" => file[i][n].ts <= now'
  <2>1. /\ file[i][n].ver \in Nat /\ file[i][n].ts \in Nat
        /\ file[i][n].ver <= ver
        /\ file[i][n].kind = "put" => file[i][n].ts <= now
    BY <1>2, <1>3 DEF Bounded
  <2>2. QED
    BY <1>1, <2>1
<1>4. ASSUME NEW r \in LogType, Appends(r), r.ver <= ver,
             r.kind = "put" => r.ts <= now
      PROVE  Bounded'
  <2>1. r.ver <= ver' /\ (r.kind = "put" => r.ts <= now')
    <3>1. r.ver \in Nat /\ r.ts \in Nat
      BY DEF LogType, PutType, CkptType
    <3>2. QED
      BY <1>1, <1>4, <3>1
  <2>2. disk' = disk
    BY <1>4 DEF Appends
  <2>3. ASSUME NEW i \in disk, NEW n \in DOMAIN file'[i]
        PROVE  /\ file'[i][n].ver <= ver'
               /\ file'[i][n].kind = "put" => file'[i][n].ts <= now'
    <3>1. \/ n \in DOMAIN file[i] /\ file'[i][n] = file[i][n]
          \/ file'[i][n] = r
      BY <1>2, <1>4, <2>3, Appended
    <3>2. QED
      BY <1>3, <2>1, <3>1
  <2>4. QED
    BY <2>2, <2>3 DEF Bounded
<1>5. CASE AppendsOp
  <2>1. op \in LogType /\ Appends(op) /\ op # NoOp
    BY <1>5 DEF AppendsOp, LogType, PutType, NoOp
  <2>2. op.ver = ver /\ op.ts = now
    BY <2>1 DEF FrameInv, Control, CallOK
  <2>3. QED
    BY <1>1, <1>4, <2>1, <2>2
<1>6. CASE AppendsCkpt
  <2>1. PICK c \in CkptType : Appends(c)
    BY <1>6 DEF AppendsCkpt
  <2>2. c \in LogType /\ c.ver = 0 /\ c.kind = "ckpt"
    BY DEF CkptType, LogType
  <2>3. QED
    BY <1>1, <1>4, <2>1, <2>2
<1>7. CASE LogSame \/ NewFile \/ OneLess
  BY <1>3, <1>7, Untouched DEF Bounded
<1>8. QED
  BY <1>5, <1>6, <1>7

\* ... so that what is written comes last.
LEMMA OrderedStep ==
  ASSUME FrameInv, SegsOK, Bounded, Ordered,
         LogSame \/ NewFile \/ OneLess \/ AppendsOp \/ AppendsCkpt
  PROVE  Ordered'
<1>1. /\ disk \subseteq Ids /\ file \in [Ids -> Seq(LogType)]
      /\ \A i \in Ids : i \in Nat
  BY DEF FrameInv, FrameTypes, SegmentTypes, Ids
<1>2. CASE LogSame \/ NewFile \/ OneLess
  BY <1>2, Untouched DEF Ordered
<1>3. ASSUME NEW r \in LogType, Appends(r), r.kind = "put" => r.ver = ver /\ r.ts = now
      PROVE  Ordered'
  <2>1. disk' = disk /\ current \in disk /\ \A i \in disk : i <= current
    BY <1>3 DEF Appends, SegsOK, Ids
  <2> SUFFICES ASSUME NEW i \in disk, NEW j \in disk,
                      NEW m \in DOMAIN file'[i], NEW n \in DOMAIN file'[j],
                      Earlier(i, m, j, n),
                      file'[i][m].kind = "put", file'[j][n].kind = "put"
               PROVE  file'[i][m].ver <= file'[j][n].ver /\ file'[i][m].ts <= file'[j][n].ts
    BY <2>1 DEF Ordered, Earlier
  <2>2. i \in Nat /\ j \in Nat /\ i \in Ids /\ j \in Ids /\ current \in Nat
    BY <1>1, <2>1
  <2>3. /\ m \in Nat
        /\ \/ m \in DOMAIN file[i] /\ file'[i][m] = file[i][m]
           \/ i = current /\ m = Len(file[current]) + 1 /\ file'[i][m] = r
    BY <1>3, <2>2, Appended
  <2>4. /\ n \in Nat
        /\ \/ n \in DOMAIN file[j] /\ file'[j][n] = file[j][n]
           \/ j = current /\ n = Len(file[current]) + 1 /\ file'[j][n] = r
    BY <1>3, <2>2, Appended
  <2>5. CASE /\ m \in DOMAIN file[i] /\ file'[i][m] = file[i][m]
             /\ n \in DOMAIN file[j] /\ file'[j][n] = file[j][n]
    BY <2>5 DEF Ordered
  <2>6. CASE /\ m \in DOMAIN file[i] /\ file'[i][m] = file[i][m]
             /\ file'[j][n] = r
    <3>1. r.ver = ver /\ r.ts = now
      BY <1>3, <2>6
    <3>2. QED
      BY <2>6, <3>1 DEF Bounded
  <2>7. CASE i = current /\ m = Len(file[current]) + 1 /\ file'[i][m] = r
    <3>1. j <= current /\ ~(i < j)
      BY <2>1, <2>2, <2>7
    <3>2. j = current /\ m < n
      BY <2>7, <3>1 DEF Earlier
    <3>3. \A x \in DOMAIN file[current] : x \in Nat /\ x < Len(file[current]) + 1
      BY <1>1, <1>3, <2>1, Appended
    <3>4. Len(file[current]) \in Nat
      BY <1>1, <2>1
    <3>5. CASE n \in DOMAIN file[j]
      BY <2>3, <2>4, <2>7, <3>2, <3>3, <3>4, <3>5
    <3>6. CASE n = Len(file[current]) + 1
      BY <2>7, <3>2, <3>4, <3>6
    <3>7. QED
      BY <2>4, <3>5, <3>6
  <2>8. QED
    BY <2>3, <2>4, <2>5, <2>6, <2>7
<1>4. CASE AppendsOp
  <2>1. op \in LogType /\ Appends(op) /\ op # NoOp
    BY <1>4 DEF AppendsOp, LogType, PutType, NoOp
  <2>2. op.ver = ver /\ op.ts = now
    BY <2>1 DEF FrameInv, Control, CallOK
  <2>3. QED
    BY <1>3, <2>1, <2>2
<1>5. CASE AppendsCkpt
  <2>1. PICK c \in CkptType : Appends(c)
    BY <1>5 DEF AppendsCkpt
  <2>2. c \in LogType /\ c.kind = "ckpt"
    BY DEF CkptType, LogType
  <2>3. QED
    BY <1>3, <2>1, <2>2
<1>6. QED
  BY <1>2, <1>4, <1>5


\* Replay of files in order gives back what is held of each key.
LEMMA RecoveredCovers ==
  ASSUME FrameTypes, torn = {}, NoCkpt, Ordered, NEW k \in Keys, Covered(k)
  PROVE  IF Replayed(k) # 0 THEN Replayed(k) >= truth[k] ELSE sst[k] >= truth[k]
<1>1. /\ file \in [Ids -> Seq(LogType)] /\ disk \subseteq Ids
      /\ truth[k] \in Nat /\ sst[k] \in Nat /\ k # None
      /\ \A i \in Ids : i \in Nat /\ DOMAIN file[i] = 1..Len(file[i])
  BY FrameAssumption DEF FrameTypes, SegmentTypes, DataTypes, Ids
<1>2. \A p \in Places : /\ p[1] \in disk /\ p[2] \in DOMAIN file[p[1]]
                        /\ p[1] \in Nat /\ p[2] \in Nat /\ p = <<p[1], p[2]>>
                        /\ At(p) = file[p[1]][p[2]] /\ At(p) \in LogType
                        /\ At(p).ts \in 1..MaxTime /\ At(p).ver \in Nat
  BY <1>1, PlaceFacts
<1>3. \A i \in disk : \A n \in DOMAIN file[i] :
        <<i, n>> \in Places /\ At(<<i, n>>) = file[i][n]
  BY <1>1, PlaceFacts
<1>4. LastCheckpoint = 0
  <2>1. {At(p).ts : p \in {q \in Places : At(q).kind = "ckpt"}} = {}
    BY <1>2 DEF NoCkpt
  <2>2. PICK S : S = {0} \cup {At(p).ts : p \in {q \in Places : At(q).kind = "ckpt"}}
    OBVIOUS
  <2>3. S = {0}
    BY <2>1, <2>2
  <2>4. S \in SUBSET Nat /\ S # {} /\ (\A x \in S : x <= 0) /\ 0 \in Nat
    BY <2>3
  <2>5. Max(S) \in S
    BY <2>4, MaxNat
  <2>6. QED
    BY <2>2, <2>3, <2>5 DEF LastCheckpoint
<1>5. \A p \in Places : At(p).key = k => p \in Replay(k)
  BY <1>2, <1>4 DEF Replay
<1>6. \A p \in Replay(k) : p \in Places /\ At(p).key = k /\ At(p).kind = "put"
                           /\ At(p).ver # 0
  <2>1. \A r \in LogType : r.key = k => r.kind = "put" /\ r.ver # 0
    BY <1>1 DEF LogType, PutType, CkptType
  <2>2. QED
    BY <1>2, <2>1 DEF Replay
<1>7. CASE Replay(k) = {}
  <2>1. Replayed(k) = 0
    BY <1>7, ReplayFacts
  <2>2. ~Held(k, truth[k])
    BY <1>3, <1>5, <1>7 DEF Held
  <2>3. QED
    BY <2>1, <2>2 DEF Covered
<1>8. CASE Replay(k) # {}
  <2>1. PICK p \in Replay(k) : /\ Replayed(k) = At(p).ver
                               /\ \A q \in Replay(k) : q = p \/ ReplayedBefore(q, p)
    BY <1>8, ReplayFacts
  <2>2. ~Absent(k)
    BY <1>2, <1>6, <2>1 DEF Absent
  <2>3. PICK i \in disk : \E n \in DOMAIN file[i] :
               file[i][n].key = k /\ file[i][n].ver >= truth[k]
    BY <2>2 DEF Covered, Held
  <2>4. PICK n \in DOMAIN file[i] : file[i][n].key = k /\ file[i][n].ver >= truth[k]
    BY <2>3
  <2>5. PICK q : q = <<i, n>>
    OBVIOUS
  <2>6. q \in Replay(k) /\ q[1] = i /\ q[2] = n /\ At(q) = file[i][n]
    BY <1>3, <1>5, <2>4, <2>5
  <2>7. At(q).ver >= truth[k] /\ At(q).ver \in Nat /\ At(p).ver \in Nat
    BY <1>2, <1>6, <2>1, <2>4, <2>6
  <2>8. At(p).ver >= At(q).ver
    <3>1. CASE q = p
      BY <2>7, <3>1
    <3>2. CASE q # p
      <4>1. ReplayedBefore(q, p)
        BY <2>1, <2>6, <3>2
      <4>2. /\ p \in Places /\ q \in Places
            /\ At(p).kind = "put" /\ At(q).kind = "put"
        BY <1>6, <2>1, <2>6
      <4>3. /\ At(p) = file[p[1]][p[2]] /\ At(q) = file[q[1]][q[2]]
            /\ p[1] \in disk /\ q[1] \in disk
            /\ p[2] \in DOMAIN file[p[1]] /\ q[2] \in DOMAIN file[q[1]]
        BY <1>2, <4>2
      <4>4. Earlier(p[1], p[2], q[1], q[2]) => At(p).ts <= At(q).ts
        BY <4>2, <4>3 DEF Ordered
      <4>5. Earlier(q[1], q[2], p[1], p[2]) => At(q).ver <= At(p).ver
        BY <4>2, <4>3 DEF Ordered
      <4>6. /\ p[1] \in Nat /\ p[2] \in Nat /\ q[1] \in Nat /\ q[2] \in Nat
            /\ At(p).ts \in Nat /\ At(q).ts \in Nat
        BY <1>2, <4>2
      <4>7. p[1] # q[1] \/ p[2] # q[2]
        BY <1>2, <3>2, <4>2
      <4>8. \/ Earlier(p[1], p[2], q[1], q[2])
            \/ Earlier(q[1], q[2], p[1], p[2])
        BY <4>6, <4>7 DEF Earlier
      <4>9. Earlier(q[1], q[2], p[1], p[2])
        <5>1. CASE At(q).ts < At(p).ts
          BY <4>4, <4>6, <4>8, <5>1
        <5>2. CASE At(q).ts = At(p).ts
          BY <4>1, <4>6, <5>2 DEF ReplayedBefore, Earlier
        <5>3. QED
          BY <4>1, <5>1, <5>2 DEF ReplayedBefore
      <4>10. QED
        BY <2>7, <4>5, <4>9
    <3>3. QED
      BY <3>1, <3>2
  <2>9. At(p).ver >= truth[k]
    BY <1>1, <2>7, <2>8
  <2>10. At(p).ver # 0
    BY <1>6, <2>1
  <2>11. QED
    BY <2>1, <2>9, <2>10
<1>9. QED
  BY <1>7, <1>8

\* From the last checkpoint of shutdown() on, and through a truncation, only
\* these steps are taken; an error in between is on record if it leaves
\* something behind.
Truncating == CkptPlace \/ Caller = "renew"

\* The committer rests, and the caller goes on with its plan.
LEMMA TruncationSteps ==
  ASSUME FrameInv, QueueAlone, Truncating, Next, past' = {}
  PROVE  \/ Caller' = Caller /\ plan' = plan /\ UNCHANGED <<current, disk, listed>>
         \/ Caller \in {"take", "sync"} /\ Advance("caller")
         \/ Close \/ (\E i \in Ids : RemoveFile(i)) \/ Removed \/ Renew
         \/ /\ Remnants = {} /\ Caller \notin {"remove", "renew"}
            /\ Caller' # "remove"
<1>1. pc \in [Procs -> Steps] /\ FrameTypes /\ Control
  BY DEF FrameInv, FrameTypes, ProcessTypes
<1>2. /\ Caller \in {"take", "sync", "close", "remove", "renew"}
      /\ Committer = "rest" /\ pending = <<>>
  BY QuietCaller DEF Truncating, CkptPlace
<1>3. CASE CallerStep
  <2>1. CASE Take("caller")
    BY <1>2, <2>1 DEF Take, Caller
  <2>2. CASE Sync
    BY <2>2 DEF Sync, Caller
  <2>3. ASSUME Residue PROVE FALSE
    <3>1. Caller = "renew" /\ past' = past \cup Remnants
      BY <2>3 DEF Residue, Caller
    <3>2. "wipe" \in Remnants
      BY <3>1 DEF Remnants, Caller
    <3>3. QED
      BY <3>1, <3>2
  <2>4. CASE Close \/ (\E i \in Ids : RemoveFile(i)) \/ Removed \/ Renew
    BY <2>4
  <2>5. QED
    BY <1>2, <1>3, <2>1, <2>2, <2>3, <2>4
       DEF CallerStep, BatchStep, Check, NoRoom, Write, Rotate, Bump, Refused,
           PutEnqueue, PutNotify, PutAwait, Done, WriteOwn, Publish, Mark, Restart,
           Caller
<1>4. CASE CommitterStep
  <2>1. CASE Take("committer")
    <3>1. /\ UNCHANGED <<current, disk, listed>> /\ Advance("committer")
      BY <1>2, <2>1 DEF Take, segVars
    <3>2. QED
      BY <1>1, <3>1, AdvanceTyped DEF Procs
  <2>2. CASE /\ TaskStep
             /\ UNCHANGED <<config, segVars, procVars, dataVars, now, past, bounds>>
    BY <2>2 DEF Caller, segVars, procVars
  <2>3. QED
    BY <1>2, <1>4, <2>1, <2>2
       DEF CommitterStep, BatchStep, Check, NoRoom, Write, Rotate, Bump, Refused,
           Committer
<1>5. CASE Fault
  <2>1. ASSUME NEW p \in Procs,
               \/ RotateFails(p)
               \/ \E n \in 0..MaxWrites, tail \in BOOLEAN : WriteFails(p, n, tail)
        PROVE  FALSE
    BY <1>2, <2>1 DEF RotateFails, WriteFails, Writing, Procs, Caller, Committer
  <2>2. CASE AdminFails
    <3>1. past' = past \cup Remnants /\ Fail("caller")
      BY <2>2 DEF AdminFails
    <3>2. Remnants = {} /\ Caller' # "remove"
      BY <1>1, <3>1 DEF Fail, Caller
    <3>3. Caller \notin {"remove", "renew"}
      BY <3>2 DEF Remnants, Caller
    <3>4. QED
      BY <3>2, <3>3
  <2>3. CASE Crash
    <3>1. Remnants = {} /\ Caller' = "down"
      BY <2>3 DEF Crash, Caller, Procs
    <3>2. Caller \notin {"remove", "renew"}
      BY <3>1 DEF Remnants, Caller
    <3>3. QED
      BY <3>1, <3>2
  <2>4. QED
    BY <1>5, <2>1, <2>2, <2>3 DEF Fault
<1>6. CASE Tick \/ \E S \in SUBSET segments : Cleanup(S)
  BY <1>2, <1>6 DEF Tick, Cleanup, Caller
<1>7. CASE (\E k \in Keys : Put(k) \/ BatchPut(k)) \/ FlushWal \/ FlushEngine \/ Shutdown
  BY <1>2, <1>7 DEF Put, BatchPut, FlushWal, FlushEngine, Shutdown, Administer,
     Start, Caller
<1>8. QED
  BY <1>3, <1>4, <1>5, <1>6, <1>7 DEF Next


\* Files are removed after the segment was closed.
LEMMA RemovalFollows ==
  ASSUME FrameInv, Next, Caller' = "remove"
  PROVE  Caller \in {"close", "remove"}
<1>1. pc \in [Procs -> Steps] /\ FrameTypes /\ Control
  BY DEF FrameInv, FrameTypes, ProcessTypes
<1>2. ASSUME Advance("caller"),
             Caller \notin {"rest", "down", "enqueue", "notify", "await", "done"}
      PROVE  Caller = "close"
  <2>1. \E step \in Steps : pc' = [pc EXCEPT !["caller"] = step] /\ After(step, plan')
    BY <1>1, <1>2, AdvanceFacts
  <2>2. plan = PRemove
    BY <1>1, <2>1 DEF After, Caller
  <2>3. QED
    BY <1>2, <2>2, PlansDiffer DEF FrameInv, Control, RouteOK, Batch
<1>3. ASSUME Fail("caller") PROVE FALSE
  BY <1>1, <1>3 DEF Fail, Caller
<1>4. ASSUME NEW step, step # "remove", pc' = [pc EXCEPT !["caller"] = step]
      PROVE  FALSE
  BY <1>1, <1>4 DEF Caller
<1>5. ASSUME NEW steps, Start(Head(steps), Tail(steps)),
             Head(steps) \in {"take", "own", "sync"}
      PROVE  FALSE
  BY <1>4, <1>5 DEF Start
<1>6. CASE CallerStep
  <2>1. CASE \/ Write("caller") \/ Sync \/ Publish \/ Close \/ Removed
    BY <1>2, <2>1 DEF Write, Sync, Publish, Close, Removed, Caller
  <2>2. CASE Take("caller")
    <3>1. Caller = "take" /\ (Advance("caller") \/ pc' = [pc EXCEPT !["caller"] = "check"])
      BY <2>2 DEF Take, Goto, Caller
    <3>2. QED
      BY <1>2, <1>4, <3>1
  <2>3. CASE Bump("caller")
    <3>1. /\ Caller = "bump"
          /\ Advance("caller") \/ pc' = [pc EXCEPT !["caller"] = ret["caller"]]
          /\ ret["caller"] # "remove"
      BY <1>1, <2>3 DEF Bump, Goto, Caller, FrameTypes, ProcessTypes
    <3>2. QED
      BY <1>2, <1>4, <3>1
  <2>4. ASSUME \/ Check("caller") \/ NoRoom("caller") \/ Rotate("caller")
               \/ PutEnqueue \/ PutNotify \/ PutAwait \/ Done \/ Renew \/ Restart
               \/ WriteOwn("own", op, "check") \/ WriteOwn("ckpt", Checkpoint, "try")
        PROVE  FALSE
    <3>1. \E step : step # "remove" /\ pc' = [pc EXCEPT !["caller"] = step]
      BY <2>4 DEF Check, NoRoom, Rotate, Move, PutEnqueue, PutNotify, PutAwait,
         Done, Renew, Restart, WriteOwn, ToRotate, Goto
    <3>2. QED
      BY <1>4, <3>1
  <2>5. ASSUME Refused("caller") \/ Residue PROVE FALSE
    BY <1>3, <2>5 DEF Refused, Residue
  <2>6. ASSUME Mark PROVE FALSE
    <3>1. PICK steps : steps = IF current = 0 THEN Wipe
                               ELSE IfGroup(<<"take">>) \o <<"ckpt">>
                                      \o IfGroup(<<"take">>) \o <<"sync">> \o Wipe
      OBVIOUS
    <3>2. pc' = [pc EXCEPT !["caller"] = Head(steps)]
      BY <2>6, <3>1 DEF Mark
    <3>3. Head(steps) \in {"close", "take", "ckpt"}
      BY <3>1, MarkSteps
    <3>4. QED
      BY <1>4, <3>2, <3>3
  <2>7. CASE \E i \in Ids : RemoveFile(i)
    BY <2>7 DEF RemoveFile, Caller
  <2>8. QED
    BY <1>6, <2>1, <2>2, <2>3, <2>4, <2>5, <2>6, <2>7 DEF CallerStep, BatchStep
<1>7. CASE CommitterStep
  <2>1. CASE Take("committer") \/ Write("committer") \/ Refused("committer")
    <3>1. Advance("committer") \/ Goto("committer", "check")
      BY <2>1 DEF Take, Write, Refused, Fail
    <3>2. Caller' = Caller
      BY <1>1, <3>1, AdvanceTyped DEF Goto, Caller, Procs
    <3>3. QED
      BY <3>2
  <2>2. CASE \/ Check("committer") \/ NoRoom("committer") \/ Rotate("committer")
    BY <1>1, <2>2 DEF Check, NoRoom, Rotate, Move, ToRotate, Goto, Caller
  <2>3. CASE Bump("committer")
    <3>1. ret["committer"] # "rest"
      BY <2>3 DEF Bump, FrameInv, Control, BatchOK, Committer
    <3>2. QED
      BY <1>1, <2>3, <3>1 DEF Bump, Goto, Caller
  <2>4. CASE /\ TaskStep
             /\ UNCHANGED <<config, segVars, procVars, dataVars, now, past, bounds>>
    BY <2>4 DEF Caller
  <2>5. QED
    BY <1>7, <2>1, <2>2, <2>3, <2>4 DEF CommitterStep, BatchStep
<1>8. CASE Fault
  <2>1. ASSUME NEW p \in Procs,
               \/ RotateFails(p)
               \/ \E n \in 0..MaxWrites, tail \in BOOLEAN : WriteFails(p, n, tail)
        PROVE  Caller' = Caller
    <3>1. Fail(p)
      BY <2>1 DEF RotateFails, WriteFails
    <3>2. p = "committer" /\ Advance(p)
      BY <1>3, <3>1 DEF Fail, Procs
    <3>3. QED
      BY <1>1, <3>2, AdvanceTyped
  <2>2. ASSUME AdminFails \/ Crash PROVE FALSE
    BY <1>3, <2>2 DEF AdminFails, Crash, Caller, Procs
  <2>3. QED
    BY <1>8, <2>1, <2>2 DEF Fault
<1>9. CASE Tick \/ \E S \in SUBSET segments : Cleanup(S)
  BY <1>9 DEF Tick, Cleanup, Caller
<1>10. ASSUME NEW k \in Keys, Put(k) PROVE FALSE
  <2>1. \E step : step # "remove" /\ pc' = [pc EXCEPT !["caller"] = step]
    BY <1>10 DEF Put, Start
  <2>2. QED
    BY <1>4, <2>1
<1>11. ASSUME NEW k \in Keys, BatchPut(k) PROVE FALSE
  <2>1. PICK steps : steps = IfGroup(<<"take">>) \o <<"own", "done">>
    OBVIOUS
  <2>2. Start(Head(steps), Tail(steps))
    BY <1>11, <2>1 DEF BatchPut
  <2>3. QED
    BY <1>5, <2>1, <2>2, CallHeads
<1>12. ASSUME FlushWal \/ FlushEngine \/ Shutdown PROVE FALSE
  <2>1. PICK steps : Administer(steps) /\ Head(steps) \in {"take", "own", "sync"}
    BY <1>12, CallHeads DEF FlushWal, FlushEngine, Shutdown
  <2>2. QED
    BY <1>5, <2>1 DEF Administer
<1>13. QED
  BY <1>6, <1>7, <1>8, <1>9, <1>10, <1>11, <1>12 DEF Next

\* Success is reported to a waiting caller by the committer that wrote its
\* record.
LEMMA ReplySteps ==
  ASSUME FrameInv, Next, reply' = "ok"
  PROVE  /\ Caller \in {"notify", "await"} /\ op' = op
         /\ reply = "ok" \/ Write("committer")
<1>1. /\ reply # "none" => Caller \in {"notify", "await"}
      /\ FrameTypes
  BY DEF FrameInv, Control, RestOK
<1>2. ASSUME UNCHANGED <<reply, op>>
      PROVE  Caller \in {"notify", "await"} /\ op' = op /\ reply = "ok"
  BY <1>1, <1>2
<1>3. ASSUME reply' = reply, Caller \in {"rest", "done"} PROVE FALSE
  BY <1>1, <1>3
<1>4. ASSUME NEW p \in Procs, Fail(p),
             p = "caller" => Caller \notin {"notify", "await"}
      PROVE  Caller \in {"notify", "await"} /\ op' = op /\ reply = "ok"
  <2>1. SendAcks(p, "err") /\ (p = "committer" => op' = op)
    BY <1>4 DEF Fail
  <2>2. reply = "ok"
    BY <2>1 DEF SendAcks
  <2>3. QED
    BY <1>1, <1>4, <2>1, <2>2 DEF Procs
<1>5. ASSUME NEW p \in Procs, BatchStep(p)
      PROVE  /\ Caller \in {"notify", "await"} /\ op' = op
             /\ reply = "ok" \/ Write("committer")
  <2>1. CASE Take(p) \/ Check(p) \/ NoRoom(p) \/ Rotate(p) \/ Bump(p)
    BY <1>2, <2>1 DEF Take, Check, NoRoom, Rotate, Bump, Move, ToRotate
  <2>2. CASE Refused(p)
    <3>1. Fail(p) /\ pc[p] \in {"write", "rewrite", "try", "retry"}
      BY <2>2 DEF Refused
    <3>2. QED
      BY <1>4, <3>1 DEF Caller
  <2>3. CASE Write(p)
    <3>1. /\ SendAcks(p, "ok") /\ op' = op
          /\ pc[p] \in {"write", "try", "rewrite", "retry"}
      BY <2>3 DEF Write
    <3>2. Caller \in {"notify", "await"}
      BY <1>1, <3>1, AckTyped
    <3>3. p = "committer"
      BY <3>1, <3>2 DEF Caller, Procs
    <3>4. QED
      BY <2>3, <3>1, <3>2, <3>3
  <2>4. QED
    BY <1>5, <2>1, <2>2, <2>3 DEF BatchStep
<1>6. CASE CallerStep
  <2>1. CASE \/ PutEnqueue \/ PutNotify \/ WriteOwn("own", op, "check")
             \/ WriteOwn("ckpt", Checkpoint, "try") \/ Sync \/ Publish \/ Mark
             \/ Close \/ (\E i \in Ids : RemoveFile(i)) \/ Removed \/ Renew \/ Restart
    BY <1>2, <2>1 DEF PutEnqueue, PutNotify, WriteOwn, Sync, Publish, Mark, Close,
       RemoveFile, Removed, Renew, Restart, ToRotate
  <2>2. CASE PutAwait \/ Done
    BY <1>3, <2>2 DEF PutAwait, Done, Caller
  <2>3. CASE Residue
    <3>1. Fail("caller") /\ Caller = "renew"
      BY <2>3 DEF Residue, Caller
    <3>2. QED
      BY <1>4, <3>1 DEF Procs
  <2>4. QED
    BY <1>5, <1>6, <2>1, <2>2, <2>3 DEF CallerStep, Procs
<1>7. CASE CommitterStep
  BY <1>2, <1>5, <1>7 DEF CommitterStep, procVars, Procs
<1>8. CASE Fault
  <2>1. ASSUME NEW p \in Procs,
               \/ RotateFails(p)
               \/ \E n \in 0..MaxWrites, tail \in BOOLEAN : WriteFails(p, n, tail)
        PROVE  Caller \in {"notify", "await"} /\ op' = op /\ reply = "ok"
    <3>1. Fail(p) /\ pc[p] \in {"rotate", "write", "try", "rewrite", "retry"}
      BY <2>1 DEF RotateFails, WriteFails, Writing
    <3>2. QED
      BY <1>4, <3>1 DEF Caller
  <2>2. CASE AdminFails
    <3>1. Fail("caller") /\ Caller \in {"sync", "remove"}
      BY <2>2 DEF AdminFails, Caller
    <3>2. QED
      BY <1>4, <3>1 DEF Procs
  <2>3. CASE Crash
    BY <2>3 DEF Crash
  <2>4. QED
    BY <1>8, <2>1, <2>2, <2>3 DEF Fault
<1>9. CASE \E k \in Keys : Put(k) \/ BatchPut(k)
  BY <1>3, <1>9 DEF Put, BatchPut, Start, Caller
<1>10. CASE \/ Tick \/ FlushWal \/ FlushEngine \/ Shutdown
            \/ \E S \in SUBSET segments : Cleanup(S)
  BY <1>2, <1>10 DEF Tick, FlushWal, FlushEngine, Shutdown, Administer, Cleanup,
     procVars
<1>11. QED
  BY <1>6, <1>7, <1>8, <1>9, <1>10 DEF Next


\* The memtables cover what was acknowledged, whenever there is a process.
MemOK == Caller # "down" => MemCovers

\* What holds until a circumstance occurs that is known to lose writes.
SoundOK ==
  /\ torn = {} /\ SegsOK /\ CkptOK /\ Bounded /\ Ordered
  /\ LogCovers /\ OpLogged /\ MemOK

\* What its steps start from.
SoundState ==
  /\ FrameInv /\ IdsBelow /\ FreshOK /\ Alone /\ QueueAlone /\ SoundOK

\* The kinds of step, from there.
LEMMA SoundLog ==
  ASSUME SoundState, Next, past' = {}
  PROVE  LogSame \/ NewFile \/ OneLess \/ AppendsOp \/ AppendsCkpt
  BY LogStep DEF SoundState, SoundOK

\* No torn records.
LEMMA TornStep ==
  ASSUME SoundState, Next, past' = {}
  PROVE  torn' = {}
<1>1. torn = {}
  BY DEF SoundState, SoundOK
<1>2. QED
  BY <1>1, SoundLog
     DEF LogSame, NewFile, OneLess, AppendsOp, AppendsCkpt, Appends

\* The current file stays the last one.
LEMMA SegsStep ==
  ASSUME SoundState, Next, past' = {}
  PROVE  SegsOK'
<1>1. /\ FrameInv /\ QueueAlone /\ SegsOK /\ disk \subseteq Ids
      /\ \A i \in Ids : i \in Nat /\ i # 0
  BY DEF SoundState, SoundOK, FrameInv, FrameTypes, SegmentTypes, Ids
<1>2. current' # 0 => current' \in disk' /\ \A i \in disk' : i <= current'
  <2>1. CASE LogSame \/ AppendsOp \/ AppendsCkpt
    <3>1. disk' = disk /\ current' \in {0, current}
      BY <2>1 DEF LogSame, AppendsOp, AppendsCkpt, Appends
    <3>2. QED
      BY <1>1, <3>1 DEF SegsOK
  <2>2. CASE NewFile
    <3>1. PICK i \in Ids : /\ \A j \in disk : j < i
                           /\ disk' = disk \cup {i} /\ current' = i
      BY <2>2 DEF NewFile
    <3>2. \A j \in disk : j <= i
      BY <1>1, <3>1
    <3>3. QED
      BY <1>1, <3>1, <3>2
  <2>3. CASE OneLess
    BY <1>1, <2>3 DEF OneLess, SegsOK
  <2>4. QED
    BY <2>1, <2>2, <2>3, SoundLog
<1>3. ASSUME Caller' = "remove" PROVE current' = 0 /\ disk' = listed'
  <2>1. Caller \in {"close", "remove"} /\ Truncating
    BY <1>1, <1>3, RemovalFollows DEF Truncating, CkptPlace
  <2>2. CASE Caller' = Caller /\ plan' = plan /\ UNCHANGED <<current, disk, listed>>
    BY <1>1, <1>3, <2>2 DEF SegsOK
  <2>3. CASE Close
    BY <2>3 DEF Close
  <2>4. ASSUME NEW i \in Ids, RemoveFile(i) PROVE current' = 0 /\ disk' = listed'
    BY <1>1, <2>4 DEF RemoveFile, SegsOK, Caller
  <2>5. CASE Removed
    BY <1>1, <2>5 DEF Removed, SegsOK, Caller, segVars
  <2>6. ~Renew
    BY <2>1 DEF Renew, Caller
  <2>7. QED
    BY <1>1, <1>3, <2>1, <2>2, <2>3, <2>4, <2>5, <2>6, TruncationSteps
<1>4. QED
  BY <1>2, <1>3 DEF SegsOK

\* Checkpoints do not outlive the truncation.
LEMMA CkptStep ==
  ASSUME SoundState, Next, past' = {}
  PROVE  CkptOK'
<1>1. /\ FrameInv /\ QueueAlone /\ SegsOK /\ CkptOK /\ torn = {} /\ FrameTypes
      /\ Control /\ pc \in [Procs -> Steps]
      /\ disk \subseteq Ids /\ file \in [Ids -> Seq(LogType)]
  BY DEF SoundState, SoundOK, FrameInv, FrameTypes, SegmentTypes, ProcessTypes
<1>2. CASE NoCkpt
  <2>1. CASE LogSame \/ NewFile \/ OneLess
    <3>1. NoCkpt'
      BY <1>1, <1>2, <2>1, Untouched DEF NoCkpt
    <3>2. QED
      BY <3>1 DEF CkptOK
  <2>2. CASE AppendsOp
    <3>1. op \in LogType /\ Appends(op) /\ op.kind # "ckpt" /\ disk' = disk
      BY <2>2 DEF AppendsOp, Appends, LogType, PutType
    <3>2. ASSUME NEW i \in disk, NEW n \in DOMAIN file'[i]
          PROVE  file'[i][n].kind # "ckpt"
      <4>1. \/ n \in DOMAIN file[i] /\ file'[i][n] = file[i][n]
            \/ file'[i][n] = op
        BY <1>1, <3>1, <3>2, Appended
      <4>2. QED
        BY <1>2, <3>1, <4>1 DEF NoCkpt
    <3>3. NoCkpt'
      BY <3>1, <3>2 DEF NoCkpt
    <3>4. QED
      BY <3>3 DEF CkptOK
  <2>3. CASE AppendsCkpt
    <3>1. Advance("caller") /\ plan \in {PTake, PLast}
      BY <2>3 DEF AppendsCkpt, Write
    <3>2. PICK step \in Steps : pc' = [pc EXCEPT !["caller"] = step] /\ After(step, plan')
      BY <1>1, <3>1, AdvanceFacts
    <3>3. \/ step = "take" /\ plan' = PLast
          \/ step = "sync" /\ plan' = PWipe
      BY <3>1, <3>2, PlansDiffer DEF After
    <3>4. CkptPlace'
      BY <1>1, <3>2, <3>3 DEF CkptPlace, Caller, Procs
    <3>5. QED
      BY <3>4 DEF CkptOK
  <2>4. QED
    BY <2>1, <2>2, <2>3, SoundLog
<1>3. CASE ~NoCkpt
  <2>1. CkptPlace /\ Truncating /\ Caller # "renew"
    BY <1>1, <1>3 DEF CkptOK, CkptPlace, Truncating
  <2>2. Remnants # {}
    <3>1. PICK i \in disk : \E n \in DOMAIN file[i] : file[i][n].kind = "ckpt"
      BY <1>3 DEF NoCkpt
    <3>2. PICK n \in DOMAIN file[i] : file[i][n].kind = "ckpt"
      BY <3>1
    <3>3. n \in 1..Len(file[i]) /\ i \in disk \ torn
      BY <1>1
    <3>4. <<i, n>> \in Places /\ At(<<i, n>>) = file[i][n]
      BY <1>1, <3>3, PlaceFacts
    <3>5. \E q \in Places : At(q).kind = "ckpt"
      BY <3>2, <3>4
    <3>6. QED
      BY <3>5 DEF Remnants
  <2>3. CASE Caller' = Caller /\ plan' = plan /\ UNCHANGED <<current, disk, listed>>
    BY <2>1, <2>3 DEF CkptOK, CkptPlace
  <2>4. CASE Caller \in {"take", "sync"} /\ Advance("caller")
    <3>1. PICK step \in Steps : pc' = [pc EXCEPT !["caller"] = step] /\ After(step, plan')
      BY <1>1, <2>4, AdvanceFacts
    <3>2. \/ plan = PLast /\ step = "sync" /\ plan' = PWipe
          \/ plan = PWipe /\ step = "close"
      BY <2>1, <2>4, <3>1, PlansDiffer DEF CkptPlace, After
    <3>3. CkptPlace'
      BY <1>1, <3>1, <3>2 DEF CkptPlace, Caller, Procs
    <3>4. QED
      BY <3>3 DEF CkptOK
  <2>5. CASE Close
    <3>1. Caller = "close" /\ Advance("caller")
      BY <2>5 DEF Close, Caller
    <3>2. plan = PRemove
      BY <1>1, <3>1, PlansDiffer DEF Control, RouteOK, Batch
    <3>3. Caller' = "remove"
      BY <1>1, <3>1, <3>2, PlanFacts DEF Advance, Caller, Procs
    <3>4. QED
      BY <3>3 DEF CkptOK, CkptPlace
  <2>6. ASSUME NEW i \in Ids, RemoveFile(i) PROVE CkptOK'
    BY <2>6 DEF RemoveFile, CkptOK, CkptPlace, Caller
  <2>7. CASE Removed
    <3>1. disk = {}
      BY <1>1, <2>7 DEF Removed, SegsOK, Caller
    <3>2. QED
      BY <1>3, <3>1 DEF NoCkpt
  <2>8. CASE Renew
    BY <2>1, <2>8 DEF Renew, Caller
  <2>9. QED
    BY <1>1, <2>1, <2>2, <2>3, <2>4, <2>5, <2>6, <2>7, <2>8, TruncationSteps
<1>4. QED
  BY <1>2, <1>3

\* The process is started by a restart only.
LEMMA DownSteps ==
  ASSUME FrameInv, Next, Caller = "down"
  PROVE  Restart
<1>1. Committer = "rest" /\ ~Quiet
  BY DEF FrameInv, Control, RestOK, Quiet
<1>2. ASSUME NEW p \in Procs,
             \/ Write(p) \/ Rotate(p) \/ Bump(p) \/ RotateFails(p)
             \/ \E n \in 0..MaxWrites, tail \in BOOLEAN : WriteFails(p, n, tail)
      PROVE  FALSE
  BY <1>1, <1>2 DEF Write, Rotate, Bump, RotateFails, WriteFails, Writing, Caller,
     Committer, Procs
<1>3. QED
  BY <1>1, <1>2, QuietSteps
     DEF Special, Done, Publish, Close, RemoveFile, Cleanup, Crash, Caller

\* After a restart the memtables cover what was acknowledged, by replay.
LEMMA MemOKStep ==
  ASSUME SoundState, Next, past' = {}
  PROVE  MemOK'
<1>1. FrameInv /\ FrameTypes /\ MemOK /\ SoundOK
  BY DEF SoundState, SoundOK, FrameInv
<1>2. CASE Restart
  <2>1. Caller = "down" /\ UNCHANGED <<sst, truth>>
        /\ mem' = [k \in Keys |-> Replayed(k)]
    BY <1>2 DEF Restart, Caller
  <2>2. NoCkpt /\ \A k \in Keys : Covered(k)
    BY <1>1, <2>1 DEF SoundOK, CkptOK, CkptPlace, LogCovers
  <2>3. \A k \in Keys : IF Replayed(k) # 0 THEN Replayed(k) >= truth[k]
                                         ELSE sst[k] >= truth[k]
    BY <1>1, <2>2, RecoveredCovers DEF SoundOK
  <2>4. QED
    BY <2>1, <2>3 DEF MemOK, MemCovers
<1>3. CASE Crash
  BY <1>3 DEF Crash, MemOK, Caller, Procs
<1>4. CASE ~Restart /\ ~Crash
  <2>1. Caller # "down"
    BY <1>1, <1>4, DownSteps
  <2>2. MemCovers'
    BY <1>1, <1>4, <2>1, MemStep DEF MemOK
  <2>3. QED
    BY <2>2 DEF MemOK
<1>5. QED
  BY <1>2, <1>3, <1>4


\* What the data are after a step.
LEMMA TruthSteps ==
  ASSUME SoundState, Next
  PROVE  UNCHANGED <<sst, truth>> \/ Done \/ Publish
<1>1. FrameInv
  BY DEF SoundState
<1>2. Crash \/ Restart => UNCHANGED <<sst, truth>>
  BY DEF Crash, Restart
<1>3. QED
  BY <1>1, <1>2, DataSteps

\* Every acknowledged write stays covered.
LEMMA CoversStep ==
  ASSUME SoundState, Next, past' = {}
  PROVE  LogCovers'
<1>1. /\ FrameInv /\ QueueAlone /\ SegsOK /\ LogCovers /\ OpLogged /\ MemOK
      /\ FrameTypes /\ Control /\ pc \in [Procs -> Steps] /\ ver \in Nat
      /\ truth \in [Keys -> Nat] /\ sst \in [Keys -> Nat] /\ mem \in [Keys -> Nat]
  BY DEF SoundState, SoundOK, FrameInv, FrameTypes, DataTypes, ProcessTypes
<1>2. SUFFICES ASSUME Caller' \notin {"remove", "renew"}, NEW k \in Keys
               PROVE  Covered(k)'
  BY DEF LogCovers
<1>3. CASE Caller \in {"remove", "renew"}
  <2>1. Renew
    <3>1. Truncating /\ ~Close
      BY <1>3 DEF Truncating, CkptPlace, Close, Caller
    <3>2. ASSUME NEW i \in Ids, RemoveFile(i) PROVE FALSE
      BY <1>2, <3>2 DEF RemoveFile, Caller
    <3>3. ASSUME Removed PROVE FALSE
      <4>1. Caller = "remove" /\ Advance("caller")
        BY <3>3 DEF Removed, Caller
      <4>2. plan = PRenew
        BY <1>1, <4>1, PlansDiffer DEF Control, RouteOK, Batch
      <4>3. Caller' = "renew"
        BY <1>1, <4>1, <4>2, PlanFacts DEF Advance, Caller, Procs
      <4>4. QED
        BY <1>2, <4>3
    <3>4. QED
      BY <1>1, <1>2, <1>3, <3>1, <3>2, <3>3, TruncationSteps
  <2>2. disk' = {} /\ UNCHANGED <<sst, truth>> /\ Caller = "renew"
    BY <2>1 DEF Renew, ToRotate, segVars, dataVars, Caller
  <2>3. mem = NoVersion /\ MemCovers
    BY <1>1, <2>2 DEF Control, PubOK, AfterPublish, MemOK
  <2>4. sst[k] >= truth[k]
    BY <2>3 DEF MemCovers, NoVersion
  <2>5. QED
    BY <2>2, <2>4 DEF Covered, Absent
<1>4. CASE Caller \notin {"remove", "renew"}
  <2>1. Covered(k) /\ ~OneLess
    BY <1>1, <1>4 DEF LogCovers, OneLess
  <2>2. ASSUME NEW v, Held(k, v) PROVE Held(k, v)'
    <3>1. LogSame \/ NewFile \/ \E r \in LogType : Appends(r)
      BY <2>1, SoundLog DEF AppendsOp, AppendsCkpt, LogType
    <3>2. QED
      BY <1>1, <2>2, <3>1, HeldStep
  <2>3. CASE UNCHANGED <<sst, truth>>
    <3>1. CASE Held(k, truth[k])
      <4>1. PICK v : v = truth[k]
        OBVIOUS
      <4>2. Held(k, v)'
        BY <2>2, <3>1, <4>1
      <4>3. QED
        BY <2>3, <4>1, <4>2 DEF Covered, Held
    <3>2. CASE Absent(k) /\ sst[k] >= truth[k]
      <4>1. CASE AppendsOp /\ op.key = k
        <5>1. PICK r \in PutType : r = op /\ Appends(r) /\ r.key = k
          BY <4>1 DEF AppendsOp
        <5>2. r.ver = ver /\ truth[k] <= ver
          BY <1>1, <5>1 DEF Control, CallOK, TruthOK, PutType, NoOp
        <5>3. Held(r.key, r.ver)'
          BY <1>1, <5>1, HeldNow
        <5>4. PICK i \in disk' : \E n \in DOMAIN file'[i] :
                     file'[i][n].key = k /\ file'[i][n].ver >= ver
          BY <5>1, <5>2, <5>3 DEF Held
        <5>5. PICK n \in DOMAIN file'[i] : file'[i][n].key = k /\ file'[i][n].ver >= ver
          BY <5>4
        <5>6. file'[i][n].ver \in Nat
          <6>1. FrameTypes'
            BY <1>1, FrameStep DEF FrameInv
          <6>2. file' \in [Ids -> Seq(LogType)] /\ i \in Ids
            BY <6>1 DEF FrameTypes, SegmentTypes
          <6>3. file'[i][n] \in LogType
            BY <5>5, <6>2
          <6>4. QED
            BY <6>3 DEF LogType, PutType, CkptType
        <5>7. file'[i][n].ver >= truth'[k]
          BY <1>1, <2>3, <5>2, <5>5, <5>6
        <5>8. QED
          BY <5>4, <5>5, <5>7 DEF Covered, Held
      <4>2. CASE ~(AppendsOp /\ op.key = k)
        <5>1. /\ k # None
              /\ \A c \in CkptType : c.key # k /\ c \in LogType
              /\ \A c \in PutType : c \in LogType
          BY FrameAssumption DEF CkptType, LogType
        <5>2. \/ LogSame \/ NewFile
              \/ \E r \in LogType : Appends(r) /\ r.key # k
          BY <2>1, <4>2, <5>1, SoundLog DEF AppendsOp, AppendsCkpt
        <5>3. Absent(k)'
          BY <1>1, <3>2, <5>2, AbsentStep
        <5>4. QED
          BY <2>3, <3>2, <5>3 DEF Covered
      <4>3. QED
        BY <4>1, <4>2
    <3>3. QED
      BY <2>1, <3>1, <3>2 DEF Covered
  <2>4. CASE Done
    <3>1. /\ Caller = "done" /\ truth' = [truth EXCEPT ![op.key] = op.ver]
          /\ UNCHANGED <<sst, file, disk>>
      BY <2>4 DEF Done, Caller, segVars
    <3>2. CASE k = op.key
      BY <1>1, <3>1, <3>2 DEF OpLogged, Covered, Held
    <3>3. CASE k # op.key
      BY <1>1, <2>1, <3>1, <3>3 DEF Covered, Held, Absent
    <3>4. QED
      BY <3>2, <3>3
  <2>5. CASE Publish
    <3>1. /\ Caller # "down" /\ UNCHANGED <<truth, file, disk>>
          /\ sst'[k] = IF mem[k] # 0 THEN mem[k] ELSE sst[k]
      BY <1>1, <2>5 DEF Publish, Caller, segVars
    <3>2. sst'[k] >= truth[k]
      BY <1>1, <3>1 DEF MemOK, MemCovers
    <3>3. QED
      BY <2>1, <3>1, <3>2 DEF Covered, Held, Absent
  <2>6. QED
    BY <2>3, <2>4, <2>5, TruthSteps
<1>5. QED
  BY <1>3, <1>4


\* A record that is written is put at the end of the file.
LEMMA WriteAppends ==
  ASSUME FrameInv, FreshOK, NEW p \in Procs, Write(p),
         NEW r \in PutType, ents[p] = <<r>>
  PROVE  Appends(r)
<1>1. r \in LogType /\ r.kind # "ckpt" /\ file \in [Ids -> Seq(LogType)]
  BY DEF PutType, LogType, FrameInv, FrameTypes, SegmentTypes
<1>2. ~\E c \in CkptType : ents[p] = <<c>>
  <2>1. ASSUME NEW c \in CkptType, ents[p] = <<c>> PROVE FALSE
    <3>1. <<r>>[1] = <<c>>[1]
      BY <2>1
    <3>2. r = c
      BY <3>1
    <3>3. QED
      BY <1>1, <3>2 DEF CkptType
  <2>2. QED
    BY <2>1
<1>3. /\ UNCHANGED <<disk, torn, current>> /\ current \in Ids
      /\ file' = [file EXCEPT ![current] = file[current] \o ents[p]]
  BY <1>2, WriteEffect
<1>4. file[current] \o <<r>> = Append(file[current], r)
  BY <1>1, <1>3
<1>5. QED
  BY <1>3, <1>4 DEF Appends

\* The write under way is logged when its caller hears of it.
LEMMA OpLoggedStep ==
  ASSUME SoundState, Next, past' = {}
  PROVE  OpLogged'
<1>1. /\ FrameInv /\ FreshOK /\ Alone /\ QueueAlone /\ SegsOK /\ OpLogged
      /\ Control /\ pc \in [Procs -> Steps] /\ op \in PutType \cup {NoOp}
  BY DEF SoundState, SoundOK, FrameInv, FrameTypes, ProcessTypes
\* It was logged before ...
<1>2. ASSUME Held(op.key, op.ver), op' = op, Caller # "remove"
      PROVE  Held(op.key, op.ver)'
  <2>1. PICK k, v : k = op.key /\ v = op.ver
    OBVIOUS
  <2>2. LogSame \/ NewFile \/ \E r \in LogType : Appends(r)
    BY <1>2, SoundLog DEF OneLess, AppendsOp, AppendsCkpt, LogType
  <2>3. Held(k, v)'
    BY <1>1, <1>2, <2>1, <2>2, HeldStep
  <2>4. QED
    BY <1>2, <2>1, <2>3
\* ... or is now.
<1>3. ASSUME NEW p \in Procs, Write(p), op \in PutType, ents[p] = <<op>>, op' = op
      PROVE  Held(op.key, op.ver)'
  <2>1. PICK r \in PutType : r = op
    BY <1>3
  <2>2. Appends(r)
    BY <1>1, <1>3, <2>1, WriteAppends
  <2>3. Held(r.key, r.ver)'
    BY <1>1, <2>2, HeldNow
  <2>4. QED
    BY <1>3, <2>1, <2>3
<1>4. ASSUME reply' = "ok" PROVE Held(op.key, op.ver)'
  <2>1. /\ Caller \in {"notify", "await"} /\ op' = op
        /\ reply = "ok" \/ Write("committer")
    BY <1>1, <1>4, ReplySteps
  <2>2. CASE reply = "ok"
    BY <1>1, <1>2, <2>1, <2>2 DEF OpLogged
  <2>3. CASE Write("committer")
    <3>1. ents["committer"] = <<op>>
      BY <1>1, <2>3 DEF Write, QueueAlone, Committer
    <3>2. op \in PutType
      BY <1>1, <2>1 DEF Control, CallOK
    <3>3. QED
      BY <1>3, <2>1, <2>3, <3>1, <3>2 DEF Procs
  <2>4. QED
    BY <2>1, <2>2, <2>3
<1>5. ASSUME Caller' = "done" PROVE Held(op.key, op.ver)'
  <2>1. ~PutEnqueue
    BY <1>1, <1>5 DEF PutEnqueue, Goto, Caller
  <2>2. ~PutNotify
    <3>1. ASSUME PutNotify PROVE FALSE
      <4>1. Caller = "notify" /\ pc' = [pc EXCEPT !["caller"] = IF wait THEN "await" ELSE "done"]
        BY <3>1 DEF PutNotify, Goto, Caller
      <4>2. wait
        BY <1>1, <4>1 DEF Control, RestOK, Alone
      <4>3. QED
        BY <1>1, <1>5, <4>1, <4>2 DEF Caller, Procs
    <3>2. QED
      BY <3>1
  <2>3. CASE PutAwait
    <3>1. reply = "ok" /\ op' = op /\ Caller = "await"
      BY <1>1, <1>5, <2>3 DEF PutAwait, Goto, Caller, Procs
    <3>2. QED
      BY <1>1, <1>2, <3>1 DEF OpLogged
  <2>4. CASE Write("caller") /\ plan = PDone
    <3>1. Caller \in Batch /\ op' = op
      BY <2>4 DEF Write, Caller, Batch
    <3>2. ents["caller"] = <<op>> /\ op \in PutType
      BY <1>1, <2>4, <3>1 DEF Control, BatchOK, CallOK
    <3>3. QED
      BY <1>3, <2>4, <3>1, <3>2 DEF Procs
  <2>5. CASE Caller' = Caller /\ op' = op
    BY <1>1, <1>2, <1>5, <2>5 DEF OpLogged
  <2>6. QED
    BY <1>1, <1>5, <2>1, <2>2, <2>3, <2>4, <2>5, CallContinues
<1>6. QED
  BY <1>4, <1>5 DEF OpLogged

\* As long as nothing is on record the log is sound.
SoundSoFar == FreshOK /\ (past = {} => SoundOK)

\* From the start on.
LEMMA SoundInductive == Spec => []SoundSoFar
<1>1. ASSUME Init PROVE SoundSoFar
  <2>1. /\ Caller = "rest" /\ current = 1 /\ disk = {1} /\ listed = {} /\ torn = {}
        /\ reply = "none" /\ file[1] = <<>>
    BY <1>1 DEF Init, Caller, Procs, Ids
  <2>2. \A k \in Keys : mem[k] = 0 /\ sst[k] = 0 /\ truth[k] = 0
    BY <1>1 DEF Init, NoVersion
  <2>3. FreshOK /\ SegsOK /\ OpLogged
    BY <2>1 DEF FreshOK, SegsOK, OpLogged
  <2>4. NoCkpt /\ Bounded /\ Ordered /\ \A k \in Keys : Absent(k)
    BY <2>1 DEF NoCkpt, Bounded, Ordered, Absent
  <2>5. MemOK /\ LogCovers
    BY <2>2, <2>4 DEF MemOK, MemCovers, LogCovers, Covered
  <2>6. QED
    BY <2>1, <2>3, <2>4, <2>5 DEF SoundSoFar, SoundOK, CkptOK
<1>2. ASSUME AloneFrame, NoWaitKnown, SoundSoFar, Next PROVE SoundSoFar'
  <2>1. FrameInv /\ IdsBelow /\ FreshOK
    BY <1>2 DEF AloneFrame, SoundSoFar
  <2>2. FreshOK'
    BY <1>2, <2>1, FreshStep
  <2>3. ASSUME past' = {} PROVE SoundOK'
    <3>1. past = {}
      BY <1>2, <2>1, <2>3, StepGrows
    <3>2. Alone
      BY <1>2, <3>1 DEF NoWaitKnown
    <3>3. SoundState
      BY <1>2, <2>1, <3>1, <3>2 DEF SoundState, SoundSoFar, AloneFrame, AloneInv
    <3>4. torn' = {} /\ SegsOK' /\ CkptOK' /\ LogCovers' /\ OpLogged' /\ MemOK'
      BY <1>2, <2>3, <3>3, TornStep, SegsStep, CkptStep, CoversStep, OpLoggedStep,
         MemOKStep
    <3>5. Bounded' /\ Ordered'
      BY <1>2, <2>1, <2>3, <3>3, SoundLog, BoundedStep, OrderedStep
         DEF SoundState, SoundOK
    <3>6. QED
      BY <3>4, <3>5 DEF SoundOK
  <2>4. QED
    BY <2>2, <2>3 DEF SoundSoFar
<1>3. ASSUME SoundSoFar, UNCHANGED vars PROVE SoundSoFar'
  BY <1>3 DEF SoundSoFar, vars, FreshOK, SoundOK, SegsOK, CkptOK, NoCkpt, CkptPlace,
     Bounded, Ordered, LogCovers, Covered, Held, Absent, OpLogged, MemOK, MemCovers,
     Caller
<1>4. QED
  BY <1>1, <1>2, <1>3, AloneFrameInductive, NoWaitRecorded, PTL DEF Spec

\* Replaying the frame files that a crash at any step leaves, over the
\* SSTables, gives back every write that was acknowledged, or a newer one:
\* through rotations, failed rotations, truncations, restarts and further
\* crashes, unless one of the five circumstances occurred, each of which is
\* known to lose writes.
THEOREM ReplayRestoresAcknowledged ==
  ASSUME Exempt = Circumstances
  PROVE  Spec => []AckedWritesRecovered
<1>1. ASSUME AloneFrame, SoundSoFar PROVE AckedWritesRecovered
  <2>1. SUFFICES ASSUME Sound, Caller = "down", NEW k \in Keys
                 PROVE  Recovered(k) >= truth[k]
    BY DEF AckedWritesRecovered, Caller
  <2>2. FrameTypes /\ past = {}
    BY <1>1, <2>1
       DEF AloneFrame, FrameInv, FrameTypes, RunTypes, Sound
  <2>3. torn = {} /\ NoCkpt /\ Ordered /\ Covered(k)
    BY <1>1, <2>1, <2>2 DEF SoundSoFar, SoundOK, CkptOK, CkptPlace, LogCovers
  <2>4. IF Replayed(k) # 0 THEN Replayed(k) >= truth[k] ELSE sst[k] >= truth[k]
    BY <2>2, <2>3, RecoveredCovers
  <2>5. QED
    BY <2>4 DEF Recovered
<1>2. QED
  BY <1>1, AloneFrameInductive, SoundInductive, PTL
=============================================================================
