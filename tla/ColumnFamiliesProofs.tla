------------------------ MODULE ColumnFamiliesProofs -------------------------
(***************************************************************************)
(* Proofs about ColumnFamilies: with names that hold no '#', the encoding  *)
(* "name#key" keeps every family apart from the others, and the layers of  *)
(* the engine answer for a family's key with what was written there.       *)
(***************************************************************************)
EXTENDS ColumnFamilies, SequenceTheorems, FunctionTheorems,
        WellFoundedInduction, TLAPS

\* A non-empty set of naturals has a least element.
LEMMA LeastNat ==
  ASSUME NEW S \in SUBSET Nat, S # {}
  PROVE  \E m \in S : \A j \in S : m <= j
<1>1. PICK m \in S : \A j \in S : ~(<<j, m>> \in OpToRel(<, Nat))
  BY NatLessThanWellFounded, WFMin
<1>2. \A j \in S : ~(j < m)
  BY <1>1 DEF OpToRel
<1>3. QED
  BY <1>2
\* Names and keys as the families need them: no name holds a '#', and no key
\* used without a family begins with a name and a '#'.  The history keeps what
\* a dropped family held, as the store does.
NoHash(f) == \A i \in 1..Len(f) : f[i] # Hash
SeparatedUse ==
  /\ \A f \in Names : NoHash(f)
  /\ \A f \in Names, k \in PlainKeys : ~IsPrefix(Prefixed(f, <<>>), k)
  /\ ~DropIsFinal

-----------------------------------------------------------------------------
(* The encoding.                                                           *)
\* What "name#key" consists of.
LEMMA PrefixedFacts ==
  ASSUME NEW f \in Seq(Nat), NEW u \in Seq(Nat)
  PROVE  /\ Prefixed(f, u) \in Seq(Nat)
         /\ Len(Prefixed(f, u)) = Len(f) + 1 + Len(u)
         /\ \A i \in 1..Len(f) : Prefixed(f, u)[i] = f[i]
         /\ Prefixed(f, u)[Len(f) + 1] = Hash
         /\ \A i \in 1..Len(u) : Prefixed(f, u)[Len(f) + 1 + i] = u[i]
  BY FamilyAssumption DEF Prefixed

\* A prefix agrees with the string at each of its places.
LEMMA PrefixPointwise ==
  ASSUME NEW s \in Seq(Nat), NEW t \in Seq(Nat)
  PROVE  IsPrefix(s, t) <=> /\ Len(s) <= Len(t)
                            /\ \A i \in 1..Len(s) : s[i] = t[i]
  BY DEF IsPrefix

\* The first '#' of a stored key ends the name: a key that begins with
\* "f#p" is in family f, and its key begins with p.
LEMMA PrefixSplits ==
  ASSUME NEW f \in Seq(Nat), NEW g \in Seq(Nat),
         NEW p \in Seq(Nat), NEW u \in Seq(Nat),
         NoHash(f), NoHash(g)
  PROVE  IsPrefix(Prefixed(f, p), Prefixed(g, u)) <=> f = g /\ IsPrefix(p, u)
<1> DEFINE s == Prefixed(f, p)
           t == Prefixed(g, u)
<1>1. /\ s \in Seq(Nat) /\ t \in Seq(Nat)
      /\ Len(s) = Len(f) + 1 + Len(p) /\ Len(t) = Len(g) + 1 + Len(u)
  BY PrefixedFacts
<1>2. /\ \A i \in 1..Len(f) : s[i] = f[i]
      /\ s[Len(f) + 1] = Hash
      /\ \A i \in 1..Len(p) : s[Len(f) + 1 + i] = p[i]
  BY PrefixedFacts
<1>3. /\ \A i \in 1..Len(g) : t[i] = g[i]
      /\ t[Len(g) + 1] = Hash
      /\ \A i \in 1..Len(u) : t[Len(g) + 1 + i] = u[i]
  BY PrefixedFacts
<1> HIDE DEF s, t
<1>4. ASSUME IsPrefix(s, t) PROVE f = g /\ IsPrefix(p, u)
  <2>1. Len(s) <= Len(t) /\ \A i \in 1..Len(s) : s[i] = t[i]
    BY <1>1, <1>4, PrefixPointwise
  <2>2. Len(f) = Len(g)
    <3>1. ASSUME Len(f) < Len(g) PROVE FALSE
      <4>1. Len(f) + 1 \in 1..Len(g)
        BY <3>1
      <4>2. Len(f) + 1 \in 1..Len(s)
        BY <1>1
      <4>3. QED
        BY <1>2, <1>3, <2>1, <4>1, <4>2 DEF NoHash
    <3>2. ASSUME Len(g) < Len(f) PROVE FALSE
      <4>1. Len(g) + 1 \in 1..Len(f)
        BY <3>2
      <4>2. Len(g) + 1 \in 1..Len(s)
        BY <1>1, <3>2
      <4>3. QED
        BY <1>2, <1>3, <2>1, <4>1, <4>2 DEF NoHash
    <3>3. QED
      BY <3>1, <3>2
  <2>3. f = g
    <3>1. \A i \in 1..Len(f) : f[i] = g[i]
      BY <1>1, <1>2, <1>3, <2>1, <2>2
    <3>2. QED
      BY <2>2, <3>1, SeqEqual
  <2>4. Len(p) <= Len(u)
    BY <1>1, <2>1, <2>2
  <2>5. ASSUME NEW i \in 1..Len(p) PROVE p[i] = u[i]
    <3>1. Len(f) + 1 + i \in 1..Len(s)
      BY <1>1
    <3>2. i \in 1..Len(u)
      BY <2>4
    <3>3. QED
      BY <1>2, <1>3, <2>1, <2>2, <3>1, <3>2
  <2>6. QED
    BY <2>3, <2>4, <2>5, PrefixPointwise
<1>5. ASSUME f = g, IsPrefix(p, u) PROVE IsPrefix(s, t)
  <2>1. Len(p) <= Len(u) /\ \A i \in 1..Len(p) : p[i] = u[i]
    BY <1>5, PrefixPointwise
  <2>2. ASSUME NEW i \in 1..Len(s) PROVE s[i] = t[i]
    <3>1. CASE i <= Len(f)
      <4>1. i \in 1..Len(f)
        BY <3>1
      <4>2. QED
        BY <1>2, <1>3, <1>5, <4>1
    <3>0. CASE i = Len(f) + 1
      BY <1>2, <1>3, <1>5, <3>0
    <3>2. CASE i > Len(f) + 1
      <4>1. PICK j \in 1..Len(p) : i = Len(f) + 1 + j
        <5>1. i - (Len(f) + 1) \in 1..Len(p)
          BY <1>1, <3>2
        <5>2. i = Len(f) + 1 + (i - (Len(f) + 1))
          BY <1>1
        <5>3. QED
          BY <5>1, <5>2
      <4>2. j \in 1..Len(u)
        BY <1>1, <2>1
      <4>3. QED
        BY <1>2, <1>3, <1>5, <2>1, <4>1, <4>2
    <3>3. QED
      BY <3>0, <3>1, <3>2
  <2>3. Len(s) <= Len(t)
    BY <1>1, <1>5, <2>1
  <2>4. QED
    BY <1>1, <2>2, <2>3, PrefixPointwise
<1>6. QED
  BY <1>4, <1>5 DEF s, t

\* A string is a prefix of itself.
LEMMA PrefixReflexive ==
  ASSUME NEW s \in Seq(Nat) PROVE IsPrefix(s, s)
  BY PrefixPointwise

\* Every string begins with the empty one.
LEMMA EmptyIsPrefix ==
  ASSUME NEW s \in Seq(Nat) PROVE IsPrefix(<<>>, s)
<1>1. <<>> \in Seq(Nat) /\ Len(<<>>) = 0
  OBVIOUS
<1>2. Len(<<>>) <= Len(s)
  BY <1>1
<1>3. \A i \in 1..Len(<<>>) : <<>>[i] = s[i]
  BY <1>1
<1>4. QED
  BY <1>1, <1>2, <1>3, PrefixPointwise

\* Two prefixed keys are equal only when name and key are.
LEMMA PrefixedInjective ==
  ASSUME NEW f \in Seq(Nat), NEW g \in Seq(Nat),
         NEW u \in Seq(Nat), NEW v \in Seq(Nat),
         NoHash(f), NoHash(g),
         Prefixed(f, u) = Prefixed(g, v)
  PROVE  f = g /\ u = v
<1>1. f = g /\ IsPrefix(u, v) /\ IsPrefix(v, u)
  BY PrefixSplits, PrefixReflexive, PrefixedFacts
<1>2. Len(u) = Len(v) /\ \A i \in 1..Len(u) : u[i] = v[i]
  BY <1>1, PrefixPointwise
<1>3. QED
  BY <1>1, <1>2, SeqEqual
\* Names and keys are strings.
LEMMA Strings ==
  /\ \A f \in Names : f \in Seq(Nat)
  /\ \A u \in UserKeys : u \in Seq(Nat)
  /\ \A k \in PlainKeys : k \in Seq(Nat)
  /\ \A b \in Bounds : b \in Seq(Nat)
  BY FamilyAssumption

\* No plain key is a key of a family.
LEMMA PlainApart ==
  ASSUME SeparatedUse, NEW k \in PlainKeys, NEW f \in Names, NEW u \in UserKeys
  PROVE  k # Prefixed(f, u)
<1>1. f \in Seq(Nat) /\ u \in Seq(Nat) /\ <<>> \in Seq(Nat) /\ NoHash(f)
  BY Strings DEF SeparatedUse
<1>2. IsPrefix(<<>>, u)
  BY <1>1, EmptyIsPrefix
<1>3. IsPrefix(Prefixed(f, <<>>), Prefixed(f, u))
  BY <1>1, <1>2, PrefixSplits
<1>4. QED
  BY <1>3 DEF SeparatedUse
\* Prefixes of prefixes.
LEMMA PrefixTransitive ==
  ASSUME NEW r \in Seq(Nat), NEW s \in Seq(Nat), NEW t \in Seq(Nat),
         IsPrefix(r, s), IsPrefix(s, t)
  PROVE  IsPrefix(r, t)
<1>1. /\ Len(r) <= Len(s) /\ \A i \in 1..Len(r) : r[i] = s[i]
      /\ Len(s) <= Len(t) /\ \A i \in 1..Len(s) : s[i] = t[i]
  BY PrefixPointwise
<1>2. Len(r) <= Len(t)
  BY <1>1
<1>3. ASSUME NEW i \in 1..Len(r) PROVE r[i] = t[i]
  <2>1. i \in 1..Len(s)
    BY <1>1
  <2>2. QED
    BY <1>1, <2>1
<1>4. QED
  BY <1>2, <1>3, PrefixPointwise

\* The stored keys that begin with "f#p" are the keys of the family f that
\* begin with p.
LEMMA StoredUnder ==
  ASSUME SeparatedUse, NEW f \in Names, NEW p \in Seq(Nat), NEW k \in StoredKeys
  PROVE  IsPrefix(Prefixed(f, p), k) <=>
           \E u \in UserKeys : k = Prefixed(f, u) /\ IsPrefix(p, u)
<1>1. f \in Seq(Nat) /\ NoHash(f) /\ <<>> \in Seq(Nat)
  BY Strings DEF SeparatedUse
<1>2. CASE k \in PlainKeys
  <2>1. k \in Seq(Nat) /\ ~IsPrefix(Prefixed(f, <<>>), k)
    BY <1>2, Strings DEF SeparatedUse
  <2>2. IsPrefix(Prefixed(f, <<>>), Prefixed(f, p))
    BY <1>1, PrefixSplits, EmptyIsPrefix
  <2>3. ~IsPrefix(Prefixed(f, p), k)
    BY <1>1, <2>1, <2>2, PrefixTransitive, PrefixedFacts
  <2>4. QED
    BY <1>2, <2>3, PlainApart
<1>3. ASSUME NEW g \in Names, NEW u \in UserKeys, k = Prefixed(g, u)
      PROVE  IsPrefix(Prefixed(f, p), k) <=>
               \E w \in UserKeys : k = Prefixed(f, w) /\ IsPrefix(p, w)
  <2>1. g \in Seq(Nat) /\ NoHash(g) /\ u \in Seq(Nat)
    BY Strings DEF SeparatedUse
  <2>2. IsPrefix(Prefixed(f, p), k) <=> f = g /\ IsPrefix(p, u)
    BY <1>1, <1>3, <2>1, PrefixSplits
  <2>3. ASSUME NEW w \in UserKeys, k = Prefixed(f, w) PROVE f = g /\ w = u
    BY <1>1, <1>3, <2>1, <2>3, Strings, PrefixedInjective
  <2>4. QED
    BY <1>3, <2>2, <2>3
<1>4. QED
  BY <1>2, <1>3 DEF StoredKeys

\* What is left of a string without its first n characters.
LEMMA RestFacts ==
  ASSUME NEW s \in Seq(Nat), NEW n \in Nat, n <= Len(s)
  PROVE  /\ SubSeq(s, n + 1, Len(s)) \in Seq(Nat)
         /\ Len(SubSeq(s, n + 1, Len(s))) = Len(s) - n
         /\ \A i \in 1..(Len(s) - n) : SubSeq(s, n + 1, Len(s))[i] = s[n + i]
<1> DEFINE m == n + 1  r == SubSeq(s, m, Len(s))
<1>1. Len(s) \in Nat /\ m \in 1..(Len(s) + 1) /\ Len(s) \in (m - 1)..Len(s)
  OBVIOUS
<1>2. \A i \in 1..(Len(s) - n) : m + i - 1 = n + i
  OBVIOUS
<1>3. Len(s) - m + 1 = Len(s) - n
  BY <1>1
<1> HIDE DEF m
<1>4. /\ r \in Seq(Nat) /\ Len(r) = Len(s) - m + 1
      /\ \A i \in 1..(Len(s) - m + 1) : r[i] = s[m + i - 1]
  BY <1>1, SubSeqProperties
<1> HIDE DEF r
<1>5. r \in Seq(Nat) /\ Len(r) = Len(s) - n /\ \A i \in 1..(Len(s) - n) : r[i] = s[n + i]
  BY <1>2, <1>3, <1>4
<1>6. QED
  BY <1>5 DEF r, m

\* Cutting the name, its '#' and p off a stored key leaves the rest of the key.
LEMMA Unprefix ==
  ASSUME NEW f \in Seq(Nat), NEW p \in Seq(Nat), NEW u \in Seq(Nat),
         IsPrefix(p, u)
  PROVE  /\ Drop(Prefixed(f, u), Len(Prefixed(f, p))) = Drop(u, Len(p))
         /\ p \o Drop(u, Len(p)) = u
<1> DEFINE n == Len(f) + 1 + Len(p)
           k == Prefixed(f, u)
           d == SubSeq(u, Len(p) + 1, Len(u))
           e == SubSeq(k, n + 1, Len(k))
<1>1. /\ Len(p) <= Len(u) /\ \A i \in 1..Len(p) : p[i] = u[i]
  BY PrefixPointwise
<1>2. /\ k \in Seq(Nat) /\ Len(k) = Len(f) + 1 + Len(u)
      /\ Len(Prefixed(f, p)) = n
      /\ \A i \in 1..Len(u) : k[Len(f) + 1 + i] = u[i]
  BY PrefixedFacts
<1> HIDE DEF k
<1>3. /\ d \in Seq(Nat) /\ Len(d) = Len(u) - Len(p)
      /\ \A i \in 1..(Len(u) - Len(p)) : d[i] = u[Len(p) + i]
  BY <1>1, RestFacts
<1>4. n \in Nat /\ n <= Len(k) /\ Len(k) - n = Len(u) - Len(p)
  BY <1>1, <1>2
<1> HIDE DEF n
<1>5. /\ e \in Seq(Nat) /\ Len(e) = Len(k) - n
      /\ \A i \in 1..(Len(k) - n) : e[i] = k[n + i]
  BY <1>2, <1>4, RestFacts
<1> HIDE DEF d, e
<1>6. Len(e) = Len(u) - Len(p) /\ \A i \in 1..(Len(u) - Len(p)) : e[i] = k[n + i]
  BY <1>4, <1>5
<1>7. ASSUME NEW i \in 1..Len(u) - Len(p) PROVE e[i] = d[i]
  <2>1. Len(p) + i \in 1..Len(u)
    BY <1>1
  <2>2. k[Len(f) + 1 + (Len(p) + i)] = u[Len(p) + i]
    BY <1>2, <2>1
  <2>3. n + i = Len(f) + 1 + (Len(p) + i)
    BY DEF n
  <2>4. QED
    BY <1>3, <1>6, <2>2, <2>3
<1>8. e = d
  BY <1>3, <1>5, <1>6, <1>7, SeqEqual
<1>9. p \o d = u
  <2>1. /\ p \o d \in Seq(Nat) /\ Len(p \o d) = Len(p) + Len(d)
        /\ \A i \in 1..Len(p) + Len(d) :
             (p \o d)[i] = IF i <= Len(p) THEN p[i] ELSE d[i - Len(p)]
    BY <1>3, ConcatProperties
  <2>2. Len(p) + Len(d) = Len(u)
    BY <1>1, <1>3
  <2>3. ASSUME NEW i \in 1..Len(u) PROVE (p \o d)[i] = u[i]
    <3>1. CASE i <= Len(p)
      BY <1>1, <2>1, <2>2, <3>1
    <3>2. CASE ~(i <= Len(p))
      <4>1. i - Len(p) \in 1..Len(u) - Len(p)
        BY <1>1, <3>2
      <4>2. Len(p) + (i - Len(p)) = i
        OBVIOUS
      <4>3. QED
        BY <1>3, <2>1, <2>2, <3>2, <4>1, <4>2
    <3>3. QED
      BY <3>1, <3>2
  <2>4. QED
    BY <2>1, <2>2, <2>3, SeqEqual
<1>10. QED
  BY <1>2, <1>8, <1>9 DEF Drop, d, e, k

-----------------------------------------------------------------------------
(* The order of keys.                                                      *)

\* s and t agree on their first n characters, and s ends there or has the
\* smaller character next.
LessAt(s, t, n) ==
  /\ n \in Nat /\ n <= Len(s) /\ n < Len(t)
  /\ \A j \in 1..n : s[j] = t[j]
  /\ n = Len(s) \/ s[n + 1] < t[n + 1]

\* The two ways to be smaller, in one.
LEMMA LessPointwise ==
  ASSUME NEW s \in Seq(Nat), NEW t \in Seq(Nat)
  PROVE  Less(s, t) <=> \E n \in Nat : LessAt(s, t, n)
<1>1. ASSUME IsStrictPrefix(s, t) PROVE LessAt(s, t, Len(s))
  <2>1. Len(s) <= Len(t) /\ \A j \in 1..Len(s) : s[j] = t[j]
    BY <1>1, PrefixPointwise DEF IsStrictPrefix
  <2>2. Len(s) # Len(t)
    BY <1>1, <2>1, SeqEqual DEF IsStrictPrefix
  <2>3. QED
    BY <2>1, <2>2 DEF LessAt
<1>2. ASSUME NEW i \in DOMAIN s \cap DOMAIN t, s[i] < t[i],
             \A j \in 1..(i - 1) : s[j] = t[j]
      PROVE  LessAt(s, t, i - 1)
  <2>1. i \in 1..Len(s)
    BY LenProperties
  <2>2. i \in 1..Len(t)
    BY LenProperties
  <2>3. i - 1 \in Nat /\ i - 1 <= Len(s) /\ i - 1 < Len(t) /\ (i - 1) + 1 = i
    BY <2>1, <2>2
  <2>4. QED
    BY <1>2, <2>3 DEF LessAt
<1>3. ASSUME NEW n \in Nat, LessAt(s, t, n), n = Len(s) PROVE IsStrictPrefix(s, t)
  <2>1. Len(s) < Len(t) /\ \A j \in 1..Len(s) : s[j] = t[j]
    BY <1>3 DEF LessAt
  <2>2. s # t /\ Len(s) <= Len(t)
    BY <2>1
  <2>3. QED
    BY <2>1, <2>2, PrefixPointwise DEF IsStrictPrefix
<1>4. ASSUME NEW n \in Nat, LessAt(s, t, n), n # Len(s)
      PROVE  \E i \in DOMAIN s \cap DOMAIN t :
               s[i] < t[i] /\ \A j \in 1..(i - 1) : s[j] = t[j]
  <2>1. n + 1 \in 1..Len(s)
    BY <1>4 DEF LessAt
  <2>2. n + 1 \in 1..Len(t)
    BY <1>4 DEF LessAt
  <2>3. n + 1 \in DOMAIN s \cap DOMAIN t /\ (n + 1) - 1 = n
    BY <2>1, <2>2, LenProperties
  <2>4. s[n + 1] < t[n + 1] /\ \A j \in 1..((n + 1) - 1) : s[j] = t[j]
    BY <1>4, <2>3 DEF LessAt
  <2>5. QED
    BY <2>3, <2>4
<1>5. ASSUME Less(s, t) PROVE \E n \in Nat : LessAt(s, t, n)
  BY <1>1, <1>2, <1>5 DEF Less, LessAt
<1>6. ASSUME NEW n \in Nat, LessAt(s, t, n) PROVE Less(s, t)
  BY <1>3, <1>4, <1>6 DEF Less
<1>7. QED
  BY <1>5, <1>6
\* A family's keys are stored in their own order.
LEMMA LessPrefixed ==
  ASSUME NEW f \in Seq(Nat), NEW u \in Seq(Nat), NEW v \in Seq(Nat)
  PROVE  Less(Prefixed(f, u), Prefixed(f, v)) <=> Less(u, v)
<1> DEFINE h == Len(f) + 1
           s == Prefixed(f, u)
           t == Prefixed(f, v)
<1>1. h \in Nat /\ h = Len(f) + 1
  OBVIOUS
<1>2. /\ s \in Seq(Nat) /\ Len(s) = h + Len(u)
      /\ t \in Seq(Nat) /\ Len(t) = h + Len(v)
  BY PrefixedFacts
<1>3. \A j \in 1..h : s[j] = t[j]
  <2>1. ASSUME NEW j \in 1..h PROVE s[j] = t[j]
    <3>1. CASE j = Len(f) + 1
      BY <3>1, PrefixedFacts
    <3>2. CASE j # Len(f) + 1
      <4>1. j \in 1..Len(f)
        BY <3>2
      <4>2. QED
        BY <4>1, PrefixedFacts
    <3>3. QED
      BY <3>1, <3>2
  <2>2. QED
    BY <2>1
<1>4. /\ \A j \in 1..Len(u) : s[h + j] = u[j]
      /\ \A j \in 1..Len(v) : t[h + j] = v[j]
  BY PrefixedFacts
<1> HIDE DEF h, s, t
<1>5. ASSUME NEW n \in Nat, LessAt(u, v, n) PROVE LessAt(s, t, h + n)
  <2>1. n <= Len(u) /\ n < Len(v)
    BY <1>5 DEF LessAt
  <2>2. h + n \in Nat /\ h + n <= Len(s) /\ h + n < Len(t)
    <3>1. Len(u) \in Nat /\ Len(v) \in Nat
      OBVIOUS
    <3>2. h + n <= h + Len(u)
      BY <1>1, <2>1, <3>1
    <3>3. h + n < h + Len(v)
      BY <1>1, <2>1, <3>1
    <3>4. QED
      BY <1>1, <1>2, <3>2, <3>3
  <2>3. ASSUME NEW j \in 1..h + n PROVE s[j] = t[j]
    <3>1. CASE j <= h
      BY <1>1, <1>3, <3>1
    <3>2. CASE ~(j <= h)
      <4>1. PICK i \in 1..n : j = h + i
        <5>1. j - h \in 1..n
          BY <1>1, <3>2
        <5>2. j = h + (j - h)
          BY <1>1
        <5>3. QED
          BY <5>1, <5>2
      <4>2. i \in 1..Len(u)
        BY <2>1
      <4>3. i \in 1..Len(v)
        BY <2>1
      <4>4. u[i] = v[i]
        BY <1>5 DEF LessAt
      <4>5. QED
        BY <1>4, <4>1, <4>2, <4>3, <4>4
    <3>3. QED
      BY <3>1, <3>2
  <2>4. ASSUME n # Len(u) PROVE s[(h + n) + 1] < t[(h + n) + 1]
    <3>1. n + 1 \in 1..Len(u)
      BY <2>1, <2>4
    <3>2. n + 1 \in 1..Len(v)
      BY <2>1
    <3>3. (h + n) + 1 = h + (n + 1)
      BY <1>1
    <3>4. QED
      BY <1>4, <1>5, <2>4, <3>1, <3>2, <3>3 DEF LessAt
  <2>5. n = Len(u) => h + n = Len(s)
    BY <1>2
  <2>6. QED
    BY <2>2, <2>3, <2>4, <2>5 DEF LessAt
<1>6. ASSUME NEW m \in Nat, LessAt(s, t, m)
      PROVE  \E n \in Nat : LessAt(u, v, n)
  <2>1. m <= Len(s) /\ m < Len(t) /\ (m = Len(s) \/ s[m + 1] < t[m + 1])
    BY <1>6 DEF LessAt
  <2>2. h <= m
    <3>1. ASSUME m < h PROVE FALSE
      <4>1. m + 1 \in 1..h
        BY <1>1, <3>1
      <4>2. s[m + 1] = t[m + 1]
        BY <1>3, <4>1
      <4>3. m + 1 \in 1..Len(t)
        BY <2>1
      <4>4. t[m + 1] \in Nat
        BY <1>2, <4>3, ElementOfSeq
      <4>5. m # Len(s)
        BY <1>1, <1>2, <3>1
      <4>6. QED
        BY <2>1, <4>2, <4>4, <4>5
    <3>2. QED
      BY <1>1, <3>1
  <2>3. PICK n \in Nat : m = h + n
    <3>1. m - h \in Nat /\ m = h + (m - h)
      BY <1>1, <2>2
    <3>2. QED
      BY <3>1
  <2>4. n <= Len(u) /\ n < Len(v)
    BY <1>1, <1>2, <2>1, <2>3
  <2>5. ASSUME NEW j \in 1..n PROVE u[j] = v[j]
    <3>1. j \in 1..Len(u)
      BY <2>4
    <3>2. j \in 1..Len(v)
      BY <2>4
    <3>3. h + j \in 1..m
      BY <1>1, <2>3
    <3>4. s[h + j] = t[h + j]
      BY <1>6, <3>3 DEF LessAt
    <3>5. QED
      BY <1>4, <3>1, <3>2, <3>4
  <2>6. ASSUME n # Len(u) PROVE u[n + 1] < v[n + 1]
    <3>1. n + 1 \in 1..Len(u)
      BY <2>4, <2>6
    <3>2. n + 1 \in 1..Len(v)
      BY <2>4
    <3>3. m + 1 = h + (n + 1) /\ m # Len(s)
      BY <1>1, <1>2, <2>3, <2>6
    <3>4. QED
      BY <1>4, <2>1, <3>1, <3>2, <3>3
  <2>7. QED
    BY <2>4, <2>5, <2>6 DEF LessAt
<1>7. Less(s, t) <=> Less(u, v)
  <2>1. \A n \in Nat : h + n \in Nat
    BY <1>1
  <2>2. QED
    BY <1>2, <1>5, <1>6, <2>1, LessPointwise
<1>8. QED
  BY <1>7 DEF s, t

\* exclusive_range_end is above everything up to the end, and what is below it
\* is at most the end or begins with the end.  With a successor to its last
\* character it is above all that begins with the end.
LEMMA EndBounds ==
  ASSUME NEW e \in Seq(Nat), e # <<>>, NEW k \in Seq(Nat)
  PROVE  /\ AtMost(k, e) => Less(k, ExclusiveRangeEnd(e))
         /\ Less(k, ExclusiveRangeEnd(e)) => AtMost(k, e) \/ IsPrefix(e, k)
         /\ IsPrefix(e, k) /\ Last(e) # Top => Less(k, ExclusiveRangeEnd(e))
<1> DEFINE l == Len(e)
           x == ExclusiveRangeEnd(e)
<1>1. l \in Nat /\ l >= 1 /\ l = Len(e) /\ Last(e) = e[l]
  BY EmptySeq DEF Last
<1>2. e[l] \in Nat
  BY <1>1, ElementOfSeq
<1>3. CASE Last(e) = Top
  <2>1. x = Append(e, 1)
    BY <1>3 DEF ExclusiveRangeEnd
  <2>2. x \in Seq(Nat) /\ Len(x) = l + 1 /\ \A j \in 1..l : x[j] = e[j]
    BY <2>1
  <2> HIDE DEF x, l
  <2>3. ASSUME k = e PROVE LessAt(k, x, l)
    BY <1>1, <2>2, <2>3 DEF LessAt
  <2>4. ASSUME NEW n \in Nat, LessAt(k, e, n) PROVE LessAt(k, x, n)
    <3>1. n < l /\ n <= Len(k)
      BY <1>1, <2>4 DEF LessAt
    <3>2. n + 1 \in 1..l
      BY <1>1, <3>1
    <3>3. \A j \in 1..n : k[j] = x[j]
      BY <1>1, <2>2, <2>4, <3>1 DEF LessAt
    <3>4. n < Len(x)
      BY <1>1, <2>2, <3>1
    <3>5. QED
      BY <2>2, <2>4, <3>1, <3>2, <3>3, <3>4 DEF LessAt
  <2>5. ASSUME NEW n \in Nat, LessAt(k, x, n) PROVE AtMost(k, e) \/ IsPrefix(e, k)
    <3>1. n <= l /\ n <= Len(k)
      BY <1>1, <2>2, <2>5 DEF LessAt
    <3>2. \A j \in 1..n : k[j] = e[j]
      BY <1>1, <2>2, <2>5, <3>1 DEF LessAt
    <3>3. CASE n = l
      BY <1>1, <3>1, <3>2, <3>3, PrefixPointwise
    <3>4. CASE n < l
      <4>1. n + 1 \in 1..l
        BY <1>1, <3>4
      <4>2. LessAt(k, e, n)
        BY <1>1, <2>2, <2>5, <3>1, <3>2, <3>4, <4>1 DEF LessAt
      <4>3. QED
        BY <4>2, LessPointwise DEF AtMost
    <3>5. QED
      BY <1>1, <3>1, <3>3, <3>4
  <2>6. QED
    BY <1>1, <1>3, <2>2, <2>3, <2>4, <2>5, LessPointwise DEF AtMost, x
<1>4. CASE Last(e) # Top
  <2>1. x = Append(Front(e), e[l] + 1)
    BY <1>1, <1>4 DEF ExclusiveRangeEnd
  <2>2. /\ Front(e) \in Seq(Nat) /\ Len(Front(e)) = l - 1
        /\ \A j \in 1..(l - 1) : Front(e)[j] = e[j]
    <3>1. \A j \in 1..(l - 1) : e[j] \in Nat
      BY <1>1, ElementOfSeq
    <3> HIDE DEF l
    <3>2. l - 1 \in Int /\ (l - 1) - 1 + 1 = l - 1 /\ (1 <= l - 1 \/ l - 1 = 0)
      BY <1>1
    <3>3. /\ SubSeq(e, 1, l - 1) \in Seq(Nat) /\ Len(SubSeq(e, 1, l - 1)) = l - 1
          /\ \A j \in 1..(l - 1) : SubSeq(e, 1, l - 1)[j] = e[1 + j - 1]
      BY <3>1, <3>2, SubSeqProperties
    <3>4. QED
      BY <1>1, <3>3 DEF Front
  <2>3. /\ x \in Seq(Nat) /\ Len(x) = l /\ x[l] = e[l] + 1
        /\ \A j \in 1..(l - 1) : x[j] = e[j]
    BY <1>1, <1>2, <2>1, <2>2, AppendProperties
  <2> HIDE DEF x, l
  <2>4. ASSUME IsPrefix(e, k) PROVE LessAt(k, x, l - 1)
    <3>1. l <= Len(k) /\ \A j \in 1..l : e[j] = k[j]
      BY <1>1, <2>4, PrefixPointwise
    <3>2. l - 1 \in Nat /\ l - 1 <= Len(k) /\ l - 1 < Len(x) /\ (l - 1) + 1 = l
      BY <1>1, <2>3, <3>1
    <3>3. \A j \in 1..(l - 1) : k[j] = x[j]
      BY <1>1, <2>3, <3>1
    <3>4. k[l] < x[l]
      BY <1>1, <1>2, <2>3, <3>1
    <3>5. QED
      BY <3>2, <3>3, <3>4 DEF LessAt
  <2>5. ASSUME NEW n \in Nat, LessAt(k, e, n) PROVE LessAt(k, x, n)
    <3>1. n <= l - 1 /\ n <= Len(k) /\ n < Len(x)
      BY <1>1, <2>3, <2>5 DEF LessAt
    <3>2. \A j \in 1..n : k[j] = x[j]
      BY <1>1, <2>3, <2>5, <3>1 DEF LessAt
    <3>3. ASSUME n # Len(k) PROVE k[n + 1] < x[n + 1]
      <4>1. k[n + 1] < e[n + 1]
        BY <2>5, <3>3 DEF LessAt
      <4>2. CASE n + 1 = l
        <5>1. n + 1 \in 1..Len(k)
          BY <3>1, <3>3
        <5>2. k[n + 1] \in Nat
          BY <5>1, ElementOfSeq
        <5>3. QED
          BY <1>2, <2>3, <4>1, <4>2, <5>2
      <4>3. CASE n + 1 # l
        <5>1. n + 1 \in 1..(l - 1)
          BY <1>1, <3>1, <4>3
        <5>2. QED
          BY <2>3, <4>1, <5>1
      <4>4. QED
        BY <4>2, <4>3
    <3>4. QED
      BY <3>1, <3>2, <3>3 DEF LessAt
  <2>6. ASSUME NEW n \in Nat, LessAt(k, x, n) PROVE AtMost(k, e) \/ IsPrefix(e, k)
    <3>1. n <= l - 1 /\ n <= Len(k)
      BY <1>1, <2>3, <2>6 DEF LessAt
    <3>2. \A j \in 1..n : k[j] = e[j]
      BY <1>1, <2>3, <2>6, <3>1 DEF LessAt
    <3>3. CASE n = Len(k)
      <4>1. LessAt(k, e, n)
        BY <1>1, <3>1, <3>2, <3>3 DEF LessAt
      <4>2. QED
        BY <4>1, LessPointwise DEF AtMost
    <3>4. CASE n # Len(k) /\ n # l - 1
      <4>1. n + 1 \in 1..(l - 1)
        BY <1>1, <3>1, <3>4
      <4>2. LessAt(k, e, n)
        BY <1>1, <2>3, <2>6, <3>1, <3>2, <3>4, <4>1 DEF LessAt
      <4>3. QED
        BY <4>2, LessPointwise DEF AtMost
    <3>5. CASE n # Len(k) /\ n = l - 1
      <4>1. n + 1 = l /\ l \in 1..Len(k)
        BY <1>1, <3>1, <3>5
      <4>2. k[l] \in Nat /\ k[l] < e[l] + 1
        BY <2>3, <2>6, <3>5, <4>1, ElementOfSeq DEF LessAt
      <4>3. CASE k[l] < e[l]
        <5>1. LessAt(k, e, n)
          BY <1>1, <3>1, <3>2, <4>1, <4>3 DEF LessAt
        <5>2. QED
          BY <5>1, LessPointwise DEF AtMost
      <4>4. CASE k[l] = e[l]
        <5>1. \A j \in 1..l : e[j] = k[j]
          BY <1>1, <3>2, <3>5, <4>4
        <5>2. l <= Len(k)
          BY <4>1
        <5>3. QED
          BY <1>1, <5>1, <5>2, PrefixPointwise
      <4>5. QED
        BY <1>2, <4>2, <4>3, <4>4
    <3>6. QED
      BY <3>3, <3>4, <3>5
  <2>7. l - 1 \in Nat
    BY <1>1
  <2>8. IsPrefix(e, k) => Less(k, x)
    BY <2>3, <2>4, <2>7, LessPointwise
  <2>9. AtMost(k, e) => Less(k, x)
    BY <2>3, <2>5, <2>8, LessPointwise, PrefixReflexive DEF AtMost
  <2>10. Less(k, x) => AtMost(k, e) \/ IsPrefix(e, k)
    BY <2>3, <2>6, LessPointwise
  <2>11. QED
    BY <2>8, <2>9, <2>10 DEF x
<1>5. QED
  BY <1>3, <1>4
-----------------------------------------------------------------------------
(* The layers.                                                             *)

Table == [StoredKeys -> Int]

\* The entries of a list with one table more.
LEMMA CellsAppend ==
  ASSUME NEW s \in Seq(Table), NEW t \in Table, NEW k \in StoredKeys
  PROVE  Cells(Append(s, t), k) = Cells(s, k) \cup ({t[k]} \ {0})
<1> DEFINE a == Append(s, t)
<1>1. /\ a \in Seq(Table) /\ Len(a) = Len(s) + 1 /\ a[Len(s) + 1] = t
      /\ \A i \in 1..Len(s) : a[i] = s[i]
  BY AppendProperties
<1>2. DOMAIN a = 1..(Len(s) + 1) /\ DOMAIN s = 1..Len(s)
  BY <1>1, LenProperties
<1> HIDE DEF a
<1>3. \A i \in DOMAIN a : i = Len(s) + 1 \/ i \in DOMAIN s
  BY <1>2
<1>4. DOMAIN s \subseteq DOMAIN a /\ Len(s) + 1 \in DOMAIN a
  BY <1>2
<1>5. \A c : c \in Cells(a, k) <=> \E i \in DOMAIN a : a[i][k] # 0 /\ c = a[i][k]
  BY DEF Cells, Hits
<1>6. \A c : c \in Cells(s, k) <=> \E i \in DOMAIN s : s[i][k] # 0 /\ c = s[i][k]
  BY DEF Cells, Hits
<1>7. \A i \in DOMAIN s : a[i] = s[i]
  BY <1>1, <1>2
<1>8. ASSUME NEW c \in Cells(a, k) PROVE c \in Cells(s, k) \cup ({t[k]} \ {0})
  BY <1>1, <1>3, <1>5, <1>6, <1>7
<1>9. ASSUME NEW c \in Cells(s, k) \cup ({t[k]} \ {0}) PROVE c \in Cells(a, k)
  BY <1>1, <1>4, <1>5, <1>6, <1>7
<1>10. QED
  BY <1>8, <1>9 DEF a

\* The entries of a list do not depend on its order.
LEMMA CellsPermuted ==
  ASSUME NEW s \in Seq(Table), NEW p \in Bijection(DOMAIN s, DOMAIN s),
         NEW k \in StoredKeys
  PROVE  /\ [i \in DOMAIN s |-> s[p[i]]] \in Seq(Table)
         /\ Cells([i \in DOMAIN s |-> s[p[i]]], k) = Cells(s, k)
<1> DEFINE a == [i \in DOMAIN s |-> s[p[i]]]
<1>1. /\ \A i \in DOMAIN s : p[i] \in DOMAIN s
      /\ \A j \in DOMAIN s : \E i \in DOMAIN s : p[i] = j
  BY DEF Bijection, Surjection, Injection
<1>2. DOMAIN a = DOMAIN s /\ \A i \in DOMAIN s : a[i] = s[p[i]]
  OBVIOUS
<1>3. a \in Seq(Table)
  <2>1. DOMAIN s = 1..Len(s) /\ Len(s) \in Nat
    BY LenProperties
  <2>2. \A i \in 1..Len(s) : s[p[i]] \in Table
    BY <1>1, <2>1, ElementOfSeq
  <2>3. a = [i \in 1..Len(s) |-> s[p[i]]]
    BY <2>1
  <2>4. QED
    BY <2>1, <2>2, <2>3, IsASeq
<1> HIDE DEF a
<1>4. Cells(a, k) = Cells(s, k)
  <2>1. \A c : c \in Cells(a, k) <=> \E i \in DOMAIN s : a[i][k] # 0 /\ c = a[i][k]
    BY <1>2 DEF Cells, Hits
  <2>2. \A c : c \in Cells(s, k) <=> \E i \in DOMAIN s : s[i][k] # 0 /\ c = s[i][k]
    BY DEF Cells, Hits
  <2>3. ASSUME NEW c \in Cells(a, k) PROVE c \in Cells(s, k)
    <3>1. PICK i \in DOMAIN s : a[i][k] # 0 /\ c = a[i][k]
      BY <2>1, <2>3
    <3>2. p[i] \in DOMAIN s /\ a[i] = s[p[i]]
      BY <1>1, <1>2
    <3>3. QED
      BY <2>2, <3>1, <3>2
  <2>4. ASSUME NEW c \in Cells(s, k) PROVE c \in Cells(a, k)
    <3>1. PICK j \in DOMAIN s : s[j][k] # 0 /\ c = s[j][k]
      BY <2>2, <2>4
    <3>2. PICK i \in DOMAIN s : p[i] = j
      BY <1>1
    <3>3. a[i] = s[j]
      BY <1>2, <3>2
    <3>4. QED
      BY <2>1, <3>1, <3>3
  <2>5. QED
    BY <2>3, <2>4
<1>5. QED
  BY <1>3, <1>4 DEF a

\* The newest entry: m is in the list, and every other is older.
Newest(C, m) == m \in C /\ \A d \in C \ {m} : Stamp(d) < Stamp(m)

\* NewestHit finds it.
LEMMA NewestIs ==
  ASSUME NEW s, NEW k, Cells(s, k) \subseteq Int, NEW m, Newest(Cells(s, k), m)
  PROVE  NewestHit(s, k) = m
<1>1. \A d \in Cells(s, k) : Stamp(d) <= Stamp(m) /\ Stamp(d) \in Int
  BY DEF Newest, Stamp
<1>2. \A c \in Cells(s, k) :
        (\A d \in Cells(s, k) : Stamp(d) <= Stamp(c)) => c = m
  <2>1. ASSUME NEW c \in Cells(s, k), Stamp(m) <= Stamp(c) PROVE c = m
    BY <1>1, <2>1 DEF Newest
  <2>2. QED
    BY <2>1 DEF Newest
<1>3. m \in Cells(s, k)
  BY DEF Newest
<1>4. QED
  BY <1>1, <1>2, <1>3 DEF NewestHit

\* Without an entry there is nothing to find.
LEMMA NoHit ==
  ASSUME NEW s, NEW k, Cells(s, k) = {}
  PROVE  NewestHit(s, k) = 0 /\ LastHit(s, k) = 0
<1>1. Hits(s, k) = {}
  BY DEF Cells
<1>2. QED
  BY <1>1 DEF NewestHit, LastHit

\* A non-empty set of places in a list has a greatest element.
LEMMA LastPlace ==
  ASSUME NEW n \in Nat, NEW S \in SUBSET (1..n), S # {}
  PROVE  Max(S) \in S /\ \A i \in S : i <= Max(S)
<1> DEFINE D == {n - i : i \in S}
<1>1. D \in SUBSET Nat /\ D # {}
  <2>1. \A i \in S : n - i \in Nat
    OBVIOUS
  <2>2. QED
    BY <2>1
<1>2. PICK d \in D : \A j \in D : d <= j
  <2> HIDE DEF D
  <2>1. QED
    BY <1>1, LeastNat
<1>3. PICK m \in S : d = n - m
  OBVIOUS
<1>4. \A i \in S : m >= i
  <2>1. ASSUME NEW i \in S PROVE m >= i
    <3>1. n - i \in D
      OBVIOUS
    <3>2. d <= n - i
      <4> HIDE DEF D
      <4>1. QED
        BY <1>2, <3>1
    <3>3. QED
      BY <1>3, <3>2
  <2>2. QED
    BY <2>1
<1>5. QED
  BY <1>4 DEF Max

\* LastHit is one of the entries, and that of the last table when it has one.
LEMMA LastIs ==
  ASSUME NEW s \in Seq(Table), NEW t \in Table, NEW k \in StoredKeys
  PROVE  LET a == Append(s, t)
         IN  /\ Cells(a, k) # {} => LastHit(a, k) \in Cells(a, k)
             /\ t[k] # 0 => LastHit(a, k) = t[k]
<1> DEFINE a == Append(s, t)
           n == Len(s) + 1
<1>1. DOMAIN a = 1..n /\ n \in Nat /\ n >= 1 /\ a[n] = t
  BY AppendProperties, LenProperties
<1> HIDE DEF a, n
<1>2. Hits(a, k) \in SUBSET (1..n)
  BY <1>1 DEF Hits
<1>3. ASSUME Hits(a, k) # {} PROVE /\ Max(Hits(a, k)) \in Hits(a, k)
                                   /\ \A i \in Hits(a, k) : i <= Max(Hits(a, k))
  BY <1>1, <1>2, <1>3, LastPlace
<1>4. Cells(a, k) # {} => LastHit(a, k) \in Cells(a, k)
  BY <1>3 DEF Cells, LastHit
<1>5. ASSUME t[k] # 0 PROVE LastHit(a, k) = t[k]
  <2>1. n \in Hits(a, k)
    <3>1. n \in DOMAIN a
      BY <1>1
    <3>2. QED
      BY <1>1, <1>5, <3>1 DEF Hits
  <2>2. Max(Hits(a, k)) = n
    <3>1. n <= Max(Hits(a, k)) /\ Max(Hits(a, k)) \in 1..n
      BY <1>2, <1>3, <2>1
    <3>2. QED
      BY <1>1, <3>1
  <2>3. QED
    BY <1>1, <2>1, <2>2 DEF LastHit
<1>6. QED
  BY <1>4, <1>5 DEF a

-----------------------------------------------------------------------------
(* The invariant.                                                          *)

TypeInv ==
  /\ families \subseteq Names
  /\ mem \in Table /\ l0 \in Seq(Table) /\ l1 \in Table
  /\ truth \in [Names -> [UserKeys -> Nat]]
  /\ past \in [Names -> [UserKeys -> SUBSET Int]]
  /\ writes \in Nat

\* The stamps of a key: every entry is of a write that took place, the
\* memtable's is newer than those of level 0, and one of these is the newest.
KeyInv(k) ==
  /\ Stamp(mem[k]) <= writes
  /\ \A c \in Cells(l0, k) : /\ Stamp(c) <= writes
                             /\ mem[k] # 0 => Stamp(c) < Stamp(mem[k])
  /\ Cells(l0, k) # {} => \E m \in Cells(l0, k) : Newest(Cells(l0, k), m)

\* A family's key: a lookup gives the history's value, and no layer holds what
\* was not written there.
FamilyInv(f, u) ==
  /\ GetCf(f, u) = truth[f][u]
  /\ mem[Prefixed(f, u)] \in past[f][u] \cup {0}
  /\ Cells(l0, Prefixed(f, u)) \subseteq past[f][u]
  /\ l1[Prefixed(f, u)] \in past[f][u] \cup {0}
  /\ 0 \notin past[f][u]

\* Every family's part of the layers, whether the family is in the map or not.
LayersInv ==
  /\ TypeInv
  /\ \A k \in StoredKeys : KeyInv(k)
  /\ \A f \in Names, u \in UserKeys : FamilyInv(f, u)

\* A family's key is one of the stored keys.
LEMMA FamilyKeyStored ==
  ASSUME NEW f \in Names, NEW u \in UserKeys
  PROVE  Prefixed(f, u) \in StoredKeys
  BY DEF StoredKeys

\* The cells of a list of tables are entries, and entries are integers.
LEMMA CellsType ==
  ASSUME NEW s \in Seq(Table), NEW k \in StoredKeys
  PROVE  Cells(s, k) \subseteq Int \ {0}
<1>1. \A i \in DOMAIN s : s[i] \in Table
  BY LenProperties, ElementOfSeq
<1>2. \A i \in DOMAIN s : s[i][k] \in Int
  BY <1>1 DEF Table
<1>3. QED
  BY <1>2 DEF Cells, Hits

\* Before the first call every layer is empty.
LEMMA LayersInit == Init => LayersInv
<1> SUFFICES ASSUME Init PROVE LayersInv
  OBVIOUS
<1>1. NoEntries \in Table /\ \A k \in StoredKeys : NoEntries[k] = 0
  BY DEF NoEntries, Table
<1>2. TypeInv
  BY <1>1, FamilyAssumption DEF Init, TypeInv
<1>3. \A k \in StoredKeys : Cells(l0, k) = {}
  BY DEF Init, Cells, Hits
<1>4. \A k \in StoredKeys : KeyInv(k)
  BY <1>1, <1>3 DEF Init, KeyInv, Stamp
<1>5. ASSUME NEW f \in Names, NEW u \in UserKeys PROVE FamilyInv(f, u)
  <2>1. Prefixed(f, u) \in StoredKeys
    BY FamilyKeyStored
  <2>2. NewestHit(l0, Prefixed(f, u)) = 0
    BY <1>3, <2>1, NoHit
  <2>3. QED
    BY <1>1, <1>3, <2>1, <2>2 DEF Init, FamilyInv, GetCf, Get, Over, Value
<1>6. QED
  BY <1>2, <1>4, <1>5 DEF LayersInv

\* What a lookup in level 0 finds: 0 or one of the entries.
LEMMA NewestIn ==
  ASSUME TypeInv, NEW k \in StoredKeys, KeyInv(k)
  PROVE  /\ Cells(l0, k) = {} => NewestHit(l0, k) = 0
         /\ Cells(l0, k) # {} => NewestHit(l0, k) \in Cells(l0, k)
                                 /\ NewestHit(l0, k) \in Int \ {0}
<1>1. Cells(l0, k) \subseteq Int \ {0}
  BY CellsType DEF TypeInv
<1>2. ASSUME NEW m \in Cells(l0, k), Newest(Cells(l0, k), m)
      PROVE  NewestHit(l0, k) = m
  BY <1>1, <1>2, NewestIs
<1>3. QED
  BY <1>1, <1>2, NoHit DEF KeyInv

\* A write stores one cell under some keys, newer than all entries there are.
LEMMA StoreKeys ==
  ASSUME TypeInv, NEW keys \in SUBSET StoredKeys, NEW c \in NextCells,
         Store(keys, c), NEW k \in StoredKeys, KeyInv(k)
  PROVE  KeyInv(k)'
<1>1. /\ writes' = writes + 1 /\ l0' = l0
      /\ mem'[k] = IF k \in keys THEN c ELSE mem[k]
  BY DEF Store
<1>2. Stamp(c) = writes + 1 /\ writes \in Nat /\ mem[k] \in Int
  BY DEF NextCells, Stamp, TypeInv, Table
<1>3. \A d \in Cells(l0, k) : Stamp(d) \in Int /\ Stamp(d) <= writes
  BY CellsType DEF KeyInv, TypeInv, Stamp
<1>4. Stamp(mem[k]) \in Int /\ Stamp(mem[k]) <= writes
  BY <1>2 DEF KeyInv, Stamp
<1>5. Stamp(mem'[k]) <= writes'
  BY <1>1, <1>2, <1>4
<1>6. ASSUME NEW d \in Cells(l0, k)
      PROVE  Stamp(d) <= writes' /\ (mem'[k] # 0 => Stamp(d) < Stamp(mem'[k]))
  <2>1. mem[k] # 0 => Stamp(d) < Stamp(mem[k])
    BY DEF KeyInv
  <2>2. QED
    BY <1>1, <1>2, <1>3, <2>1
<1>7. Cells(l0, k) # {} => \E m \in Cells(l0, k) : Newest(Cells(l0, k), m)
  BY DEF KeyInv
<1>8. QED
  BY <1>1, <1>5, <1>6, <1>7 DEF KeyInv

\* ... and leaves the types as they are.
LEMMA StoreTypes ==
  ASSUME TypeInv, NEW keys \in SUBSET StoredKeys, NEW c \in NextCells,
         Store(keys, c)
  PROVE  /\ mem' \in Table /\ l0' = l0 /\ l1' = l1 /\ families' = families
         /\ writes' \in Nat /\ c \in Int \ {0}
<1>1. c \in Int \ {0}
  BY DEF NextCells, TypeInv
<1>2. \A k \in StoredKeys : (IF k \in keys THEN c ELSE mem[k]) \in Int
  BY <1>1 DEF TypeInv, Table
<1>3. mem' = [k \in StoredKeys |-> IF k \in keys THEN c ELSE mem[k]]
  BY DEF Store
<1>4. mem' \in Table
  BY <1>2, <1>3 DEF Table
<1>5. QED
  BY <1>1, <1>4 DEF Store, TypeInv

\* A write to a family changes its own keys and those of no other family.
LEMMA WriteCfKeeps ==
  ASSUME SeparatedUse, LayersInv, NEW f \in Names, NEW S \in SUBSET UserKeys,
         NEW c \in NextCells, WriteCf(f, S, c)
  PROVE  LayersInv'
<1> DEFINE keys == {Prefixed(f, u) : u \in S}
<1>1. keys \in SUBSET StoredKeys
  BY FamilyKeyStored
<1>2. /\ Store(keys, c)
      /\ truth' = [truth EXCEPT ![f] =
                     [u \in UserKeys |-> IF u \in S THEN Value(c) ELSE @[u]]]
      /\ past' = [past EXCEPT ![f] =
                    [u \in UserKeys |-> IF u \in S THEN @[u] \cup {c} ELSE @[u]]]
  BY DEF WriteCf
<1>3. mem' = [k \in StoredKeys |-> IF k \in keys THEN c ELSE mem[k]]
  BY <1>2 DEF Store
<1>4. ASSUME NEW g \in Names, NEW w \in UserKeys
      PROVE  Prefixed(g, w) \in keys <=> g = f /\ w \in S
  <2>1. ASSUME NEW u \in S, Prefixed(g, w) = Prefixed(f, u)
        PROVE  g = f /\ w = u
    BY <2>1, Strings, PrefixedInjective DEF SeparatedUse
  <2>2. QED
    BY <2>1
<1> HIDE DEF keys
<1>5. TypeInv
  BY DEF LayersInv
<1>6. /\ mem' \in Table /\ l0' = l0 /\ l1' = l1 /\ families' = families
      /\ writes' \in Nat /\ c \in Int \ {0}
  BY <1>1, <1>2, <1>5, StoreTypes
<1>7. Value(c) \in Nat
  BY <1>6 DEF Value
<1>8. TypeInv'
  <2>1. truth' \in [Names -> [UserKeys -> Nat]]
    BY <1>2, <1>5, <1>7 DEF TypeInv
  <2>2. past' \in [Names -> [UserKeys -> SUBSET Int]]
    BY <1>2, <1>5, <1>6 DEF TypeInv
  <2>3. QED
    BY <1>5, <1>6, <2>1, <2>2 DEF TypeInv
<1>9. \A k \in StoredKeys : KeyInv(k)'
  BY <1>1, <1>2, <1>5, StoreKeys DEF LayersInv
<1>10. ASSUME NEW g \in Names, NEW w \in UserKeys PROVE FamilyInv(g, w)'
  <2> DEFINE k == Prefixed(g, w)
  <2>1. k \in StoredKeys /\ FamilyInv(g, w)
    BY FamilyKeyStored DEF LayersInv
  <2>2. CASE g = f /\ w \in S
    <3>1. mem'[k] = c
      BY <1>3, <1>4, <2>1, <2>2
    <3>2. truth'[g][w] = Value(c) /\ past'[g][w] = past[g][w] \cup {c}
      BY <1>2, <1>5, <2>2 DEF TypeInv
    <3>3. GetCf(g, w)' = Value(c)
      BY <1>6, <3>1 DEF GetCf, Get, Over
    <3>4. QED
      BY <1>6, <2>1, <3>1, <3>2, <3>3 DEF FamilyInv
  <2>3. CASE ~(g = f /\ w \in S)
    <3>1. mem'[k] = mem[k]
      BY <1>3, <1>4, <2>1, <2>3
    <3>2. truth'[g][w] = truth[g][w] /\ past'[g][w] = past[g][w]
      BY <1>2, <1>5, <2>3 DEF TypeInv
    <3>3. GetCf(g, w)' = GetCf(g, w)
      BY <1>6, <3>1 DEF GetCf, Get
    <3>4. QED
      BY <1>6, <2>1, <3>1, <3>2, <3>3 DEF FamilyInv
  <2>4. QED
    BY <2>2, <2>3
<1>11. QED
  BY <1>8, <1>9, <1>10 DEF LayersInv

\* A write without a family changes no family's key.
LEMMA WritePlainKeeps ==
  ASSUME SeparatedUse, LayersInv, NEW j \in PlainKeys, NEW c \in NextCells,
         WritePlain(j, c)
  PROVE  LayersInv'
<1>1. {j} \in SUBSET StoredKeys
  BY DEF StoredKeys
<1>2. Store({j}, c) /\ truth' = truth /\ past' = past /\ TypeInv
  BY DEF WritePlain, LayersInv
<1>3. /\ mem' \in Table /\ l0' = l0 /\ l1' = l1 /\ families' = families
      /\ writes' \in Nat
  BY <1>1, <1>2, StoreTypes
<1>4. TypeInv'
  BY <1>2, <1>3 DEF TypeInv
<1>5. \A k \in StoredKeys : KeyInv(k)'
  BY <1>1, <1>2, StoreKeys DEF LayersInv
<1>6. ASSUME NEW g \in Names, NEW w \in UserKeys PROVE FamilyInv(g, w)'
  <2>1. Prefixed(g, w) \in StoredKeys /\ Prefixed(g, w) # j /\ FamilyInv(g, w)
    BY FamilyKeyStored, PlainApart DEF LayersInv
  <2>2. mem'[Prefixed(g, w)] = mem[Prefixed(g, w)]
    BY <1>2, <2>1 DEF Store
  <2>3. GetCf(g, w)' = GetCf(g, w)
    BY <1>3, <2>2 DEF GetCf, Get
  <2>4. QED
    BY <1>2, <1>3, <2>1, <2>2, <2>3 DEF FamilyInv
<1>7. QED
  BY <1>4, <1>5, <1>6 DEF LayersInv

\* A flush moves the memtable's entry on top of those of level 0.
LEMMA FlushKeeps ==
  ASSUME LayersInv, Flush
  PROVE  LayersInv'
<1>1. /\ l0' = Append(l0, mem) /\ mem' = NoEntries /\ l1' = l1
      /\ families' = families /\ truth' = truth /\ past' = past
      /\ writes' = writes
  BY DEF Flush, history
<1>2. TypeInv
  BY DEF LayersInv
<1>3. NoEntries \in Table /\ \A k \in StoredKeys : NoEntries[k] = 0
  BY DEF NoEntries, Table
<1>4. TypeInv'
  BY <1>1, <1>2, <1>3, AppendProperties DEF TypeInv
<1>5. ASSUME NEW k \in StoredKeys
      PROVE  Cells(l0, k)' = Cells(l0, k) \cup ({mem[k]} \ {0})
  <2>1. Cells(Append(l0, mem), k) = Cells(l0, k) \cup ({mem[k]} \ {0})
    BY <1>2, CellsAppend DEF TypeInv
  <2>2. QED
    BY <1>1, <2>1
<1>6. ASSUME NEW k \in StoredKeys, mem[k] # 0
      PROVE  /\ Newest(Cells(l0, k)', mem[k])
             /\ NewestHit(l0, k)' = mem[k]
  <2>1. Newest(Cells(l0, k)', mem[k])
    BY <1>5, <1>6 DEF LayersInv, KeyInv, Newest
  <2>2. Cells(l0, k)' \subseteq Int
    BY <1>4, CellsType DEF TypeInv
  <2>3. Cells(l0', k) \subseteq Int /\ Newest(Cells(l0', k), mem[k])
    BY <2>1, <2>2
  <2>4. NewestHit(l0', k) = mem[k]
    BY <2>3, NewestIs
  <2>5. QED
    BY <2>1, <2>4
<1>7. ASSUME NEW k \in StoredKeys, mem[k] = 0
      PROVE  Cells(l0, k)' = Cells(l0, k) /\ NewestHit(l0, k)' = NewestHit(l0, k)
  <2>1. Cells(l0', k) = Cells(l0, k)
    BY <1>5, <1>7
  <2>2. NewestHit(l0', k) = NewestHit(l0, k)
    BY <2>1 DEF NewestHit
  <2>3. QED
    BY <2>1, <2>2
<1>8. ASSUME NEW k \in StoredKeys PROVE KeyInv(k)'
  <2>1. KeyInv(k) /\ mem'[k] = 0 /\ writes \in Nat
    BY <1>1, <1>2, <1>3 DEF LayersInv, TypeInv
  <2>2. Stamp(mem'[k]) <= writes'
    BY <1>1, <2>1 DEF Stamp
  <2>3. \A c \in Cells(l0, k)' : Stamp(c) <= writes'
    BY <1>1, <1>5, <2>1 DEF KeyInv
  <2>4. Cells(l0, k)' # {} => \E m \in Cells(l0, k)' : Newest(Cells(l0, k)', m)
    BY <1>5, <1>6, <1>7, <2>1 DEF KeyInv
  <2>5. QED
    BY <2>1, <2>2, <2>3, <2>4 DEF KeyInv
<1>9. ASSUME NEW f \in Names, NEW u \in UserKeys PROVE FamilyInv(f, u)'
  <2> DEFINE k == Prefixed(f, u)
  <2>1. k \in StoredKeys /\ FamilyInv(f, u)
    BY FamilyKeyStored DEF LayersInv
  <2>2. mem'[k] = 0
    BY <1>1, <1>3, <2>1
  <2>3. Over(mem'[k], Over(NewestHit(l0', k), l1'[k]))
          = Over(mem[k], Over(NewestHit(l0, k), l1[k]))
    BY <1>1, <1>6, <1>7, <2>1, <2>2 DEF Over
  <2>4. GetCf(f, u)' = GetCf(f, u)
    BY <2>3 DEF GetCf, Get
  <2>5. Cells(l0, k)' \subseteq past[f][u]
    BY <1>5, <2>1 DEF FamilyInv
  <2>6. QED
    BY <1>1, <2>1, <2>2, <2>4, <2>5 DEF FamilyInv
<1>10. QED
  BY <1>4, <1>8, <1>9 DEF LayersInv

\* A compaction keeps what a lookup finds below the memtable, but tombstones.
LEMMA CompactKeeps ==
  ASSUME LayersInv, Compact
  PROVE  LayersInv'
<1>1. /\ l0' = <<>> /\ mem' = mem
      /\ l1' = [k \in StoredKeys |-> Value(Over(NewestHit(l0, k), l1[k]))]
      /\ families' = families /\ truth' = truth /\ past' = past
      /\ writes' = writes
  BY DEF Compact, history
<1>2. TypeInv
  BY DEF LayersInv
<1>3. ASSUME NEW k \in StoredKeys
      PROVE  /\ NewestHit(l0, k) \in Cells(l0, k) \cup {0}
             /\ NewestHit(l0, k) \in Int /\ l1[k] \in Int
  BY <1>2, NewestIn DEF LayersInv, TypeInv, Table
<1>4. ASSUME NEW k \in StoredKeys PROVE l1'[k] \in Int
  BY <1>1, <1>3 DEF Value, Over
<1>5. TypeInv'
  <2>1. l1' \in Table
    BY <1>1, <1>4 DEF Table
  <2>2. QED
    BY <1>1, <1>2, <2>1 DEF TypeInv
<1>6. \A k : Cells(<<>>, k) = {}
  BY DEF Cells, Hits
<1>7. ASSUME NEW k \in StoredKeys PROVE KeyInv(k)'
  <2>1. KeyInv(k) /\ Cells(l0', k) = {}
    BY <1>1, <1>6 DEF LayersInv
  <2>2. QED
    BY <1>1, <2>1 DEF KeyInv
<1>8. ASSUME NEW f \in Names, NEW u \in UserKeys PROVE FamilyInv(f, u)'
  <2> DEFINE k == Prefixed(f, u)
  <2>1. k \in StoredKeys /\ FamilyInv(f, u)
    BY FamilyKeyStored DEF LayersInv
  <2>2. NewestHit(l0', k) = 0 /\ Cells(l0', k) = {}
    BY <1>1, <1>6, NoHit
  <2>3. /\ l1'[k] = Value(Over(NewestHit(l0, k), l1[k]))
        /\ NewestHit(l0, k) \in past[f][u] \cup {0} /\ l1[k] \in past[f][u] \cup {0}
        /\ mem[k] \in Int /\ NewestHit(l0, k) \in Int /\ l1[k] \in Int
    BY <1>1, <1>2, <1>3, <2>1 DEF FamilyInv, TypeInv, Table
  <2>4. l1'[k] \in past[f][u] \cup {0}
    BY <2>3 DEF Value, Over
  <2>5. Value(Over(mem[k], Over(0, l1'[k])))
          = Value(Over(mem[k], Over(NewestHit(l0, k), l1[k])))
    <3> DEFINE x == Over(NewestHit(l0, k), l1[k])
    <3>1. x \in Int
      BY <2>3 DEF Over
    <3> HIDE DEF x
    <3>2. Value(Over(mem[k], Over(0, Value(x)))) = Value(Over(mem[k], x))
      BY <2>3, <3>1 DEF Value, Over
    <3>3. QED
      BY <2>3, <3>2 DEF x
  <2>6. GetCf(f, u)' = GetCf(f, u)
    BY <1>1, <2>2, <2>5 DEF GetCf, Get
  <2>7. QED
    BY <1>1, <2>1, <2>2, <2>4, <2>6 DEF FamilyInv
<1>9. QED
  BY <1>5, <1>7, <1>8 DEF LayersInv

\* A restart reorders level 0, and a lookup does not go by that order.
LEMMA RestartKeeps ==
  ASSUME LayersInv, Restart
  PROVE  LayersInv'
<1>1. /\ families' = {Default} /\ mem' = mem /\ l1' = l1 /\ truth' = truth
      /\ past' = past /\ writes' = writes
  BY DEF Restart, history
<1>2. PICK p \in Bijection(DOMAIN l0, DOMAIN l0) :
        l0' = [i \in DOMAIN l0 |-> l0[p[i]]]
  BY DEF Restart
<1>3. TypeInv
  BY DEF LayersInv
<1>4. ASSUME NEW k \in StoredKeys
      PROVE  l0' \in Seq(Table) /\ Cells(l0', k) = Cells(l0, k)
  BY <1>2, <1>3, CellsPermuted DEF TypeInv
<1>5. ASSUME NEW k \in StoredKeys
      PROVE  Cells(l0', k) = Cells(l0, k) /\ NewestHit(l0', k) = NewestHit(l0, k)
  <2>1. Cells(l0', k) = Cells(l0, k)
    BY <1>4
  <2>2. NewestHit(l0', k) = NewestHit(l0, k)
    BY <2>1 DEF NewestHit
  <2>3. QED
    BY <2>1, <2>2
<1>6. l0' \in Seq(Table)
  <2>1. DOMAIN l0 = 1..Len(l0) /\ Len(l0) \in Nat
    BY <1>3, LenProperties DEF TypeInv
  <2>2. \A i \in 1..Len(l0) : p[i] \in 1..Len(l0)
    BY <2>1 DEF Bijection, Injection
  <2>3. \A i \in 1..Len(l0) : l0[p[i]] \in Table
    BY <1>3, <2>2, ElementOfSeq DEF TypeInv
  <2>4. l0' = [i \in 1..Len(l0) |-> l0[p[i]]]
    BY <1>2, <2>1
  <2>5. QED
    BY <2>1, <2>3, <2>4, IsASeq
<1>7. TypeInv'
  BY <1>1, <1>3, <1>6, FamilyAssumption DEF TypeInv
<1>8. ASSUME NEW k \in StoredKeys PROVE KeyInv(k)'
  <2>1. KeyInv(k)
    BY DEF LayersInv
  <2>2. QED
    BY <1>1, <1>5, <2>1 DEF KeyInv
<1>9. ASSUME NEW f \in Names, NEW u \in UserKeys PROVE FamilyInv(f, u)'
  <2>1. Prefixed(f, u) \in StoredKeys /\ FamilyInv(f, u)
    BY FamilyKeyStored DEF LayersInv
  <2>2. GetCf(f, u)' = GetCf(f, u)
    BY <1>1, <1>5, <2>1 DEF GetCf, Get
  <2>3. QED
    BY <1>1, <1>5, <2>1, <2>2 DEF FamilyInv
<1>10. QED
  BY <1>7, <1>8, <1>9 DEF LayersInv

\* A change of the map of families alone.
LEMMA FamiliesKeep ==
  ASSUME LayersInv, families' \subseteq Names, UNCHANGED <<layers, history>>
  PROVE  LayersInv'
<1>1. /\ mem' = mem /\ l0' = l0 /\ l1' = l1 /\ truth' = truth /\ past' = past
      /\ writes' = writes
  BY DEF layers, history
<1>2. TypeInv'
  BY <1>1 DEF LayersInv, TypeInv
<1>3. \A k \in StoredKeys : KeyInv(k)'
  BY <1>1 DEF LayersInv, KeyInv
<1>4. ASSUME NEW f \in Names, NEW u \in UserKeys PROVE FamilyInv(f, u)'
  <2>1. FamilyInv(f, u)
    BY DEF LayersInv
  <2>2. GetCf(f, u)' = GetCf(f, u)
    BY <1>1 DEF GetCf, Get
  <2>3. QED
    BY <1>1, <2>1, <2>2 DEF FamilyInv
<1>5. QED
  BY <1>2, <1>3, <1>4 DEF LayersInv

\* No call breaks the invariant.
LEMMA LayersStep ==
  ASSUME SeparatedUse, LayersInv, [Next]_vars
  PROVE  LayersInv'
<1>1. ASSUME NEW f \in Names, NEW S \in Batches, NEW c \in NextCells,
             WriteCf(f, S, c)
      PROVE  LayersInv'
  <2>1. S \in SUBSET UserKeys
    BY FamilyAssumption
  <2>2. QED
    BY <1>1, <2>1, WriteCfKeeps
<1>2. ASSUME NEW k \in PlainKeys, NEW c \in NextCells, WritePlain(k, c)
      PROVE  LayersInv'
  BY <1>2, WritePlainKeeps
<1>3. ASSUME NEW f \in Names, CreateFamily(f) PROVE LayersInv'
  BY <1>3, FamiliesKeep DEF CreateFamily, LayersInv, TypeInv
<1>4. ASSUME NEW f \in Names, DropFamily(f) PROVE LayersInv'
  <2>1. families' \subseteq Names /\ UNCHANGED <<layers, history>>
    BY <1>4 DEF DropFamily, SeparatedUse, history, LayersInv, TypeInv
  <2>2. QED
    BY <2>1, FamiliesKeep
<1>5. CASE Flush
  BY <1>5, FlushKeeps
<1>6. CASE Compact
  BY <1>6, CompactKeeps
<1>7. CASE Restart
  BY <1>7, RestartKeeps
<1>8. CASE UNCHANGED vars
  <2>1. families' \subseteq Names /\ UNCHANGED <<layers, history>>
    BY <1>8 DEF vars, layers, history, LayersInv, TypeInv
  <2>2. QED
    BY <2>1, FamiliesKeep
<1>9. QED
  BY <1>1, <1>2, <1>3, <1>4, <1>5, <1>6, <1>7, <1>8 DEF Next

\* The layers hold the history of every family, after any sequence of calls.
LEMMA LayersAreHistory ==
  ASSUME SeparatedUse
  PROVE  Spec => []LayersInv
<1>1. LayersInv /\ [Next]_vars => LayersInv'
  BY LayersStep
<1>2. QED
  BY LayersInit, <1>1, PTL DEF Spec

\* get_cf returns what was last put in the family, for any names without a
\* '#', any keys, and any sequence of writes, creations, drops, flushes,
\* compactions and restarts.
THEOREM FamiliesIsolated ==
  ASSUME SeparatedUse
  PROVE  Spec => []FamiliesAreIsolated
<1>1. LayersInv => FamiliesAreIsolated
  BY DEF LayersInv, TypeInv, FamilyInv, FamiliesAreIsolated
<1>2. QED
  BY <1>1, LayersAreHistory, PTL

-----------------------------------------------------------------------------
(* The scans.                                                              *)

\* What the scans see of a stored key: the entries of the files, and the last
\* entry of level 0, level 1 and the memtable in that order.
LEMMA ScanCells ==
  ASSUME TypeInv, NEW k \in StoredKeys
  PROVE  /\ Files \in Seq(Table)
         /\ FileCells(k) = Cells(l0, k) \cup ({l1[k]} \ {0})
         /\ FileCells(k) = Cells(Files, k)
         /\ mem[k] # 0 => LastHit(Append(Files, mem), k) = mem[k]
         /\ FileCells(k) \cup {mem[k]} = {0} => LastHit(Append(Files, mem), k) = 0
         /\ LastHit(Append(Files, mem), k) # 0 =>
              LastHit(Append(Files, mem), k) \in FileCells(k) \cup {mem[k]}
         /\ mem[k] = 0 /\ FileCells(k) # {} =>
              LastHit(Append(Files, mem), k) \in FileCells(k)
<1> DEFINE a == Append(Files, mem)
<1>1. Files \in Seq(Table)
  BY AppendProperties DEF TypeInv, Files
<1>2. FileCells(k) = Cells(Files, k)
  BY DEF FileCells, Cells, Hits
<1>3. Cells(Files, k) = Cells(l0, k) \cup ({l1[k]} \ {0})
  BY CellsAppend DEF TypeInv, Files
<1>4. Cells(a, k) = Cells(Files, k) \cup ({mem[k]} \ {0})
  BY <1>1, CellsAppend DEF TypeInv
<1>5. /\ Cells(a, k) # {} => LastHit(a, k) \in Cells(a, k)
      /\ mem[k] # 0 => LastHit(a, k) = mem[k]
  BY <1>1, LastIs DEF TypeInv
<1>6. Cells(a, k) = {} => LastHit(a, k) = 0
  BY NoHit
<1>7. 0 \notin FileCells(k)
  BY DEF FileCells
<1> HIDE DEF a
<1>8. /\ FileCells(k) \cup {mem[k]} = {0} => LastHit(a, k) = 0
      /\ LastHit(a, k) # 0 => LastHit(a, k) \in FileCells(k) \cup {mem[k]}
      /\ mem[k] = 0 /\ FileCells(k) # {} => LastHit(a, k) \in FileCells(k)
  BY <1>2, <1>4, <1>5, <1>6, <1>7
<1>9. QED
  BY <1>1, <1>2, <1>3, <1>5, <1>8 DEF a

\* A family's key in the layers: everything was put there, a live key has an
\* entry with a value, and a merging scan gives an entry of the family.
LEMMA FamilyCells ==
  ASSUME LayersInv, NEW f \in Names, NEW u \in UserKeys
  PROVE  LET k == Prefixed(f, u)
         IN  /\ k \in StoredKeys
             /\ mem[k] \in past[f][u] \cup {0} /\ FileCells(k) \subseteq past[f][u]
             /\ truth[f][u] # 0 => mem[k] > 0 \/ \E c \in FileCells(k) : c > 0
             /\ Merged(k) # 0 => Merged(k) \in past[f][u]
             /\ past[f][u] \subseteq Int \ {0} /\ mem[k] \in Int
<1> DEFINE k == Prefixed(f, u)
<1>1. k \in StoredKeys /\ FamilyInv(f, u) /\ TypeInv /\ KeyInv(k)
  BY FamilyKeyStored DEF LayersInv
<1>2. past[f][u] \subseteq Int \ {0} /\ mem[k] \in Int
  BY <1>1 DEF TypeInv, FamilyInv, Table
<1>3. mem[k] \in past[f][u] \cup {0} /\ FileCells(k) \subseteq past[f][u]
  BY <1>1, ScanCells DEF FamilyInv
<1>4. truth[f][u] # 0 => mem[k] > 0 \/ \E c \in FileCells(k) : c > 0
  <2>1. truth[f][u] = Value(Over(mem[k], Over(NewestHit(l0, k), l1[k])))
    BY <1>1 DEF FamilyInv, GetCf, Get
  <2>2. NewestHit(l0, k) # 0 => NewestHit(l0, k) \in Cells(l0, k)
    BY <1>1, NewestIn
  <2>3. FileCells(k) = Cells(l0, k) \cup ({l1[k]} \ {0})
    BY <1>1, ScanCells
  <2>4. l1[k] \in Int /\ NewestHit(l0, k) \in Int
    BY <1>1, NewestIn DEF TypeInv, Table
  <2>5. QED
    BY <1>2, <2>1, <2>2, <2>3, <2>4 DEF Value, Over
<1>5. Merged(k) # 0 => Merged(k) \in past[f][u]
  <2>1. LastHit(Append(Files, mem), k) # 0 =>
          LastHit(Append(Files, mem), k) \in FileCells(k) \cup {mem[k]}
    BY <1>1, ScanCells
  <2>2. QED
    BY <1>3, <2>1 DEF Merged, Value
<1>6. QED
  BY <1>1, <1>2, <1>3, <1>4, <1>5

\* With versions of the key in one file at most, a merging scan gives what a
\* lookup gives.
LEMMA MergedIsGet ==
  ASSUME LayersInv, NEW f \in Names, NEW u \in UserKeys,
         OneVersion(Prefixed(f, u))
  PROVE  Merged(Prefixed(f, u)) = truth[f][u]
<1> DEFINE k == Prefixed(f, u)
           hit == LastHit(Append(Files, mem), k)
<1>1. k \in StoredKeys /\ FamilyInv(f, u) /\ TypeInv /\ KeyInv(k)
  BY FamilyKeyStored DEF LayersInv
<1>2. truth[f][u] = Value(Over(mem[k], Over(NewestHit(l0, k), l1[k])))
  BY <1>1 DEF FamilyInv, GetCf, Get
<1>3. FileCells(k) = Cells(l0, k) \cup ({l1[k]} \ {0})
  BY <1>1, ScanCells
<1>4. \A c, d \in FileCells(k) : c = d
  BY DEF OneVersion, FileCells
<1>5. CASE mem[k] # 0
  BY <1>1, <1>2, <1>5, ScanCells DEF Merged, Over
<1>6. CASE mem[k] = 0
  <2>1. Over(NewestHit(l0, k), l1[k]) # 0 => Over(NewestHit(l0, k), l1[k]) \in FileCells(k)
    BY <1>1, <1>3, NewestIn DEF Over
  <2>2. FileCells(k) # {} => Over(NewestHit(l0, k), l1[k]) # 0
    BY <1>1, <1>3, NewestIn DEF Over
  <2>3. FileCells(k) = {} => hit = 0
    <3>1. FileCells(k) = {} => FileCells(k) \cup {mem[k]} = {0}
      BY <1>6
    <3>2. FileCells(k) \cup {mem[k]} = {0} => hit = 0
      BY <1>1, ScanCells
    <3>3. QED
      BY <3>1, <3>2
  <2>4. FileCells(k) # {} => hit \in FileCells(k)
    BY <1>1, <1>6, ScanCells
  <2> HIDE DEF hit, k
  <2>5. hit = Over(NewestHit(l0, k), l1[k])
    BY <1>4, <2>1, <2>2, <2>3, <2>4
  <2>6. QED
    BY <1>2, <1>6, <2>5 DEF Merged, Over, hit, k
<1>7. QED
  BY <1>5, <1>6

\* The stored keys under "f#" are the family's keys, without the prefix.
LEMMA OwnKeys ==
  ASSUME SeparatedUse, NEW f \in Names
  PROVE  /\ \A u \in UserKeys : /\ IsPrefix(Prefixed(f, <<>>), Prefixed(f, u))
                                /\ Drop(Prefixed(f, u), Len(Prefixed(f, <<>>))) = u
         /\ \A k \in StoredKeys : IsPrefix(Prefixed(f, <<>>), k) =>
              \E u \in UserKeys : k = Prefixed(f, u)
<1>1. f \in Seq(Nat) /\ NoHash(f) /\ <<>> \in Seq(Nat) /\ Len(<<>>) = 0
  BY Strings DEF SeparatedUse
<1>2. ASSUME NEW u \in UserKeys
      PROVE  /\ IsPrefix(Prefixed(f, <<>>), Prefixed(f, u))
             /\ Drop(Prefixed(f, u), Len(Prefixed(f, <<>>))) = u
  <2>1. u \in Seq(Nat) /\ IsPrefix(<<>>, u)
    BY Strings, EmptyIsPrefix
  <2>2. IsPrefix(Prefixed(f, <<>>), Prefixed(f, u))
    BY <1>1, <2>1, PrefixSplits
  <2>3. Drop(Prefixed(f, u), Len(Prefixed(f, <<>>))) = Drop(u, Len(<<>>))
    BY <1>1, <2>1, Unprefix
  <2>4. Drop(u, Len(<<>>)) = u
    BY <1>1, <2>1, SubSeqFull DEF Drop
  <2>5. QED
    BY <2>2, <2>3, <2>4
<1>3. ASSUME NEW k \in StoredKeys, IsPrefix(Prefixed(f, <<>>), k)
      PROVE  \E u \in UserKeys : k = Prefixed(f, u)
  <2>1. IsPrefix(Prefixed(f, <<>>), k) <=>
          \E u \in UserKeys : k = Prefixed(f, u) /\ IsPrefix(<<>>, u)
    BY <1>1, StoredUnder
  <2>2. QED
    BY <1>3, <2>1
<1>4. QED
  BY <1>2, <1>3

\* The pairs of a merging scan over some stored keys of the family: each with
\* the entry that the scan finds.
LEMMA PairsOfFamily ==
  ASSUME SeparatedUse, LayersInv, NEW f \in Names, NEW K \in SUBSET StoredKeys
  PROVE  WithValues(K, Prefixed(f, <<>>)) =
           {<<u, Merged(Prefixed(f, u))>> : u \in
              {w \in UserKeys : Prefixed(f, w) \in K /\ Merged(Prefixed(f, w)) # 0}}
<1> DEFINE h == Prefixed(f, <<>>)
           P == {<<u, Merged(Prefixed(f, u))>> : u \in
                   {w \in UserKeys : Prefixed(f, w) \in K /\ Merged(Prefixed(f, w)) # 0}}
<1>1. /\ \A u \in UserKeys : IsPrefix(h, Prefixed(f, u)) /\ Drop(Prefixed(f, u), Len(h)) = u
      /\ \A k \in StoredKeys : IsPrefix(h, k) => \E u \in UserKeys : k = Prefixed(f, u)
  BY OwnKeys
<1> HIDE DEF h
<1>2. ASSUME NEW e \in WithValues(K, h) PROVE e \in P
  <2>1. PICK k \in K : IsPrefix(h, k) /\ Merged(k) # 0 /\ e = <<Drop(k, Len(h)), Merged(k)>>
    BY <1>2 DEF WithValues
  <2>2. PICK u \in UserKeys : k = Prefixed(f, u)
    BY <1>1, <2>1
  <2>3. QED
    BY <1>1, <2>1, <2>2
<1>3. ASSUME NEW e \in P PROVE e \in WithValues(K, h)
  <2>1. PICK u \in UserKeys : /\ Prefixed(f, u) \in K /\ Merged(Prefixed(f, u)) # 0
                              /\ e = <<u, Merged(Prefixed(f, u))>>
    BY <1>3
  <2>2. IsPrefix(h, Prefixed(f, u)) /\ Drop(Prefixed(f, u), Len(h)) = u
    BY <1>1
  <2>3. QED
    BY <2>1, <2>2 DEF WithValues
<1>4. QED
  BY <1>2, <1>3 DEF h

\* Such pairs are what GivesPairsOf asks for, when the scan looks at the keys
\* in S and at no other of the family.
LEMMA PairsAreGiven ==
  ASSUME LayersInv, NEW f \in Names, NEW S \in SUBSET UserKeys, NEW pairs,
         pairs = {<<u, Merged(Prefixed(f, u))>> :
                    u \in {w \in S : Merged(Prefixed(f, w)) # 0}}
  PROVE  GivesPairsOf(pairs, f, S)
<1>1. ASSUME NEW e \in pairs PROVE e[1] \in S /\ e[2] \in past[f][e[1]]
  BY FamilyCells
<1>2. ASSUME NEW u \in S, OneVersion(Prefixed(f, u)), NEW v \in past[f][u]
      PROVE  <<u, v>> \in pairs <=> v = truth[f][u]
  <2>1. Merged(Prefixed(f, u)) = truth[f][u]
    BY <1>2, MergedIsGet
  <2>2. v # 0
    BY FamilyCells
  <2>3. <<u, v>> \in pairs <=> v = Merged(Prefixed(f, u)) /\ Merged(Prefixed(f, u)) # 0
    OBVIOUS
  <2>4. QED
    BY <2>1, <2>2, <2>3
<1>3. QED
  BY <1>1, <1>2 DEF GivesPairsOf

\* scan_prefix_cf lists every live key of its family with the prefix, and
\* scan_all_cf gives what get_cf returns as PrefixScansStayInFamily says; both
\* answer with what was written in the family only, for any names without a
\* '#', any keys and any prefix, although they list deleted keys and older
\* versions, and whatever the order of level 0 after a restart.
THEOREM PrefixScansInFamily ==
  ASSUME SeparatedUse
  PROVE  Spec => []PrefixScansStayInFamily
<1>1. ASSUME LayersInv, NEW f \in families, NEW p \in Bounds
      PROVE  LET found == {p \o r : r \in ScanPrefixCf(f, p)}
                 under(S) == {u \in S : IsPrefix(p, u)}
             IN  /\ under(LiveIn(f)) \subseteq found
                 /\ found \subseteq under(WrittenIn(f))
  <2> DEFINE q == Prefixed(f, p)
  <2>1. f \in Names /\ f \in Seq(Nat) /\ p \in Seq(Nat)
    BY <1>1, Strings DEF LayersInv, TypeInv
  <2>2. ASSUME NEW k \in StoredKeys
        PROVE  IsPrefix(q, k) <=> \E u \in UserKeys : k = Prefixed(f, u) /\ IsPrefix(p, u)
    BY <2>1, StoredUnder
  <2>3. ASSUME NEW u \in UserKeys, IsPrefix(p, u)
        PROVE  /\ Drop(Prefixed(f, u), Len(q)) = Drop(u, Len(p))
               /\ p \o Drop(u, Len(p)) = u
    <3>1. u \in Seq(Nat)
      BY Strings
    <3>2. QED
      BY <2>1, <2>3, <3>1, Unprefix
  <2> HIDE DEF q
  <2>4. ScanPrefixCf(f, p) = Unprefixed(ScanPrefix(q), q)
    BY DEF ScanPrefixCf, q
  <2>5. ASSUME NEW u \in LiveIn(f), IsPrefix(p, u)
        PROVE  \E r \in ScanPrefixCf(f, p) : p \o r = u
    <3>1. u \in UserKeys /\ truth[f][u] # 0
      BY DEF LiveIn
    <3>2. Prefixed(f, u) \in StoredKeys /\ IsPrefix(q, Prefixed(f, u))
      BY <2>1, <2>2, <2>5, <3>1, FamilyKeyStored
    <3>3. Prefixed(f, u) \in ScanPrefix(q)
      BY <1>1, <2>1, <3>1, <3>2, FamilyCells DEF ScanPrefix
    <3>4. Drop(Prefixed(f, u), Len(q)) \in ScanPrefixCf(f, p)
      BY <2>4, <3>2, <3>3 DEF Unprefixed
    <3>5. QED
      BY <2>3, <2>5, <3>1, <3>4
  <2>6. ASSUME NEW r \in ScanPrefixCf(f, p)
        PROVE  p \o r \in WrittenIn(f) /\ IsPrefix(p, p \o r)
    <3>1. PICK k \in StoredKeys : /\ mem[k] > 0 \/ FileCells(k) # {}
                                  /\ r = Drop(k, Len(q)) /\ IsPrefix(q, k)
      BY <2>4, <2>6 DEF Unprefixed, ScanPrefix
    <3>2. PICK u \in UserKeys : k = Prefixed(f, u) /\ IsPrefix(p, u)
      BY <2>2, <3>1
    <3>3. p \o r = u
      BY <2>3, <3>1, <3>2
    <3>4. past[f][u] # {}
      <4>1. mem[k] \in past[f][u] \cup {0} /\ FileCells(k) \subseteq past[f][u]
        BY <1>1, <2>1, <3>2, FamilyCells
      <4>2. QED
        BY <3>1, <4>1
    <3>5. QED
      BY <3>2, <3>3, <3>4 DEF WrittenIn
  <2>7. QED
    BY <2>5, <2>6
<1>2. ASSUME LayersInv, NEW f \in families
      PROVE  GivesPairsOf(ScanAllCf(f), f, UserKeys)
  <2>1. f \in Names
    BY <1>2 DEF LayersInv, TypeInv
  <2>2. ScanAllCf(f) = {<<u, Merged(Prefixed(f, u))>> : u \in
          {w \in UserKeys : /\ Prefixed(f, w) \in StoredKeys
                            /\ Merged(Prefixed(f, w)) # 0}}
    BY <1>2, <2>1, PairsOfFamily DEF ScanAllCf
  <2>3. {w \in UserKeys : Prefixed(f, w) \in StoredKeys /\ Merged(Prefixed(f, w)) # 0}
          = {w \in UserKeys : Merged(Prefixed(f, w)) # 0}
    BY <2>1, FamilyKeyStored
  <2>4. ScanAllCf(f) = {<<u, Merged(Prefixed(f, u))>> :
                          u \in {w \in UserKeys : Merged(Prefixed(f, w)) # 0}}
    BY <2>2, <2>3
  <2>5. QED
    BY <1>2, <2>1, <2>4, PairsAreGiven
<1>3. LayersInv => PrefixScansStayInFamily
  BY <1>1, <1>2 DEF PrefixScansStayInFamily
<1>4. QED
  BY <1>3, LayersAreHistory, PTL

\* The bounds of a range within a family are bounds of the family's keys.
LEMMA RangeOfFamily ==
  ASSUME SeparatedUse, NEW f \in Names, NEW a \in Seq(Nat), NEW b \in Seq(Nat),
         NEW u \in UserKeys
  PROVE  LET in == InRange(Prefixed(f, u), Prefixed(f, a), RangeEnd(f, b))
         IN  /\ AtMost(a, u) /\ (b = <<>> \/ AtMost(u, b)) => in
             /\ in => AtMost(a, u) /\ (AtMost(u, b) \/ IsPrefix(b, u))
<1> DEFINE e == Prefixed(f, b)
           x == ExclusiveRangeEnd(e)
           k == Prefixed(f, u)
<1>1. /\ f \in Seq(Nat) /\ NoHash(f) /\ u \in Seq(Nat) /\ <<>> \in Seq(Nat)
      /\ k \in Seq(Nat) /\ e \in Seq(Nat)
  BY Strings, PrefixedFacts DEF SeparatedUse
<1>2. Len(e) = Len(f) + 1 + Len(b) /\ e[Len(f) + 1] = Hash
  BY <1>1, PrefixedFacts
<1>3. e # <<>>
  BY <1>1, <1>2
<1>4. ASSUME NEW c \in Seq(Nat), NEW d \in Seq(Nat)
      PROVE  AtMost(Prefixed(f, c), Prefixed(f, d)) <=> AtMost(c, d)
  <2>1. Prefixed(f, c) = Prefixed(f, d) => c = d
    BY <1>1, PrefixedInjective
  <2>2. Less(Prefixed(f, c), Prefixed(f, d)) <=> Less(c, d)
    BY <1>1, LessPrefixed
  <2>3. QED
    BY <2>1, <2>2 DEF AtMost
<1>5. AtMost(k, e) <=> AtMost(u, b)
  BY <1>1, <1>4
<1>6. IsPrefix(e, k) <=> IsPrefix(b, u)
  BY <1>1, PrefixSplits
<1>7. InRange(k, Prefixed(f, a), RangeEnd(f, b)) <=> AtMost(a, u) /\ Less(k, x)
  BY <1>1, <1>3, <1>4 DEF InRange, RangeEnd
<1>8. b = <<>> => IsPrefix(e, k) /\ Last(e) # Top
  <2>1. ASSUME b = <<>> PROVE IsPrefix(b, u) /\ Last(e) # Top
    <3>1. Len(e) = Len(f) + 1
      BY <1>1, <1>2, <2>1
    <3>2. Last(e) = Hash
      BY <1>2, <3>1 DEF Last
    <3>3. IsPrefix(b, u)
      BY <1>1, <2>1, EmptyIsPrefix
    <3>4. QED
      BY <3>2, <3>3, FamilyAssumption
  <2>2. QED
    BY <1>6, <2>1
<1> HIDE DEF e, k
<1>9. /\ AtMost(k, e) => Less(k, x)
      /\ Less(k, x) => AtMost(k, e) \/ IsPrefix(e, k)
      /\ IsPrefix(e, k) /\ Last(e) # Top => Less(k, x)
  BY <1>1, <1>3, EndBounds
<1>10. QED
  BY <1>5, <1>6, <1>7, <1>8, <1>9 DEF k

\* scan_range_cf and iter_range_cf keep to the bounds as
\* RangeScansKeepTheirBounds says, for any names without a '#', any keys and
\* any bounds: no live key between them is missed, and what is listed besides,
\* deleted keys of older files included, was put in this family.
THEOREM RangeScansBounded ==
  ASSUME SeparatedUse
  PROVE  Spec => []RangeScansKeepTheirBounds
<1>1. ASSUME LayersInv, NEW f \in families, NEW a \in Bounds, NEW b \in Bounds
      PROVE  LET within(S) == {u \in S : AtMost(a, u) /\ (b = <<>> \/ AtMost(u, b))}
                 beyond == {u \in PutIn(f) : AtMost(a, u) /\ IsPrefix(b, u)}
                 range  == ScanRangeCf(f, a, b)
             IN  /\ within(LiveIn(f)) \subseteq range
                 /\ range \subseteq within(PutIn(f)) \cup beyond
                 /\ GivesPairsOf(IterRangeCf(f, a, b), f, within(UserKeys))
  <2> DEFINE h == Prefixed(f, <<>>)
             In(u) == InRange(Prefixed(f, u), Prefixed(f, a), RangeEnd(f, b))
             W(u) == AtMost(a, u) /\ (b = <<>> \/ AtMost(u, b))
  <2>1. f \in Names /\ a \in Seq(Nat) /\ b \in Seq(Nat)
    BY <1>1, Strings DEF LayersInv, TypeInv
  <2>2. ASSUME NEW u \in UserKeys
        PROVE  /\ W(u) => In(u)
               /\ In(u) => AtMost(a, u) /\ (AtMost(u, b) \/ IsPrefix(b, u))
    BY <2>1, RangeOfFamily
  <2>3. /\ \A u \in UserKeys : IsPrefix(h, Prefixed(f, u)) /\ Drop(Prefixed(f, u), Len(h)) = u
        /\ \A k \in StoredKeys : IsPrefix(h, k) => \E u \in UserKeys : k = Prefixed(f, u)
    BY <2>1, OwnKeys
  <2>4. ASSUME NEW u \in UserKeys
        PROVE  /\ Prefixed(f, u) \in StoredKeys
               /\ truth[f][u] # 0 => \/ mem[Prefixed(f, u)] > 0
                                     \/ \E c \in FileCells(Prefixed(f, u)) : c > 0
               /\ mem[Prefixed(f, u)] > 0 => mem[Prefixed(f, u)] \in past[f][u]
               /\ FileCells(Prefixed(f, u)) \subseteq past[f][u]
    BY <1>1, <2>1, FamilyCells
  <2> HIDE DEF h, In, W
  <2>5. ScanRangeCf(f, a, b) =
          Unprefixed({k \in StoredKeys :
                        /\ InRange(k, Prefixed(f, a), RangeEnd(f, b))
                        /\ mem[k] > 0 \/ \E c \in FileCells(k) : c > 0}, h)
    BY DEF ScanRangeCf, ScanRange, h
  <2>6. ASSUME NEW u \in LiveIn(f), W(u) PROVE u \in ScanRangeCf(f, a, b)
    <3>1. u \in UserKeys /\ truth[f][u] # 0
      BY DEF LiveIn
    <3>2. InRange(Prefixed(f, u), Prefixed(f, a), RangeEnd(f, b))
      BY <2>2, <2>6, <3>1 DEF In
    <3>3. QED
      BY <2>3, <2>4, <2>5, <3>1, <3>2 DEF Unprefixed
  <2>7. ASSUME NEW v \in ScanRangeCf(f, a, b)
        PROVE  v \in PutIn(f) /\ AtMost(a, v) /\ (AtMost(v, b) \/ IsPrefix(b, v))
    <3>1. PICK k \in StoredKeys : /\ InRange(k, Prefixed(f, a), RangeEnd(f, b))
                                  /\ mem[k] > 0 \/ \E c \in FileCells(k) : c > 0
                                  /\ IsPrefix(h, k) /\ v = Drop(k, Len(h))
      BY <2>5, <2>7 DEF Unprefixed
    <3>2. PICK u \in UserKeys : k = Prefixed(f, u)
      BY <2>3, <3>1
    <3>3. v = u
      BY <2>3, <3>1, <3>2
    <3>4. \E c \in past[f][u] : c > 0
      BY <2>4, <3>1, <3>2
    <3>5. AtMost(a, u) /\ (AtMost(u, b) \/ IsPrefix(b, u))
      BY <2>2, <3>1, <3>2 DEF In
    <3>6. QED
      BY <3>3, <3>4, <3>5 DEF PutIn
  <2>8. GivesPairsOf(IterRangeCf(f, a, b), f, {u \in UserKeys : W(u)})
    <3> DEFINE K == {k \in StoredKeys : InRange(k, Prefixed(f, a), RangeEnd(f, b))}
               S == {u \in UserKeys : W(u)}
               M(u) == Merged(Prefixed(f, u))
    <3>1. ScanRangeWithValuesCf(f, a, b) =
            {<<u, M(u)>> : u \in {w \in UserKeys : Prefixed(f, w) \in K /\ M(w) # 0}}
      BY <1>1, <2>1, PairsOfFamily DEF ScanRangeWithValuesCf
    <3>2. \A u \in UserKeys : Prefixed(f, u) \in K <=> In(u)
      BY <2>4 DEF In
    <3> HIDE DEF K, M
    <3>3. ASSUME NEW u \in UserKeys, In(u)
          PROVE  (a # <<>> => AtMost(a, u)) /\ (b # <<>> => AtMost(u, b)) <=> W(u)
      BY <2>2, <3>3 DEF W
    <3>4. IterRangeCf(f, a, b) = {<<u, M(u)>> : u \in {w \in S : M(w) # 0}}
      <4>1. ASSUME NEW e \in IterRangeCf(f, a, b)
            PROVE  e \in {<<u, M(u)>> : u \in {w \in S : M(w) # 0}}
        <5>1. /\ e \in ScanRangeWithValuesCf(f, a, b)
              /\ a # <<>> => AtMost(a, e[1])
              /\ b # <<>> => AtMost(e[1], b)
          BY <4>1 DEF IterRangeCf
        <5>2. PICK u \in UserKeys : Prefixed(f, u) \in K /\ M(u) # 0 /\ e = <<u, M(u)>>
          BY <3>1, <5>1
        <5>3. QED
          BY <3>2, <3>3, <5>1, <5>2
      <4>2. ASSUME NEW u \in S, M(u) # 0 PROVE <<u, M(u)>> \in IterRangeCf(f, a, b)
        <5>1. u \in UserKeys /\ W(u) /\ In(u)
          BY <2>2
        <5>2. <<u, M(u)>> \in ScanRangeWithValuesCf(f, a, b)
          BY <3>1, <3>2, <4>2, <5>1
        <5>3. QED
          BY <3>3, <5>1, <5>2 DEF IterRangeCf
      <4>3. QED
        BY <4>1, <4>2
    <3>5. QED
      BY <1>1, <2>1, <3>4, PairsAreGiven DEF M
  <2>9. QED
    BY <2>6, <2>7, <2>8 DEF W
<1>2. LayersInv => RangeScansKeepTheirBounds
  BY <1>1 DEF RangeScansKeepTheirBounds
<1>3. QED
  BY <1>2, LayersAreHistory, PTL

=============================================================================
