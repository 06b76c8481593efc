--------------------------- MODULE ColumnFamilies ----------------------------
(***************************************************************************)
(* Column families of LsmTreeEngine (core/engine.rs).  A family is a name  *)
(* in the map column_families, and a key of it is stored by the engine as  *)
(* the name, a '#' and the key.  The property is about that encoding, so   *)
(* strings are sequences of characters here, and a character is a number.  *)
(*                                                                         *)
(* The engine below is a memtable, the files of level 0 and a level 1,     *)
(* since the scans answer from each layer by itself: they may list a       *)
(* deleted key or an older version.  create_column_family and              *)
(* drop_column_family borrow the engine mutably, so that no call is        *)
(* between its check of the name and its use of the key: a call is one     *)
(* step, and so are a flush and a compaction here, which EngineApi and     *)
(* WritePath take apart.  A call on a name that is not in the map changes  *)
(* nothing.                                                                *)
(***************************************************************************)
EXTENDS Layers, Functions

CONSTANTS
  Hash,       \* the character '#'
  Top,        \* a character without a successor (before the surrogates, last)
  Names,      \* the family names in use
  Default,    \* config.column_families.default_name
  UserKeys,   \* the keys used within families
  PlainKeys,  \* the keys used without a family
  Batches,    \* the key sets written by one call
  Bounds,     \* the strings given to scans as prefix, start and end
  Limit,      \* the limit given to scan_range_limit_cf
  MaxWrites,  \* bound on the number of writes
  DropIsFinal \* whether the history forgets what a dropped family held

ASSUME FamilyAssumption ==
  /\ Names \cup UserKeys \cup PlainKeys \cup Bounds \subseteq Seq(Nat)
  /\ Batches \subseteq SUBSET UserKeys
  /\ Default \in Names /\ Hash \in Nat \ {0} /\ Top \in Nat /\ Top > Hash
  /\ Limit \in Nat /\ MaxWrites \in Nat /\ DropIsFinal \in BOOLEAN

VARIABLES
  families,  \* the keys of the map column_families
  mem,       \* active_memtable: a cell for each stored key
  l0, l1,    \* the files of level 0, in the order of the list; level 1
  truth,     \* history: what was last put in each family under each key
  past,      \* history: every cell written in each family under each key
  writes

layers == <<mem, l0, l1>>
history == <<truth, past, writes>>
vars == <<families, mem, l0, l1, truth, past, writes>>

-----------------------------------------------------------------------------
(* Strings.                                                                *)

\* The order of keys: by the first character that differs, a prefix first.
Less(s, t) ==
  \/ IsStrictPrefix(s, t)
  \/ \E i \in DOMAIN s \cap DOMAIN t :
       /\ s[i] < t[i]
       /\ \A j \in 1..(i - 1) : s[j] = t[j]
AtMost(s, t) == s = t \/ Less(s, t)
Drop(s, n) == SubSeq(s, n + 1, Len(s))

\* exclusive_range_end: the last character is replaced by its successor, or
\* the least character follows it; an empty end is no bound.
\* Mutant: the end itself is the bound.
PlainEnd(end) == end
ExclusiveRangeEnd(end) ==
  IF Last(end) = Top THEN Append(end, 1)
  ELSE Append(Front(end), Last(end) + 1)

\* format!("{}#{}", column_family, key).
\* Mutant: the separator is forgotten.
Concatenated(f, k) == f \o k
Prefixed(f, k) == f \o <<Hash>> \o k

StoredKeys == {Prefixed(f, u) : f \in Names, u \in UserKeys} \cup PlainKeys

-----------------------------------------------------------------------------
(* The calls that change something.                                        *)

NoEntries == [k \in StoredKeys |-> 0]

Init ==
  /\ families = {Default}
  /\ mem = NoEntries /\ l0 = <<>> /\ l1 = NoEntries
  /\ truth = [f \in Names |-> [u \in UserKeys |-> 0]]
  /\ past = [f \in Names |-> [u \in UserKeys |-> {}]]
  /\ writes = 0

\* The cells that the next write may store: its value or its tombstone.
NextCells == {writes + 1, -(writes + 1)}
Store(keys, c) ==
  /\ writes < MaxWrites
  /\ writes' = writes + 1
  /\ mem' = [k \in StoredKeys |-> IF k \in keys THEN c ELSE mem[k]]
  /\ UNCHANGED <<families, l0, l1>>

\* put_cf, batch_put_cf and put_cf_with_ttl, delete_cf and batch_delete_cf.
WriteCf(f, keys, c) ==
  /\ f \in families
  /\ Store({Prefixed(f, u) : u \in keys}, c)
  /\ truth' = [truth EXCEPT ![f] =
                 [u \in UserKeys |-> IF u \in keys THEN Value(c) ELSE @[u]]]
  /\ past' = [past EXCEPT ![f] =
                [u \in UserKeys |-> IF u \in keys THEN @[u] \cup {c} ELSE @[u]]]

\* put and delete without a family.
WritePlain(k, c) ==
  /\ Store({k}, c)
  /\ UNCHANGED <<truth, past>>

CreateFamily(f) ==
  /\ families' = families \cup {f}
  /\ UNCHANGED <<layers, history>>

\* drop_column_family takes the name out of the map, and nothing else.
DropFamily(f) ==
  /\ f \in families
  /\ families' = families \ {f}
  /\ truth' = IF DropIsFinal THEN [truth EXCEPT ![f] = [u \in UserKeys |-> 0]]
              ELSE truth
  /\ UNCHANGED <<layers, past, writes>>

\* A flush makes a file of the memtable.
Flush ==
  /\ mem # NoEntries
  /\ l0' = Append(l0, mem)
  /\ mem' = NoEntries
  /\ UNCHANGED <<families, l1, history>>

\* compact_all: levels 0 and 1 become level 1 and tombstones go.
Compact ==
  /\ l0 # <<>>
  /\ l0' = <<>>
  /\ l1' = [k \in StoredKeys |-> Value(Over(NewestHit(l0, k), l1[k]))]
  /\ UNCHANGED <<families, mem, history>>

\* The log gives back the memtable, and level 0 is listed in the order of
\* read_dir.  The map of families is not persisted: a restart knows the
\* default one only.
Restart ==
  /\ families' = {Default}
  /\ \E p \in Bijection(DOMAIN l0, DOMAIN l0) :
       l0' = [i \in DOMAIN l0 |-> l0[p[i]]]
  /\ UNCHANGED <<mem, l1, history>>

Next ==
  \/ \E f \in Names, S \in Batches, c \in NextCells : WriteCf(f, S, c)
  \/ \E k \in PlainKeys, c \in NextCells : WritePlain(k, c)
  \/ \E f \in Names : CreateFamily(f) \/ DropFamily(f)
  \/ Flush \/ Compact \/ Restart

Spec == Init /\ [][Next]_vars

-----------------------------------------------------------------------------
(* The calls that read.                                                    *)

\* get_cf, exists_cf, batch_get_cf.
Get(k) == Value(Over(mem[k], Over(NewestHit(l0, k), l1[k])))
GetCf(f, u) == Get(Prefixed(f, u))

Files == Append(l0, l1)
FileCells(k) == {Files[i][k] : i \in DOMAIN Files} \ {0}

\* scan_prefix: the live keys of the memtable, and every key in the index of
\* a file, tombstones included.
ScanPrefix(p) ==
  {k \in StoredKeys : IsPrefix(p, k) /\ (mem[k] > 0 \/ FileCells(k) # {})}

\* scan_range: the keys that are live in any of the layers.
InRange(k, start, end) ==
  AtMost(start, k) /\ (end # <<>> => Less(k, ExclusiveRangeEnd(end)))
ScanRange(start, end) ==
  {k \in StoredKeys : /\ InRange(k, start, end)
                      /\ mem[k] > 0 \/ \E c \in FileCells(k) : c > 0}

\* scan_range_limit: the lists of the layers one after the other, in key order
\* within each, cut off at the limit.
ScanRangeLimit(start, end) ==
  LET live(t) == SetToSortSeq({k \in StoredKeys :
                                 t[k] > 0 /\ InRange(k, start, end)}, Less)
      all == live(mem) \o FlattenSeq([i \in DOMAIN Files |-> live(Files[i])])
  IN  SubSeq(all, 1, Min({Limit, Len(all)}))

\* The merging scans: level 0 in the order of the list, level 1 over it, and
\* the memtable last.
Merged(k) == Value(LastHit(Append(Files, mem), k))

\* The keys of the family among those found, without its prefix.
Unprefixed(keys, p) == {Drop(k, Len(p)) : k \in {j \in keys : IsPrefix(p, j)}}
WithValues(keys, p) ==
  {<<Drop(k, Len(p)), Merged(k)>> :
     k \in {j \in keys : IsPrefix(p, j) /\ Merged(j) # 0}}

\* scan_prefix_cf cuts off the prefix it was given as well as the family's.
ScanPrefixCf(f, p) == Unprefixed(ScanPrefix(Prefixed(f, p)), Prefixed(f, p))

\* scan_all_cf, and scan_prefix_with_values_cf of the empty prefix.
\* Mutant: the name alone is the prefix.
ScanAllByName(f) ==
  {<<Drop(e[1], 1), e[2]>> : e \in WithValues(StoredKeys, f)}
ScanAllCf(f) == WithValues(StoredKeys, Prefixed(f, <<>>))

\* The end of a range within the family: an empty end is the end of the
\* family, since the bound is then the successor of its separator.
\* Mutant: an empty end is no bound at all.
OpenEnd(f, end) == IF end = <<>> THEN <<>> ELSE Prefixed(f, end)
RangeEnd(f, end) == Prefixed(f, end)

\* scan_range_cf.
ScanRangeCf(f, start, end) ==
  Unprefixed(ScanRange(Prefixed(f, start), RangeEnd(f, end)), Prefixed(f, <<>>))

\* scan_range_limit_cf: the limit is the engine's, the filter comes after it.
ScanRangeLimitCf(f, start, end) ==
  LET p == Prefixed(f, <<>>)
      own == SelectSeq(ScanRangeLimit(Prefixed(f, start), RangeEnd(f, end)),
                       LAMBDA k : IsPrefix(p, k))
  IN  [i \in DOMAIN own |-> Drop(own[i], Len(p))]

\* scan_range_with_values_cf; iter_range_cf filters once more, and includes
\* the end but nothing after.
ScanRangeWithValuesCf(f, start, end) ==
  WithValues({k \in StoredKeys :
                InRange(k, Prefixed(f, start), RangeEnd(f, end))},
             Prefixed(f, <<>>))
IterRangeCf(f, start, end) ==
  {e \in ScanRangeWithValuesCf(f, start, end) :
     (start # <<>> => AtMost(start, e[1])) /\ (end # <<>> => AtMost(e[1], end))}

-----------------------------------------------------------------------------
(* Properties.                                                             *)

LiveIn(f) == {u \in UserKeys : truth[f][u] # 0}
PutIn(f) == {u \in UserKeys : \E c \in past[f][u] : c > 0}
WrittenIn(f) == {u \in UserKeys : past[f][u] # {}}

\* No two files hold versions of k.
OneVersion(k) ==
  \A i, j \in DOMAIN Files : Files[i][k] # 0 /\ Files[j][k] # 0 => i = j

\* What a merging scan gives for the keys in S: pairs of the family only, and
\* exactly what get_cf returns for each key that is in one file at most.
GivesPairsOf(pairs, f, S) ==
  /\ \A e \in pairs : e[1] \in S /\ e[2] \in past[f][e[1]]
  /\ \A u \in S : OneVersion(Prefixed(f, u)) =>
       \A v \in past[f][u] : <<u, v>> \in pairs <=> v = truth[f][u]

\* get_cf of every family returns what was last put in it: no write to
\* another family, whose name may begin with this one's, no key with a '#' in
\* it and no plain key shows through the "name#key" encoding, after any
\* sequence of creations, drops, flushes, compactions and restarts.
FamiliesAreIsolated ==
  \A f \in families, u \in UserKeys : GetCf(f, u) = truth[f][u]

\* scan_range_cf lists every live key of its family between the bounds, both
\* included; what it lists beside them (deleted keys, whose older version is
\* in a file) was put in this family and within the bounds, or is a key that
\* the end is a prefix of.  An empty end means the end of the family.
\* iter_range_cf stays within the bounds, and gives what get_cf returns unless
\* versions of the key are in several files.
RangeScansKeepTheirBounds ==
  \A f \in families, a \in Bounds, b \in Bounds : b = <<>> \/ AtMost(a, b) =>
    LET within(S) == {u \in S : AtMost(a, u) /\ (b = <<>> \/ AtMost(u, b))}
        beyond == {u \in PutIn(f) : AtMost(a, u) /\ IsPrefix(b, u)}
        range  == ScanRangeCf(f, a, b)
    IN  /\ within(LiveIn(f)) \subseteq range
        /\ range \subseteq within(PutIn(f)) \cup beyond
        /\ GivesPairsOf(IterRangeCf(f, a, b), f, within(UserKeys))

\* scan_range_limit_cf, whose limit counts what the engine finds and whose
\* filter comes after: its keys are in the range, and it comes short of the
\* limit only when it gives every key of the range.
LimitCutsOwnKeysOnly ==
  \A f \in families, a \in Bounds, b \in Bounds : b = <<>> \/ AtMost(a, b) =>
    LET first == ScanRangeLimitCf(f, a, b)
    IN  /\ ToSet(first) \subseteq ScanRangeCf(f, a, b)
        /\ Len(first) < Limit => ScanRangeCf(f, a, b) \subseteq ToSet(first)

\* scan_prefix_cf lists every live key of its family with the prefix, and no
\* key that was never written in this family; scan_all_cf gives pairs of its
\* family, and what get_cf returns unless versions are in several files.
PrefixScansStayInFamily ==
  \A f \in families :
    /\ \A p \in Bounds :
         LET found == {p \o r : r \in ScanPrefixCf(f, p)}
             under(S) == {u \in S : IsPrefix(p, u)}
         IN  under(LiveIn(f)) \subseteq found /\ found \subseteq under(WrittenIn(f))
    /\ GivesPairsOf(ScanAllCf(f), f, UserKeys)

\* What the code does not provide: scan_prefix_cf returns keys of the family
\* that get_cf can be called with ("Remove the column family prefix from the
\* returned keys", engine.rs:3237).
PrefixScanReturnsKeys ==
  \A f \in families, p \in Bounds : ScanPrefixCf(f, p) \subseteq WrittenIn(f)

=============================================================================
