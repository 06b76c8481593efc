---------------------------- MODULE MCSstableRead ----------------------------
(* Instances of SstableRead for TLC.                                       *)
EXTENDS SstableRead, TLC

\* Two hash functions under which small filters have collisions.
SmallHash(k, i) == 7 * k + 3 * i

\* A file of the older format with two entries, and one with two blocks, of
\* which the first has two.
SmallTable == <<1 :> 1 @@ 3 :> 1, <<1, 1, 1>>>>

\* The reading tasks are interchangeable.
ProcSymmetry == Permutations(Procs)

\* For every table of up to four keys, each entry is found at its place again,
\* no other key is found, and the filter never denies a key that is there.
ASSUME FormatRoundTrip ==
  \A K \in SUBSET (1..4) : K # {} => \A t \in [K -> 1..3] :
    \A target \in {0, 2}, k \in 0..5 :
      LET ix == FlatIndex(t, target) IN
      /\ IF k \in K
         THEN \E r \in IndexGet(ix, k) : EntryAt(t, target, r.at.block, r.at.off) = k
         ELSE IndexGet(ix, k) = {}
      /\ k \in K => KeyMayExist(t, k, TRUE) /\ KeyMayExist(t, k, FALSE)

\* The same of the two files.
ASSUME FilesRoundTrip == RoundTrips /\ FilterLetsThrough
=============================================================================
