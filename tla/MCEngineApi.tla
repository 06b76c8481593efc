----------------------------- MODULE MCEngineApi -----------------------------
(* EngineApi for TLC: the workloads.                                       *)
EXTENDS EngineApi

\* At most one file of level 0, with every level 1; and those whose second key
\* is in level 1 if anywhere, and whose first is in both only when deleted.
AnyFiles == {<<IF t = NoEntries THEN <<>> ELSE <<t>>, b>> :
               t \in [Keys -> {-2, 0, 2}], b \in [Keys -> {0, 1}]}
FewFiles == {f \in AnyFiles : f[1] # <<>> =>
               f[1][1][2] = 0 /\ ~(f[1][1][1] = 2 /\ f[2][1] = 1)}
\* Two files of level 0, listed in the order they were written in or not, and
\* a level 1 that holds at most the second key, which they do not.
TwoFiles == {<<<<[NoEntries EXCEPT ![1] = c], [NoEntries EXCEPT ![1] = d]>>,
               [NoEntries EXCEPT ![NumKeys] = b]>> :
               c \in {-2, 2, -3, 3}, d \in {-2, 2, -3, 3}, b \in {0, 1}}
Listed == {f \in TwoFiles : Stamp(f[1][1][1]) # Stamp(f[1][2][1])}

\* The counter: puts, batches and deletes beside a flush, a compaction and
\* an administrative call.
Counting ==
  [puts |-> {<<1>>, <<1, 2>>, <<1, 1>>}, deletes |-> {<<1>>, <<2, 1>>},
   kinds |-> {}, old |-> FewFiles, writes |-> 3, admin |-> 1]
\* The scans: single puts and deletes beside a flush and a compaction.
Scanning ==
  [puts |-> {<<1>>, <<2>>}, deletes |-> {<<1>>}, kinds |-> AllKinds,
   old |-> FewFiles, writes |-> 2, admin |-> 0]
\* The scans over more files, beside one write.
Reopened == [Scanning EXCEPT !.old = Listed, !.writes = 1]
CountingOrScanning == {Counting, Scanning, Reopened}

\* The workloads of the scenarios that the README lists as disagreements.
NoFiles == {<<<<>>, NoEntries>>}
With(kinds, files) == {[Scanning EXCEPT !.kinds = kinds, !.old = files]}
WithKeys == With({"keys"}, NoFiles)
WithLimit == With({"limit"}, NoFiles)
WithMerge == With({"merge"}, AnyFiles)
WithMergeReopened == With({"merge"}, Listed)
WithMergeOnly == With({"merge"}, NoFiles)
WithCursor == With({"cursor"}, NoFiles)
WithTry == With({"try"}, NoFiles)
ClearingFiles == {[Counting EXCEPT !.writes = 0, !.old = AnyFiles]}
ClearingWrites == {[Counting EXCEPT !.old = NoFiles]}
CountingAfresh == {[Counting EXCEPT !.old = NoFiles, !.admin = 0]}
=============================================================================
