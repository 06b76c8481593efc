-------------------------- MODULE MCColumnFamilies ---------------------------
(* ColumnFamilies for TLC, with strings over '#' (2), 'a' (4) and a        *)
(* character without a successor (6).                                      *)
EXTENDS ColumnFamilies

\* Two names of which one begins with the other.
FamA == <<4>>
PlainNames == {<<4>>, <<4, 4>>}
\* Names one of which is the other and a '#'.
HashNames == {<<4>>, <<4, 2>>}
\* The empty key, a '#', one with the last character.
SomeKeys == {<<>>, <<2>>, <<4, 6>>}
OnePlainKey == {<<4>>}
\* Calls for one key and for two.
SomeBatches == {{<<2>>}, {<<>>, <<4, 6>>}}
SomeBounds == {<<>>, <<2>>, <<4>>, <<4, 6>>}
=============================================================================
