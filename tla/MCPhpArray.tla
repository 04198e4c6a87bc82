---------------------------- MODULE MCPhpArray ----------------------------
\* Instances of PhpArray for TLC.  Values are model values: no operation
\* looks inside one.
EXTENDS PhpArray, TLC

CONSTANTS arr1, arr2, str, cell1, v1, v2, b1, b2
MCVal == {v1, v2}
MCVar == {arr1, arr2}
MCBlock == {b1, b2}
Symmetric == Permutations(MCVal) \cup Permutations(MCVar) \cup Permutations(MCBlock)

\* Short arrays that share elements, or longer ones of plain values.
Elements == UNION {{block[b].entries[i].elem : i \in DOMAIN block[b].entries} : b \in Block}
Shared == \A b \in Block : Len(block[b].entries) <= 2 /\ block[b].pos = 0
Long == Cardinality(Elements \cup Range(heap)) <= 1
SharedOrLong == Shared \/ Long
===========================================================================
