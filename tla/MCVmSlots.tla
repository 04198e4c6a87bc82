----------------------------- MODULE MCVmSlots -----------------------------
\* Instances of VmSlots for TLC: two globals, two values.
EXTENDS VmSlots, TLC

CONSTANTS v1, v2, name1, name2
MCVal == {v1, v2}
MCName == {name1, name2}
Symmetric == Permutations(MCVal) \cup Permutations(MCName)
=============================================================================
