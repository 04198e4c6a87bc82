-------------------------- MODULE MCForeachByRef --------------------------
\* Instances of ForeachByRef for TLC: arrays of two elements that grow.
EXTENDS ForeachByRef
TwoElements == <<1, 2>>
OldCells == {<<1, 1>>, <<2, 1>>}
===========================================================================
