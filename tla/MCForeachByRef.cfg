SPECIFICATION Spec
CONSTANTS
  Key = {1, 2, 3, 4}  Start <- TwoElements  MaxLiveAppends = 2
  CellNo = {1, 2, 3, 4}  OldCell <- OldCells  MaxHeld = 1  Plain = Plain
INVARIANTS TypeOK RefsAreAliased AppendedAreVisited
PROPERTIES NoRevisit AliasesSurvive Terminates
