SPECIFICATION Spec
CONSTANTS
  arr1 = arr1  arr2 = arr2  str = str  cell1 = cell1  v1 = v1  v2 = v2  b1 = b1  b2 = b2
  Var <- MCVar  Block <- MCBlock  Cell = {cell1}  Val <- MCVal
  IntKey = {1}  StrKey = {str}
  MaxInt = 7  MaxLen = 3  MaxNext = 3  MaxPos = 2
CONSTRAINT SharedOrLong
SYMMETRY Symmetric
INVARIANTS TypeOK IndexExact
PROPERTY ImplementsValues
