SPECIFICATION Spec
CONSTANTS
  MaxInt = 99  Calls = 2
  Syntax <- MCSyntax  Depth = 30  Bodies <- MCBodies  VarName <- MCVarName  Props <- MCProps
  Chunk <- Chunks  Slot <- AllSlots  Literal <- MCLiteral
INVARIANTS TypeOK StacksBalance UnassignedIsNull AgreesWithWalker
PROPERTY EveryCallReturns
CHECK_DEADLOCK FALSE
