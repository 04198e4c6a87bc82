SPECIFICATION Spec
CONSTANTS
  v1 = v1  v2 = v2  name1 = name1  name2 = name2
  Val <- MCVal  Name <- MCName  Null = Null  Absent = Absent
  Unsynced = TRUE  Failures = FALSE  Unsets = FALSE
PROPERTY ImplementsGlobals
CHECK_DEADLOCK TRUE
