SPECIFICATION Spec
CONSTANTS
  StepBudget = 5000 DepthCap = 60 RepeatCap = 3
  MaxDigits = 100 NewtonRounds = 20
  LargestInt = 1000000 MaxDepth = 12
  SerDepth = 4 JsonDepth = 4 ExportDepth = 3
INVARIANTS RegexAsDefined RegexRebuilds BcIsExact DatesAreCivil LexemesReadBack SourceReadsBack StoredReadsBack
CHECK_DEADLOCK FALSE
