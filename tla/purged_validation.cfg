SPECIFICATION Spec
CONSTANTS
  MaxLength = 9
  MaxDepth = 1
  MaxSplits = 4
  MaxHorizon = 2
  MaxEmbargo = 2
INVARIANTS NoLabelReachesTest NoTestLabelReachesTraining EveryRowOutOfSample
CHECK_DEADLOCK FALSE
