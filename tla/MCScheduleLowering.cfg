SPECIFICATION Spec
CONSTANTS
  Off = off
  On = on
  Plain = plain
  Ruled = ruled
  NoRollout = NoRollout
  MaxInstant = 3
  MaxSteps = 3
  StageCounts = {1, 2, 3, 4}
  LongEnds = {5, 1000}
  LongStageCounts = {5, 6, 7, 8, 9, 10, 11, 12, 13, 14}
  Limit = 13
  Evaluations <- MCEvaluations
  Environments <- AllEnvironments
INVARIANT TypeOK
INVARIANT KeptIsCanonical
INVARIANT LoweringPreservesMeaning
INVARIANT RolloutCompletes
INVARIANT FailureHasCause
INVARIANT RolloutNeverShrinks
CHECK_DEADLOCK FALSE
