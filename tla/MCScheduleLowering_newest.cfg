SPECIFICATION Spec
CONSTANTS
  Off = off
  On = on
  Plain = plain
  Ruled = ruled
  NoRollout = NoRollout
  MaxInstant = 3
  MaxSteps = 2
  StageCounts = {1, 2, 3, 4}
  LongEnds = {5}
  LongStageCounts = {5}
  Limit = 3
  Evaluations <- MCEvaluations
  Environments <- MCEnvironments
INVARIANT NewestStepUsed
CHECK_DEADLOCK FALSE
