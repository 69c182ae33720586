SPECIFICATION FlagdSpec
CONSTANTS
  Off = off
  On = on
  Plain = plain
  NoRollout = NoRollout
  Limit = 6
  TicksPerSecond = 3
  MaxNow = 13
  Seconds = {0, 1, 2, 3, 4}
  MaxSteps = 3
  MaxFineSteps = 2
  MaxFine = 6
  StageCounts = {1, 2, 3}
  Evaluations <- FlagdEvaluations
  Environments <- AnyEnvironment
INVARIANT FlagdTypeOK
INVARIANT EarlyWithinTheSecond
PROPERTY MeetsPromise
PROPERTY SettlesOnNewest
CHECK_DEADLOCK FALSE
