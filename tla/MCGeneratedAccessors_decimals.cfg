SPECIFICATION Spec
CONSTANTS
  Documents <- MCDocuments
  Configs <- MCConfigs
  PathOrder <- MCPathOrder
INVARIANT DecimalsInferFloat
CHECK_DEADLOCK FALSE
