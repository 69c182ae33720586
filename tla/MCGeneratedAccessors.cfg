SPECIFICATION Spec
CONSTANTS
  Documents <- MCDocuments
  Configs <- MCConfigs
  PathOrder <- MCPathOrder
INVARIANT TypeOK
INVARIANT FieldsFollowTheirUses
INVARIANT GeneratedFileIsWhole
INVARIANT ContextArrives
CHECK_DEADLOCK FALSE
