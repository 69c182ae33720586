SPECIFICATION Spec
CONSTANTS
  MaxHeight = 3
  MaxDepth = 2
  MaxChildren = 3
  Default = "default"
  Actions = {"a", "b"}
  Forms = {"collection_contains", "string_contains", "string_match", "semver_comparison", "membership"}
  MaxRules = 2
  RulesMax = 2
  Authored <- MCAuthored
  Contexts <- MCContexts
INVARIANT TypeOK
INVARIANT MeaningKept
INVARIANT NormalForm
INVARIANT RejectionHasCause
INVARIANT VerdictMatchesMatrix
CHECK_DEADLOCK FALSE
