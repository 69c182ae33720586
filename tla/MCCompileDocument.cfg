SPECIFICATION Spec
CONSTANTS
  k1 = k1
  k2 = k2
  f1 = f1
  f2 = f2
  Flag = {f1, f2}
  Key = {k1, k2}
  NoKey = NoKey
  Undefined = Undefined
  None = None
  Documents <- MCDocuments
INVARIANT TypeOK
INVARIANT OneBucketingKey
INVARIANT VerdictIsTheDocuments
INVARIANT OutputIsComplete
CHECK_DEADLOCK FALSE
