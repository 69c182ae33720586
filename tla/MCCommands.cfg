SPECIFICATION Spec
CONSTANTS
  build = build
  normalize = normalize
  compile = compile
  good = good
  inexpressible = inexpressible
  invalid = invalid
  src = src
  pb = pb
  json = json
  out = out
  dumped = dumped
  Job = {build, normalize, compile}
  Path = {src, pb, json, out, dumped}
  NoPath = NoPath
  Forms <- AllForms
  Documents = {good, inexpressible, invalid}
  Loads = {good, inexpressible}
  Compiles = {good}
  Fragment = Fragment
  MaxTroubles = 2
  Makefiles <- BothMakefiles
  Sources <- OneSource
INVARIANT TypeOK
INVARIANT SuccessIsWhole
INVARIANT ChainKeepsDocument
PROPERTY FailureLeavesOutput
CHECK_DEADLOCK FALSE
