SPECIFICATION Spec
CONSTANTS
  Rule = {r1, r2, r3}
  Missing = {m}
  Flag = Flag
  MaxRefs = 2
INVARIANT TypeOK
INVARIANT AcceptedIsAcyclic
INVARIANT AcceptedIsClosed
INVARIANT CycleReportIsReal
INVARIANT NoFalseRejection
INVARIANT NeverInlinedInsideItself
PROPERTY EventuallyDecided
CHECK_DEADLOCK FALSE
