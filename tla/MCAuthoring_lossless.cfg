SPECIFICATION TransportSpec
CONSTANTS
  ComplexKey = ComplexKey
  IntMax = 4
  UintMax = 6
  WeightMax = 5
  StagesMax = 3
  SafeMax = 1
  MaxDepth = 2
  TextMax = 8
  AuthoredTextMax = 10
  KidsMax = 3
  PayloadMax = 6
  LongNames = {"long", "longer"}
  LongKeys = {"longer"}
  MaxTrips = 2
  Sources <- MCSources
INVARIANT LosslessIngress
CHECK_DEADLOCK FALSE
