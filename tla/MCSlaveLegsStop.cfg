\* The legs are stopped after their polarity was asked to change.
SPECIFICATION Spec
CONSTANTS
  Speeds = {0, 3}
  AccelStep = 2
  MaxLost = 0
  NumServos = 2
  Duration = 2
  SafeReference <- MCReference
  SafeMin <- MCMin
  SafeMax <- MCMax
  LegPoses <- MCLegPoses
  RawPoses = {}
CHECK_DEADLOCK FALSE
INVARIANTS StoppedLegsAreLimp
