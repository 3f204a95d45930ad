\* The IMU that stops answering while the wheels are woken.
SPECIFICATION FairSpec
CONSTANTS
  Speeds = {0, 3}
  AccelStep = 2
  MaxLost = 0
  NumServos = 1
  Duration = 2
  SafeReference <- MCReference
  SafeMin <- MCMin
  SafeMax <- MCMax
  LegPoses <- MCLegPoses
  RawPoses = {}
CHECK_DEADLOCK FALSE
PROPERTIES ArmingEnds
