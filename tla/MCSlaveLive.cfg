\* What the wheels and the legs must do by themselves: no frame is lost, leg
\* commands only; a ramp of a whole and a part step.
SPECIFICATION FairSpec
CONSTANTS
  Speeds = {0, 3}
  AccelStep = 2
  MaxLost = 0
  NumServos = 1
  Duration = 2
  SafeReference <- MCReference
  SafeMin <- MCMin
  SafeMax <- MCMax
  LegPoses <- MCLegPoses
  RawPoses = {}
CHECK_DEADLOCK FALSE
PROPERTIES CommandsExpire LegsSettle
