\* Wheels and legs together: one lost frame, speeds within one step of the ramp, one
\* safe and one unsafe leg pose, one raw pose.
SPECIFICATION Spec
CONSTANTS
  Speeds = {0, 1}
  AccelStep = 2
  MaxLost = 1
  NumServos = 1
  Duration = 2
  SafeReference <- MCReference
  SafeMin <- MCMin
  SafeMax <- MCMax
  LegPoses <- MCLegPoses
  RawPoses <- MCRawPoses
CHECK_DEADLOCK FALSE
INVARIANTS WheelsAreIdle ArmedOnNewFeedback NoForgottenMotion LegsOffWhileBalancing LegsInRange
