\* Motion: two limits per axis, a position in the overshoot and one beyond it, a
\* torque ramp of two steps, one lost frame; fair polls.
SPECIFICATION FairSpec
CONSTANTS
  Pos <- MCPos
  Targets <- MCTargets
  LimitRequests <- MCLimitRequests
  Torques = {3}
  MinTorque = 2
  MaxTorque = 3
  TorqueStep = 2
  MaxAbsLimit = 1
  Tolerance = 0
  Overshoot = 1
  SettleSamples = 2
  MaxLost = 1
CHECK_DEADLOCK FALSE
INVARIANTS MotionIsInformed GoalsInLimits FaultsAreHonoured CalibrationIsLimp StoppedIsIdle
PROPERTIES ShutdownIsFinal TransitionsEnd
