\* Liveness: one position per axis, one limit, a torque ramp of two steps.
SPECIFICATION FairSpec
CONSTANTS
  Pos <- MCFewPos
  Targets <- MCTargets
  LimitRequests <- MCLimitRequests
  Torques = {3}
  MinTorque = 2
  MaxTorque = 3
  TorqueStep = 2
  MaxAbsLimit = 1
  Tolerance = 0
  Overshoot = 1
  SettleSamples = 2
  MaxLost = 2
CHECK_DEADLOCK FALSE
PROPERTY FaultStopsDrives
