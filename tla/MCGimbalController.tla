------------------------ MODULE MCGimbalController ------------------------
(* Instances of GimbalController for TLC. *)
EXTENDS GimbalController

Positions(yaws, pitches) ==
  {[a \in Axis |-> IF a = "yaw" THEN y ELSE p] : y \in yaws, p \in pitches}

\* Positions on both sides of zero: 2 lies beyond MCLimit by no more than the
\* overshoot, 3 beyond that.
MCPos == Positions({0}, {0, 2}) \cup Positions({2, 3}, {0})
MCTargets == Positions({0}, {-1, 1})
MCFewPos == Positions({0}, {0, 2})
MCLimit(h) == [min |-> [a \in Axis |-> -1], max |-> [a \in Axis |-> h]]
MCLimitRequests == {MCLimit(1)}
=============================================================================
