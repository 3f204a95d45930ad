---------------------------- MODULE MCSlaveApp ----------------------------
(* Instances of SlaveApp for TLC. *)
EXTENDS SlaveApp

\* Legs that mirror each other: the first moves within 0..3, the others in 1..4.
MCPose(a, b) == [i \in Servo |-> IF i = 0 THEN a ELSE b]
MCReference == MCPose(2, 2)
MCMin == MCPose(0, 1)
MCMax == MCPose(3, 4)
MCLegPoses == {MCPose(0, 4), MCPose(4, 0)}
MCRawPoses == {MCPose(4, 0)}
=============================================================================
