----------------------------- MODULE LidarOdometry -----------------------------
(***************************************************************************)
(* lidar_odometry_node.py and scan_matcher.py: the pose of the robot, as   *)
(* the sum of the motions between a reference scan and the scans matched   *)
(* with it.                                                                *)
(*                                                                         *)
(* The robot moves along a line, and a scan is the place it was taken at.  *)
(* Two scans that are close may look the same; whether they do is free,    *)
(* for the thresholds are on trimmed differences of ranges and there may   *)
(* be too few of them.  A match that is accepted finds the motion exactly; *)
(* whether one is accepted is free within the limits of speed.  Yaw, its   *)
(* fusion with the IMU and velocities are left out.                        *)
(***************************************************************************)
EXTENDS Integers

CONSTANTS
  MaxReference,  \* max_reference_interval, in scans
  Refresh,       \* static_reference_refresh, in scans
  MaxSpeed,      \* max_linear_speed, in places a scan
  Unseen,        \* static_scan_rms, static_zero_rms: how far apart two scans may be taken and
                 \* still look the same
  Deadband,      \* translation_deadband
  MaxMoves       \* bound: steps of the robot from one place to the next

ASSUME OdometryAssumption ==
  /\ MaxReference \in Nat \ {0} /\ Refresh \in Nat \ {0} /\ Refresh <= MaxReference
  /\ MaxSpeed \in Nat \ {0} /\ MaxMoves \in Nat
  /\ Unseen \in Nat /\ Deadband \in Nat

VARIABLES
  robot,  \* where it is, and how often it has moved
  scan,   \* where the scan before was taken (previous_ranges), and whether one may follow
  core    \* LaserOdometryCore: the place of previous_points and the time since, the pose,
          \* consecutive_rejections, and quality.reason; and whether a match with the
          \* reference has been rejected

odometryVars == <<robot, scan, core>>

Stretch == (-MaxMoves)..MaxMoves
AtMost(distance, bound) == -bound <= distance /\ distance <= bound
Reasons == {"initializing", "initialized", "reference_reset", "static", "static_geometry",
            "ok", "rejected"}
Core0 == [started |-> FALSE, ref |-> 0, age |-> 0, pose |-> 0, rejections |-> 0,
          reason |-> "initializing", missed |-> FALSE]

OdometryTypeOK ==
  /\ robot \in [at : Stretch, moves : 0..MaxMoves]
  /\ scan \in [at : Stretch, due : BOOLEAN]
  /\ core \in [started : BOOLEAN, ref : Stretch, age : 0..(MaxReference + 1), pose : Int,
               rejections : 0..2, reason : Reasons, missed : BOOLEAN]

OdometryInit ==
  /\ robot = [at |-> 0, moves |-> 0]
  /\ scan = [at |-> 0, due |-> TRUE]
  /\ core = Core0

-----------------------------------------------------------------------------
(* LaserOdometryCore.update, for a scan taken where the robot is *)

\* previous_points and previous_stamp are those of this scan.
Referenced(c) == [c EXCEPT !.ref = robot.at, !.age = 0, !.missed = FALSE]

\* The first scan, or the first after scans failed to come for too long.
Initialized ==
  /\ ~core.started
  /\ core' = [Referenced(core) EXCEPT !.started = TRUE, !.reason = "initialized"]

ReferenceReset ==
  /\ core.started /\ core.age > MaxReference
  /\ core' = [Referenced(core) EXCEPT !.reason = "reference_reset"]

Matchable == core.started /\ core.age <= MaxReference

\* The robot is taken to stand: the reference is replaced once it is old, and with it goes
\* the motion that was not seen.
Stands(reason) ==
  core' = [IF core.age >= Refresh THEN Referenced(core) ELSE core
             EXCEPT !.rejections = 0, !.reason = reason]

\* raw_scan_rms: the scan looks like the one before, wherever the reference is.
SameScan == AtMost(robot.at - scan.at, Unseen)

Static == Matchable /\ SameScan /\ Stands("static")

\* icp_2d, where it finds enough matches
Motion == robot.at - core.ref

\* zero_rms: the scan looks like the reference.
StaticGeometry == Matchable /\ AtMost(Motion, Unseen) /\ Stands("static_geometry")

WithinSpeed == AtMost(Motion, MaxSpeed * core.age)

\* robot_delta_laser
Delta == IF AtMost(Motion, Deadband) THEN 0 ELSE Motion

\* Faulty: the reference stays, and its motion counts again.
AddedOnly(c) == [c EXCEPT !.pose = @ + Delta]

\* The motion is added unless it is in the deadband, and the scan is the new reference.
Added(c) == [Referenced(c) EXCEPT !.pose = @ + Delta]

Accepted ==
  /\ Matchable /\ WithinSpeed
  /\ core' = [Added(core) EXCEPT !.rejections = 0, !.reason = "ok"]

\* Too few points or matches, an rms too high, or a jump.
Rejected ==
  /\ Matchable
  /\ core' = IF core.rejections = 2
               THEN [Referenced(core) EXCEPT !.rejections = 0, !.reason = "rejected"]
               ELSE [core EXCEPT !.rejections = @ + 1, !.reason = "rejected", !.missed = TRUE]

-----------------------------------------------------------------------------

\* on_scan: a scan that follows too soon on the one before is skipped.
OnScan ==
  /\ scan.due
  /\ Initialized \/ ReferenceReset \/ Static \/ StaticGeometry \/ Accepted \/ Rejected
  /\ scan' = [at |-> robot.at, due |-> FALSE]
  /\ UNCHANGED robot

OdometryRestarts ==
  /\ core' = Core0 /\ scan' = [scan EXCEPT !.due = TRUE]
  /\ UNCHANGED robot

\* Time goes on and the robot with it, whether scans come or not.
RobotMoves ==
  /\ \E step \in {-1, 0, 1} :
       /\ step # 0 => robot.moves < MaxMoves
       /\ robot' = [at |-> robot.at + step, moves |-> robot.moves + (IF step = 0 THEN 0 ELSE 1)]
  /\ core' = [core EXCEPT !.age = IF @ > MaxReference \/ ~core.started THEN @ ELSE @ + 1]
  /\ scan' = [scan EXCEPT !.due = TRUE]

OdometryStep == OnScan \/ OdometryRestarts \/ RobotMoves

OdometrySpec == OdometryInit /\ [][OdometryStep]_odometryVars

-----------------------------------------------------------------------------
(* Properties *)

\* No motion is counted twice, and how much of it a scan can lose is bounded: what the pose
\* lacks to the place of the reference changes by no more than the deadband in a match that
\* is accepted, and by no more than may go unseen in a scan, for each scan since the
\* reference, when the robot is taken to stand.  All that was moved since the reference is
\* lost only when the third match in a row is rejected, when one has been rejected before
\* the scans look the same, after a gap, or with a restart (scan_matcher.py:334-455).
Behind == core.ref - core.pose
MotionCountsOnce ==
  [][LET lost == Behind' - Behind IN
       \/ lost = 0
       \/ core'.reason = "ok" /\ AtMost(lost, Deadband)
       \/ core'.reason = "static_geometry" /\ AtMost(lost, Unseen)
       \/ core'.reason = "static" /\ (core.missed \/ AtMost(lost, Unseen * core.age))
       \/ core'.reason = "rejected" /\ core.rejections = 2
       \/ core'.reason \in {"initializing", "initialized", "reference_reset"}
    ]_odometryVars
=============================================================================
