---------------------------- MODULE ServoMotion ----------------------------
(***************************************************************************)
(* remote_firmware/servo_motion_controller.c over phytium_servo_port.c:    *)
(* the four leg servos.  They report nothing: an angle is what was         *)
(* commanded. PWM registers may refuse a pulse and their initialisation    *)
(* may fail.  What initialisation does to a channel that is switched on is *)
(* the SDK's: it stays on or not.  Of a trajectory the model keeps the     *)
(* share of its duration that has passed.                                  *)
(***************************************************************************)
EXTENDS Integers

CONSTANTS
  NumServos,      \* PHYTIUM_SERVO_NUM
  SafeReference,  \* g_safe_reference_x10_deg
  SafeMin, SafeMax, \* the leg angles leg_raw_angles_are_safe accepts
  LegPoses, RawPoses, \* poses clients ask for in leg and in raw servo commands
  Duration        \* bound: steps in which a trajectory is polled

Servo == 0..(NumServos - 1)

ASSUME ServoAssumption ==
  /\ NumServos \in Nat \ {0} /\ Duration \in Nat \ {0}
  /\ SafeMin \in [Servo -> Int] /\ SafeMax \in [Servo -> Int]
  /\ LegPoses \subseteq [Servo -> Int] /\ RawPoses \subseteq [Servo -> Int]
  /\ SafeReference \in [Servo -> Int]
  /\ \A i \in Servo : SafeMin[i] <= SafeReference[i] /\ SafeReference[i] <= SafeMax[i]

VARIABLES
  legs,    \* g_telemetry.state
  current, target, \* g_telemetry.current_angle_x10_deg, target_angle_x10_deg
  start,   \* g_start_angle_x10_deg
  ready,   \* g_servo_ready
  outputs, \* g_servo_outputs_enabled
  powered, \* channels whose output is switched on
  duty,    \* the angle programmed into each channel
  raw      \* a raw servo command was carried out since the legs took their reference

portVars == <<ready, outputs, powered, duty>>
servoVars == <<legs, current, target, start, portVars, raw>>

LegStates == {"IDLE", "MOVING", "FAULT", "UNARMED", "STARTING", "TESTING"}
Busy == {"MOVING", "STARTING"}

ServoTypeOK ==
  /\ legs \in LegStates
  /\ current \in [Servo -> Int] /\ target \in [Servo -> Int]
  /\ start \in [Servo -> Int] /\ duty \in [Servo -> Int]
  /\ ready \in BOOLEAN /\ outputs \in BOOLEAN /\ raw \in BOOLEAN
  /\ powered \in SUBSET Servo

ServoInit ==
  /\ legs = "UNARMED"
  /\ current = SafeReference /\ target = SafeReference
  /\ start = [i \in Servo |-> 0]
  /\ ready = FALSE /\ outputs = FALSE /\ powered = {}
  /\ duty = SafeReference
  /\ raw = FALSE

\* leg_raw_angles_are_safe
LegAnglesAreSafe(pose) == \A i \in Servo : SafeMin[i] <= pose[i] /\ pose[i] <= SafeMax[i]

-----------------------------------------------------------------------------
(* phytium_servo_port.c: the outcomes of its calls *)

Port == [ready |-> ready, outputs |-> outputs, powered |-> powered, duty |-> duty, ok |-> TRUE]

PortIs(p) ==
  ready' = p.ready /\ outputs' = p.outputs /\ powered' = p.powered /\ duty' = p.duty

\* The channels below n take the angles of pose.
Prefix(d, n, pose) == [i \in Servo |-> IF i < n THEN pose[i] ELSE d[i]]

\* phytium_servo_init, unless it is ready; it may fail before any channel.
Initialised(p) ==
  IF p.ready THEN {p}
  ELSE {[ready |-> TRUE, outputs |-> FALSE, powered |-> on, duty |-> SafeReference, ok |-> TRUE]
          : on \in SUBSET p.powered} \cup
       UNION {{[p EXCEPT !.powered = on, !.duty = Prefix(p.duty, n, SafeReference), !.ok = FALSE]
                 : on \in SUBSET p.powered} : n \in Servo}

\* Channels that are off are all programmed before any of them is switched on.
SwitchedOn(p, pose) ==
  {[p EXCEPT !.duty = pose, !.powered = Servo, !.outputs = TRUE]} \cup
  {[p EXCEPT !.duty = Prefix(p.duty, n, pose), !.ok = FALSE] : n \in Servo}

\* Channels that are on are programmed each on its own.
Adjusted(p, pose) ==
  {[p EXCEPT !.duty = [i \in Servo |-> IF i \in F THEN p.duty[i] ELSE pose[i]], !.ok = (F = {})]
     : F \in SUBSET Servo}

\* phytium_servo_set_all_x10
SetAll(q, pose) ==
  UNION {IF ~p.ok THEN {p} ELSE IF p.outputs THEN Adjusted(p, pose) ELSE SwitchedOn(p, pose)
           : p \in Initialised(q)}

\* phytium_servo_disable_outputs
Disabled(p) ==
  [p EXCEPT !.outputs = FALSE, !.powered = IF p.ready /\ p.outputs THEN {} ELSE @]

\* phytium_servo_enable_single_x10
Single(q, i, angle) ==
  UNION {IF ~p.ok THEN {p}
         ELSE LET off == Disabled(p)
              IN  {[off EXCEPT !.ok = FALSE],
                   [off EXCEPT !.duty[i] = angle, !.powered = @ \cup {i}, !.outputs = TRUE]}
           : p \in Initialised(q)}

-----------------------------------------------------------------------------
(* servo_motion_controller.c *)

\* servo_motion_enable_at_target, with the port as p
EnableAtTarget(p, pose) ==
  IF legs \in Busy THEN PortIs(p) /\ UNCHANGED <<legs, current, target, start, raw>>
  ELSE \E o \in SetAll(p, pose) :
    /\ PortIs(o)
    /\ legs' = IF o.ok THEN "STARTING" ELSE "FAULT"
    /\ current' = IF o.ok THEN pose ELSE current
    /\ target' = IF o.ok THEN pose ELSE target
    /\ raw' = (pose # SafeReference \/ (raw /\ ~o.ok))
    /\ UNCHANGED start

\* servo_motion_start
StartMotion(pose) ==
  /\ legs = "IDLE"
  /\ start' = current
  /\ target' = pose
  /\ legs' = "MOVING"
  /\ UNCHANGED <<current, portVars>>

\* servo_motion_test_one
TestOne(i, angle) ==
  /\ legs \notin Busy \cup {"TESTING"}
  /\ \E o \in Single(Port, i, angle) :
       /\ PortIs(o)
       /\ legs' = IF o.ok THEN "TESTING" ELSE "FAULT"
       /\ current' = IF o.ok THEN [current EXCEPT ![i] = angle] ELSE current
       /\ target' = IF o.ok THEN [target EXCEPT ![i] = angle] ELSE target
       /\ raw' = TRUE
       /\ UNCHANGED start

\* servo_motion_stop
StopLegs ==
  /\ target' = IF legs = "MOVING" THEN current ELSE target
  /\ legs' = "UNARMED"
  /\ PortIs(Disabled(Port))
  /\ UNCHANGED <<current, start, raw>>

\* The angles after n of the trajectory's steps; C divides towards zero.
Quotient(x, d) == IF x < 0 THEN -((-x) \div d) ELSE x \div d
Interpolated(n) == [i \in Servo |-> start[i] + Quotient((target[i] - start[i]) * n, Duration)]

\* Faulty: nothing ends the time the legs settle in.
NeverSettled(late) == FALSE

Settled(late) == "legs" \in late

\* servo_motion_poll; "legs" is the state's own duration.
ServoPoll(late) ==
  \/ /\ legs \notin Busy \cup {"TESTING"}
     /\ UNCHANGED servoVars
  \/ /\ legs = "TESTING"
     /\ IF "legs" \in late THEN StopLegs ELSE UNCHANGED servoVars
  \/ /\ legs = "STARTING"
     /\ legs' = IF Settled(late) THEN "IDLE" ELSE legs
     /\ UNCHANGED <<current, target, start, portVars, raw>>
  \/ /\ legs = "MOVING" /\ "legs" \notin late
     /\ UNCHANGED servoVars
  \/ /\ legs = "MOVING"
     /\ \E n \in IF "legs" \in late THEN {Duration} ELSE 0..(Duration - 1) :
        \E o \in SetAll(Port, Interpolated(n)) :
          /\ PortIs(o)
          /\ current' = IF o.ok THEN Interpolated(n) ELSE current
          /\ legs' = IF ~o.ok THEN "FAULT" ELSE IF n = Duration THEN "IDLE" ELSE "MOVING"
          /\ UNCHANGED <<target, start, raw>>
=============================================================================
