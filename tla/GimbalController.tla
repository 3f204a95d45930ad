------------------------- MODULE GimbalController -------------------------
(***************************************************************************)
(* remote_firmware/gimbal_controller.c: the two-axis gimbal of the slave   *)
(* core.  The firmware is one loop: every command and every poll runs to   *)
(* its end, so each is one step.                                           *)
(*                                                                         *)
(* Time.  The controller only compares the time since an event with a      *)
(* constant.  A poll therefore has as input the set of its delays that     *)
(* have run out, and update_feedback what the two drives last reported and *)
(* whether that is recent enough: any value at every call.                 *)
(*                                                                         *)
(* CAN.  phytium_can_send may fail for each frame; a lost frame leaves the *)
(* drive with the command it had.  The drives are outside the program: for *)
(* each one the model keeps the last command it took.                      *)
(***************************************************************************)
EXTENDS Integers, FiniteSets

CONSTANTS
  Pos,           \* positions of the two axes the drives may report (x100 degrees)
  Targets,       \* positions clients ask for
  LimitRequests, \* limits clients ask for: a set of limits
  Torques,       \* torques clients ask for, in percent
  MinTorque, MaxTorque, \* GIMBAL_MIN_HOME_TORQUE_PERCENT, GIMBAL_MAX_TORQUE_PERCENT
  TorqueStep,    \* GIMBAL_STOP_TORQUE_STEP_PERCENT
  MaxAbsLimit,   \* GIMBAL_MAX_ABS_LIMIT_X100_DEG
  Tolerance,     \* GIMBAL_HOME_TOLERANCE_X100_DEG = GIMBAL_TARGET_TOLERANCE_X100_DEG
  Overshoot,     \* GIMBAL_LIMIT_OVERSHOOT_X100_DEG
  SettleSamples, \* GIMBAL_HOME_SETTLE_SAMPLES
  MaxLost        \* bound: CAN frames that are lost

ASSUME TorqueAssumption ==
  Torques \subseteq Nat /\ MinTorque \in Nat /\ MaxTorque \in Nat /\ TorqueStep \in Nat \ {0}
ASSUME SizeAssumption ==
  /\ MaxAbsLimit \in Nat /\ Tolerance \in Nat /\ Overshoot \in Nat
  /\ SettleSamples \in Nat \ {0} /\ MaxLost \in Nat

Axis == {"yaw", "pitch"}
Side == {"min", "max"}

ASSUME PositionAssumption == Pos \subseteq [Axis -> Int] /\ Targets \subseteq [Axis -> Int]
ASSUME LimitAssumption ==
  LimitRequests \subseteq [min : [Axis -> Int], max : [Axis -> Int]]

VARIABLES
  state,          \* g_telemetry.state
  fault,          \* g_telemetry.fault, a set of bits
  seen,           \* g_telemetry.feedback_valid_mask
  limits, marked, \* g_telemetry.limits and its valid_mask: which sides are valid
  target,         \* g_telemetry.{yaw,pitch}_target
  startup,        \* g_telemetry.startup_pitch, valid or not
  returnTorque, stopTorque,
  startPhase, homeSettle, returnSettle,
  moving,         \* g_motion_deadline_tick # 0
  streaming,      \* g_target_timeout_ms # 0
  calActive, calPhase,
  drive,          \* the last command each drive took
  lost,           \* frames lost so far
  staleLimits     \* the origin of a drive was moved under its limits

motion == <<target, startup, returnTorque, stopTorque, startPhase, homeSettle,
            returnSettle, moving, streaming>>
limitVars == <<limits, marked, staleLimits>>
calVars == <<calActive, calPhase>>
canVars == <<drive, lost>>
vars == <<state, fault, seen, motion, limitVars, calVars, canVars>>

Stopped == {"DISABLED", "FAULT"}
States == Stopped \cup {"STARTING", "HOMING", "ACTIVE", "RETURNING", "STOPPING"}
FaultBits == {"YAW_FEEDBACK", "PITCH_FEEDBACK", "CAN", "LIMIT_CONFIG", "LIMIT_EXCEEDED",
              "HOME_TIMEOUT", "COMMAND_TIMEOUT", "MOTION_TIMEOUT"}

\* The delays poll compares the clock with now; "step" is the start or home delay
\* of the state, "calStep" that of the calibration phase.
Delays ==
  (IF calActive THEN {"calStep", "calIdle"} ELSE {}) \cup
  (IF state \in {"STARTING", "HOMING"} THEN {"step"} ELSE {}) \cup
  (IF state \in {"HOMING", "RETURNING", "ACTIVE"} THEN {"refresh"} ELSE {}) \cup
  (IF state \in {"RETURNING", "ACTIVE"} /\ moving THEN {"deadline"} ELSE {}) \cup
  (IF state = "ACTIVE" /\ streaming THEN {"command"} ELSE {}) \cup
  (IF state = "STOPPING" THEN {"stop"} ELSE {})

Feedback == [fresh : SUBSET Axis, pos : Pos]

Commands == {"idle", "mode", "enable", "torque", "position"}
Bare(c) == [cmd |-> c, goal |-> 0]
Position(p) == [cmd |-> "position", goal |-> p]
Both(c) == [a \in Axis |-> Bare(c)]
Goto(t) == [a \in Axis |-> Position(t[a])]
Home == [a \in Axis |-> 0]

TypeOK ==
  /\ state \in States
  /\ fault \in SUBSET FaultBits
  /\ seen \in SUBSET Axis
  /\ limits \in [min : [Axis -> Int], max : [Axis -> Int]]
  /\ marked \in SUBSET (Axis \X Side)
  /\ target \in [Axis -> Int]
  /\ startup \in [valid : BOOLEAN, pitch : Int]
  /\ returnTorque \in Nat /\ stopTorque \in Nat
  /\ startPhase \in {0, 1}
  /\ homeSettle \in 0..SettleSamples /\ returnSettle \in 0..SettleSamples
  /\ moving \in BOOLEAN /\ streaming \in BOOLEAN
  /\ calActive \in BOOLEAN /\ calPhase \in {0, 1}
  /\ drive \in [Axis -> [cmd : Commands, goal : Int]]
  /\ lost \in 0..MaxLost
  /\ staleLimits \in BOOLEAN

NoLimits == [min |-> Home, max |-> Home]

Init ==
  /\ state = "DISABLED"
  /\ fault = {}
  /\ seen = {}
  /\ limits = NoLimits /\ marked = {}
  /\ target = Home
  /\ startup = [valid |-> FALSE, pitch |-> 0]
  /\ returnTorque = MaxTorque /\ stopTorque = 0
  /\ startPhase = 0 /\ homeSettle = 0 /\ returnSettle = 0
  /\ moving = FALSE /\ streaming = FALSE
  /\ calActive = FALSE /\ calPhase = 0
  /\ drive = Both("idle")
  /\ lost = 0
  /\ staleLimits = FALSE

-----------------------------------------------------------------------------
(* Limits *)

Abs(x) == IF x < 0 THEN -x ELSE x

RangeOK(l) ==
  \A a \in Axis : -MaxAbsLimit <= l.min[a] /\ l.min[a] < 0 /\ 0 < l.max[a] /\ l.max[a] <= MaxAbsLimit

\* limits_are_valid
LimitsValid(l, m) == m = Axis \X Side /\ RangeOK(l)

\* target_is_valid
TargetValid(t) ==
  LimitsValid(limits, marked) /\ \A a \in Axis : limits.min[a] <= t[a] /\ t[a] <= limits.max[a]

\* actual_position_exceeded_limits
Exceeded(p) ==
  /\ LimitsValid(limits, marked)
  /\ \E a \in Axis : p[a] < limits.min[a] - Overshoot \/ p[a] > limits.max[a] + Overshoot

-----------------------------------------------------------------------------
(* Frames.  Each operator is the set of outcomes of sending: the drives, the *)
(* frames lost and whether the caller sees success.                          *)

\* One frame to each axis, yaw first; the pair is given up at the first failure.
Sent(d, l, f) ==
  {[drive |-> f, lost |-> l, ok |-> TRUE]} \cup
  (IF l < MaxLost
     THEN {[drive |-> d, lost |-> l + 1, ok |-> FALSE],
           [drive |-> [d EXCEPT !["yaw"] = f["yaw"]], lost |-> l + 1, ok |-> FALSE]}
     ELSE {})

\* The same, if what was sent before succeeded.
ThenSent(o, f) == IF o.ok THEN Sent(o.drive, o.lost, f) ELSE {o}

\* send_idle_both: both frames are tried.
Idled(d, l) ==
  {[drive |-> [a \in Axis |-> IF a \in F THEN d[a] ELSE Bare("idle")],
    lost |-> l + Cardinality(F),
    ok |-> F = {}] : F \in {F \in SUBSET Axis : l + Cardinality(F) <= MaxLost}}

\* stop_calibration_feedback
CalibrationStopped ==
  IF calActive THEN Idled(drive, lost) ELSE {[drive |-> drive, lost |-> lost, ok |-> TRUE]}

\* Faulty: the drives are taken to be in torque mode already.
CalibrationAssumed == {[drive |-> drive, lost |-> lost, ok |-> TRUE]}

\* start_calibration_feedback
CalibrationStarted ==
  IF calActive THEN {[drive |-> drive, lost |-> lost, ok |-> TRUE]}
  ELSE UNION {ThenSent(o, Both("torque")) : o \in Sent(drive, lost, Both("mode"))}

Keep(o) == drive' = o.drive /\ lost' = o.lost

\* Faulty: the fault is recorded, the drives are left alone.
FaultWithoutIdle(o, bits) ==
  /\ fault' = bits
  /\ state' = "FAULT"
  /\ calActive' = FALSE /\ calPhase' = 0
  /\ Keep(o)

\* enter_fault, after the frames of o; bits is what g_telemetry.fault becomes.
FaultWith(o, bits) ==
  /\ fault' = bits
  /\ state' = "FAULT"
  /\ calActive' = FALSE /\ calPhase' = 0
  /\ \E i \in Idled(o.drive, o.lost) : Keep(i)

EnterFault(o, bit) == FaultWith(o, fault \cup {bit})

\* gimbal_control_emergency_stop, after the frames of o.
StopAtOnce(o) ==
  /\ \E i \in Idled(o.drive, o.lost) : Keep(i)
  /\ calActive' = FALSE /\ calPhase' = 0
  /\ state' = "DISABLED"

Now == [drive |-> drive, lost |-> lost, ok |-> TRUE]

-----------------------------------------------------------------------------
(* Commands *)

\* The answer to a request for feedback: both drives are woken in torque mode.
WakeFeedback ==
  \E o \in CalibrationStarted :
    IF o.ok
      THEN /\ Keep(o)
           /\ calActive' = TRUE
           /\ calPhase' = IF calActive THEN calPhase ELSE 0
           /\ UNCHANGED <<state, fault>>
      ELSE EnterFault(o, "CAN")

\* gimbal_control_enable refuses without limits.
EnableWithoutLimits ==
  /\ state \in Stopped
  /\ ~LimitsValid(limits, marked)
  /\ fault' = {"LIMIT_CONFIG"}
  /\ UNCHANGED <<state, seen, motion, limitVars, calVars, canVars>>

\* gimbal_control_enable with a valid request: home, then hold zero.
Enable(fb, torque) ==
  /\ state \in Stopped
  /\ MinTorque <= torque /\ torque <= MaxTorque
  /\ LimitsValid(limits, marked)
  /\ seen' = fb.fresh
  /\ IF fb.fresh # Axis THEN WakeFeedback /\ UNCHANGED motion
     ELSE \E s \in CalibrationStopped :
       IF ~s.ok THEN EnterFault(s, "CAN") /\ UNCHANGED motion
       ELSE
         /\ startup' = [valid |-> TRUE, pitch |-> fb.pos["pitch"]]
         /\ returnTorque' = torque
         /\ target' = Home
         /\ streaming' = FALSE /\ moving' = FALSE
         /\ homeSettle' = 0 /\ startPhase' = 0
         /\ UNCHANGED <<stopTorque, returnSettle>>
         /\ \E o \in Sent(s.drive, s.lost, Both("mode")) :
              IF o.ok
                THEN /\ Keep(o)
                     /\ calActive' = FALSE /\ calPhase' = 0
                     /\ fault' = {}
                     /\ state' = "STARTING"
                ELSE FaultWith(o, {"CAN"})
  /\ UNCHANGED limitVars

\* A handler's progress: the frames it sent, and the calibration's new state.
Started == [sent |-> Now, active |-> calActive, phase |-> calPhase]

\* It ends well in state s, after the frames of o.
Go(o, s, c) ==
  /\ Keep(o)
  /\ state' = s
  /\ calActive' = c.active /\ calPhase' = c.phase

\* Faulty: a failed frame is reported and otherwise ignored.
StepReportsOnly(o, s, c) ==
  Go(o, s, c) /\ fault' = IF o.ok THEN fault ELSE fault \cup {"CAN"}

Step(o, s, c) ==
  IF o.ok THEN Go(o, s, c) /\ UNCHANGED fault ELSE EnterFault(o, "CAN")

\* Faulty: the place to return to is not checked against the limits.
CanReturnAnywhere(fb, t) == fb.fresh = Axis /\ startup.valid

CanReturn(fb, t) == fb.fresh = Axis /\ startup.valid /\ TargetValid(t)

\* The controlled shutdown begins: hold yaw, take pitch back where it started.
\* bits are those of g_telemetry.fault, m whether a deadline was running.
BeginReturn(fb, c, bits, m) ==
  LET t == [a \in Axis |-> IF a = "yaw" THEN fb.pos[a] ELSE startup.pitch]
  IN  IF ~CanReturn(fb, t)
        THEN /\ StopAtOnce(c.sent)
             /\ fault' = bits
             /\ moving' = m
             /\ UNCHANGED <<target, returnSettle>>
        ELSE /\ target' = t
             /\ returnSettle' = 0
             /\ moving' = TRUE
             /\ \E o \in Sent(c.sent.drive, c.sent.lost, Goto(t)) :
                  IF o.ok THEN Go(o, "RETURNING", c) /\ fault' = bits
                          ELSE FaultWith(o, bits \cup {"CAN"})

\* Faulty: a second request during the torque ramp starts the return again.
ReturnableAgain == {"STARTING", "HOMING", "ACTIVE", "STOPPING"}

\* The states in which disable begins the controlled shutdown.
Returnable == {"STARTING", "HOMING", "ACTIVE"}

\* gimbal_control_disable
Disable(fb) ==
  \/ /\ state = "DISABLED"
     /\ \E o \in CalibrationStopped : Keep(o)
     /\ calActive' = FALSE /\ calPhase' = 0
     /\ UNCHANGED <<state, fault, seen, motion, limitVars>>
  \/ /\ state = "FAULT"
     /\ StopAtOnce(Now)
     /\ UNCHANGED <<fault, seen, motion, limitVars>>
  \/ /\ state \in Returnable
     /\ seen' = fb.fresh
     /\ BeginReturn(fb, Started, fault, moving)
     /\ UNCHANGED <<startup, returnTorque, stopTorque, startPhase, homeSettle, streaming, limitVars>>

\* gimbal_control_emergency_stop, gimbal_control_shutdown
EmergencyStop ==
  /\ StopAtOnce(Now)
  /\ UNCHANGED <<fault, seen, motion, limitVars>>

\* gimbal_control_set_target
SetTarget(t, timed) ==
  /\ state = "ACTIVE"
  /\ TargetValid(t)
  /\ \E o \in Sent(drive, lost, Goto(t)) :
       IF o.ok
         THEN /\ Keep(o)
              /\ target' = t
              /\ streaming' = timed
              /\ moving' = TRUE
              /\ UNCHANGED <<state, fault, calVars>>
         ELSE EnterFault(o, "CAN") /\ UNCHANGED <<target, streaming, moving>>
  /\ UNCHANGED <<seen, startup, returnTorque, stopTorque, startPhase, homeSettle,
                 returnSettle, limitVars>>

\* The limits after side s of axis a is set to p.
Marked(a, s, p) ==
  IF s = "min" THEN [limits EXCEPT !.min[a] = p] ELSE [limits EXCEPT !.max[a] = p]

\* gimbal_control_calibrate_limit: the current position becomes a limit; the
\* last of the four ends the calibration.
CalibrateLimit(fb, a, s) ==
  /\ state \in Stopped
  /\ seen' = fb.fresh
  /\ UNCHANGED <<motion, staleLimits>>
  /\ IF a \notin fb.fresh THEN WakeFeedback /\ UNCHANGED <<limits, marked>>
     ELSE LET p == fb.pos[a]
              l == Marked(a, s, p)
              m == marked \cup {<<a, s>>}
              refused == \/ s = "min" /\ p >= 0
                         \/ s = "max" /\ p <= 0
                         \/ Abs(p) > MaxAbsLimit
                         \/ m = Axis \X Side /\ ~LimitsValid(l, m)
          IN  IF refused THEN UNCHANGED <<state, fault, limits, marked, calVars, canVars>>
              ELSE
                /\ limits' = l /\ marked' = m
                /\ IF m # Axis \X Side
                     THEN fault' = fault \ {"LIMIT_CONFIG"} /\ UNCHANGED <<state, calVars, canVars>>
                     ELSE \E o \in CalibrationStopped :
                       IF o.ok
                         THEN /\ Keep(o)
                              /\ calActive' = FALSE /\ calPhase' = 0
                              /\ fault' = fault \ {"LIMIT_CONFIG"}
                              /\ UNCHANGED state
                         ELSE FaultWith(o, (fault \ {"LIMIT_CONFIG"}) \cup {"CAN"})

\* gimbal_control_set_limits
SetLimits(l) ==
  /\ state \in Stopped
  /\ RangeOK(l)
  /\ \E o \in CalibrationStopped :
       IF o.ok
         THEN /\ Keep(o)
              /\ limits' = l /\ marked' = Axis \X Side
              /\ staleLimits' = FALSE
              /\ fault' = fault \ {"LIMIT_CONFIG"}
              /\ calActive' = FALSE /\ calPhase' = 0
              /\ UNCHANGED state
         ELSE EnterFault(o, "CAN") /\ UNCHANGED limitVars
  /\ UNCHANGED <<seen, motion>>

\* gimbal_control_reset_limits
ResetLimits ==
  /\ state \in Stopped
  /\ limits' = NoLimits /\ marked' = {} /\ staleLimits' = FALSE
  /\ fault' = {"LIMIT_CONFIG"}
  /\ UNCHANGED <<state, seen, motion, calVars, canVars>>

\* Faulty: the limits outlive the origin they were measured from.
SetOriginOnly ==
  /\ StopAtOnce(Now)
  /\ staleLimits' = (marked # {})
  /\ UNCHANGED <<fault, limits, marked, seen, motion>>

\* CMD_CAN_SET_ORIGIN for a gimbal motor: stop, forget the limits, move the origin.
\* The origin frame itself may be lost too; the drive keeps its last command.
SetOrigin ==
  /\ StopAtOnce(Now)
  /\ limits' = NoLimits /\ marked' = {}
  /\ staleLimits' = (marked' # {})
  /\ fault' = {"LIMIT_CONFIG"}
  /\ UNCHANGED <<seen, motion>>

-----------------------------------------------------------------------------
(* gimbal_control_poll *)

\* Its first part: the calibration's feedback is kept alive, or ends unused.
CalibrationPolled(late) ==
  IF ~calActive \/ late \cap {"calStep", "calIdle"} = {} THEN {Started}
  ELSE IF "calIdle" \in late
    THEN {[sent |-> [i EXCEPT !.ok = TRUE], active |-> FALSE, phase |-> 0]
            : i \in Idled(drive, lost)}
  ELSE {[sent |-> o, active |-> TRUE, phase |-> 1]
          : o \in IF calPhase = 0
                    THEN UNION {ThenSent(e, Both("torque")) : e \in Sent(drive, lost, Both("enable"))}
                    ELSE Sent(drive, lost, Both("torque"))}

\* The position command is repeated when its refresh is due.
Refreshed(late, c, t) ==
  IF "refresh" \in late THEN Sent(c.sent.drive, c.sent.lost, Goto(t)) ELSE {c.sent}

Near(x, y) == Abs(x - y) <= Tolerance

\* slow: both axes turn no faster than GIMBAL_HOME_SPEED_TOLERANCE_RPM.

PollStarting(late, c) ==
  /\ IF "step" \notin late THEN Step(c.sent, "STARTING", c) /\ UNCHANGED startPhase
     ELSE IF startPhase = 0
       THEN \E o \in Sent(c.sent.drive, c.sent.lost, Both("enable")) :
              Step(o, "STARTING", c) /\ startPhase' = IF o.ok THEN 1 ELSE 0
       ELSE \E o \in Sent(c.sent.drive, c.sent.lost, Goto(Home)) :
              Step(o, "HOMING", c) /\ UNCHANGED startPhase
  /\ UNCHANGED <<target, startup, returnTorque, stopTorque, homeSettle, returnSettle,
                 moving, streaming>>

\* Faulty: homing has no time limit.
NeverTooLong(late) == FALSE

HomingTooLong(late) == "step" \in late

PollHoming(fb, late, c) ==
  /\ \E o \in Refreshed(late, c, Home), slow \in BOOLEAN :
       IF ~o.ok THEN EnterFault(o, "CAN") /\ UNCHANGED <<homeSettle, moving>>
       ELSE LET home == slow /\ \A a \in Axis : Near(fb.pos[a], 0)
                n == IF home THEN homeSettle + 1 ELSE 0
            IN  /\ homeSettle' = n
                /\ moving' = (moving /\ n < SettleSamples)
                /\ IF HomingTooLong(late) THEN EnterFault(o, "HOME_TIMEOUT")
                   ELSE /\ Go(o, IF n >= SettleSamples THEN "ACTIVE" ELSE "HOMING", c)
                        /\ UNCHANGED fault
  /\ UNCHANGED <<target, startup, returnTorque, stopTorque, startPhase, returnSettle, streaming>>

PollReturning(fb, late, c) ==
  /\ \E o \in Refreshed(late, c, target), slow \in BOOLEAN :
       IF ~o.ok THEN EnterFault(o, "CAN") /\ UNCHANGED <<target, stopTorque, returnSettle, moving>>
       ELSE LET back == slow /\ Near(fb.pos["pitch"], startup.pitch)
                n == IF back THEN returnSettle + 1 ELSE 0
            IN  /\ returnSettle' = n
                /\ IF n >= SettleSamples
                     THEN /\ target' = fb.pos
                          /\ stopTorque' = returnTorque
                          /\ moving' = FALSE
                          /\ \E p \in Sent(o.drive, o.lost, Goto(fb.pos)) : Step(p, "STOPPING", c)
                     ELSE /\ IF "deadline" \in late THEN EnterFault(o, "MOTION_TIMEOUT")
                                                    ELSE Step(o, "RETURNING", c)
                          /\ UNCHANGED <<target, stopTorque, moving>>
  /\ UNCHANGED <<startup, returnTorque, startPhase, homeSettle, streaming>>

RampIsOver == stopTorque <= TorqueStep

PollStopping(late, c) ==
  /\ IF "stop" \notin late THEN Step(c.sent, "STOPPING", c) /\ UNCHANGED stopTorque
     ELSE IF RampIsOver
       THEN /\ stopTorque' = 0
            /\ \E i \in Idled(c.sent.drive, c.sent.lost) : Step(i, "DISABLED", c)
       ELSE /\ stopTorque' = stopTorque - TorqueStep
            /\ \E o \in Sent(c.sent.drive, c.sent.lost, Goto(target)) : Step(o, "STOPPING", c)
  /\ UNCHANGED <<target, startup, returnTorque, startPhase, homeSettle, returnSettle,
                 moving, streaming>>

\* gimbal_control_disable, called at the end, looks at the feedback once more: it
\* can only have aged.
PollActive(fb, late, c) ==
  /\ \E o \in Refreshed(late, c, target) :
       LET arrived == \A a \in Axis : Near(fb.pos[a], target[a])
           after == [c EXCEPT !.sent = o]
       IN  IF ~o.ok \/ (moving /\ ~arrived /\ "deadline" \in late)
             THEN /\ EnterFault(o, IF o.ok THEN "MOTION_TIMEOUT" ELSE "CAN")
                  /\ seen' = fb.fresh
                  /\ UNCHANGED <<target, returnSettle, moving>>
           ELSE IF "command" \in late
             THEN \E now \in SUBSET fb.fresh :
                    /\ seen' = now
                    /\ BeginReturn([fb EXCEPT !.fresh = now], after,
                                   fault \cup {"COMMAND_TIMEOUT"}, moving /\ ~arrived)
           ELSE /\ Step(o, "ACTIVE", c)
                /\ seen' = fb.fresh
                /\ moving' = (moving /\ ~arrived)
                /\ UNCHANGED <<target, returnSettle>>
  /\ UNCHANGED <<startup, returnTorque, stopTorque, startPhase, homeSettle, streaming>>

\* What poll does in a state in which the drives are commanded.
PollMotion(fb, late, c) ==
  IF fb.fresh # Axis
    THEN FaultWith(c.sent, fault \cup {IF a = "yaw" THEN "YAW_FEEDBACK" ELSE "PITCH_FEEDBACK"
                                         : a \in Axis \ fb.fresh})
         /\ UNCHANGED motion /\ seen' = fb.fresh
  ELSE IF Exceeded(fb.pos)
    THEN EnterFault(c.sent, "LIMIT_EXCEEDED") /\ UNCHANGED motion /\ seen' = fb.fresh
  ELSE \/ state = "STARTING" /\ PollStarting(late, c) /\ seen' = fb.fresh
       \/ state = "HOMING" /\ PollHoming(fb, late, c) /\ seen' = fb.fresh
       \/ state = "RETURNING" /\ PollReturning(fb, late, c) /\ seen' = fb.fresh
       \/ state = "STOPPING" /\ PollStopping(late, c) /\ seen' = fb.fresh
       \/ state = "ACTIVE" /\ PollActive(fb, late, c)

Poll(fb, late) ==
  /\ \E c \in CalibrationPolled(late) :
       IF ~c.sent.ok THEN EnterFault(c.sent, "CAN") /\ UNCHANGED motion /\ seen' = fb.fresh
       ELSE IF state \in Stopped
         THEN Step(c.sent, state, c) /\ UNCHANGED motion /\ seen' = fb.fresh
       ELSE PollMotion(fb, late, c)
  /\ UNCHANGED limitVars

-----------------------------------------------------------------------------
Next ==
  \/ EnableWithoutLimits \/ EmergencyStop \/ ResetLimits \/ SetOrigin
  \/ \E fb \in Feedback :
       \/ \E q \in Torques : Enable(fb, q)
       \/ Disable(fb)
       \/ \E a \in Axis, s \in Side : CalibrateLimit(fb, a, s)
       \/ \E late \in SUBSET Delays : Poll(fb, late)
  \/ \E t \in Targets, timed \in BOOLEAN : SetTarget(t, timed)
  \/ \E l \in LimitRequests : SetLimits(l)

Spec == Init /\ [][Next]_vars

\* slave_app_poll is called without end, and time passes: when the controller
\* stays in one state long enough a poll finds every delay over.
FairSpec == Spec /\ WF_vars(\E fb \in Feedback : Poll(fb, Delays))

-----------------------------------------------------------------------------
(* Properties *)

Drives(c) == \A a \in Axis : drive[a].cmd \in c

\* The gimbal is commanded only inside limits that were set for the present
\* origin, and on feedback the controller itself found recent.
MotionIsInformed ==
  state \notin Stopped => LimitsValid(limits, marked) /\ ~staleLimits /\ seen = Axis

\* No drive is told to leave the limits, whichever commands came before: limits
\* marked anew, targets given earlier, a startup position outside them.  Only the
\* final hold may be where the axis had overshot to.
GoalsInLimits ==
  state \notin Stopped => \A a \in Axis : drive[a].cmd = "position" =>
    LET slack == IF state = "STOPPING" THEN Overshoot ELSE 0
    IN  limits.min[a] - slack <= drive[a].goal /\ drive[a].goal <= limits.max[a] + slack

\* Waking the drives for calibration never moves them: no position command is in
\* force, whatever state the gimbal was stopped from.
CalibrationIsLimp ==
  calActive => state \in Stopped /\ Drives(Commands \ {"position"})

\* When the gimbal has stopped both drives are idle, provided no frame was lost or
\* the loss is the one the CAN fault reports: enter_fault's own frames follow it.
StoppedIsIdle ==
  state \in Stopped /\ ~calActive /\ (lost = 0 \/ (lost = 1 /\ "CAN" \in fault /\ state = "FAULT"))
    => Drives({"idle"})

\* A running gimbal has no fault bit but that of its own command timeout, which
\* is there only on the way to a stop.
FaultsAreHonoured ==
  state \notin Stopped =>
    fault \subseteq (IF state \in {"RETURNING", "STOPPING"} THEN {"COMMAND_TIMEOUT"} ELSE {})

\* A controlled shutdown is not called off, and no fault or stop is left but by
\* enable, which sends the gimbal home first.
NoWayBack ==
  /\ state \in {"RETURNING", "STOPPING"} => state' \in {"RETURNING", "STOPPING"} \cup Stopped
  /\ state = "STOPPING" => state' # "RETURNING"
  /\ state \in Stopped => state' \in Stopped \cup {"STARTING"}

ShutdownIsFinal == [][NoWayBack]_vars

\* No transition state lasts: homing, returning and the torque ramp end by
\* success, fault or stop, whatever the drives report.
TransitionsEnd ==
  state \in {"STARTING", "HOMING", "RETURNING", "STOPPING"} ~> state \in Stopped \cup {"ACTIVE"}

\* A faulted gimbal stops holding and moving sooner or later, or somebody intervenes.
FaultStopsDrives ==
  state = "FAULT" ~> state # "FAULT" \/ calActive \/ Drives(Commands \ {"position"})
=============================================================================
