------------------------------ MODULE SlaveApp ------------------------------
(***************************************************************************)
(* remote_firmware/slave_app.c: the commands of the chassis, and the poll  *)
(* that runs the balance controller and the legs.  Each command and each   *)
(* poll is one step of the firmware's loop.  The gimbal shares the loop    *)
(* and the bus with them but no state; GimbalController models it.  A      *)
(* command that is refused or only read changes nothing and is no step.    *)
(***************************************************************************)
EXTENDS BalanceController, ServoMotion

VARIABLE round \* the parity of the polls: a poll is a step though it changes nothing else

vars == <<balanceVars, servoVars, round>>

TypeOK == BalanceTypeOK /\ ServoTypeOK /\ round \in {0, 1}

Init == BalanceInit /\ ServoInit /\ round = 0

-----------------------------------------------------------------------------
(* Balance and motion commands *)

\* Faulty: the legs are left as they are.
EnableCommandOnly == BalanceEnable /\ UNCHANGED servoVars

\* CMD_BALANCE_ENABLE: the legs are released first, even if enable is refused.
EnableCommand == StopLegs /\ BalanceEnable

\* CMD_BALANCE_DISABLE, and slave_app_shutdown
DisableCommand == BalanceDisable /\ UNCHANGED servoVars

\* CMD_CHASSIS_SET_VELOCITY
VelocityCommand(v) == SetMotionCommand(v) /\ UNCHANGED servoVars

\* CMD_CHASSIS_SET_TRACK_WIDTH
TrackCommand == SetWheelTrack /\ UNCHANGED servoVars

-----------------------------------------------------------------------------
(* Commands to single wheel drives, whatever the balance controller does *)

Sends(O) ==
  /\ \E o \in O : Keep(o)
  /\ meddled' = TRUE
  /\ UNCHANGED <<initialized, balance, motion, trackKnown, feedback, left, servoVars>>

\* CMD_CAN_ENABLE, CMD_CAN_SET_MODE, CMD_CAN_PVT and CMD_CAN_SAFE_STOP
WheelCommand(w) == Sends(Tried(Now, To(w, "awake")))

\* CMD_CAN_INIT_MOTOR: mode, then enable
InitWheel(w) == Sends(IfOk(Tried(Now, To(w, "awake")), To(w, "awake")))

\* CMD_MOTOR_TEST: mode and enable for both drives in handle_motor_init_all, which
\* ends at a loss; then each is sent a position.
MotorTest ==
  LET woken == IfOk(IfOk(IfOk(Tried(Now, To("left", "awake")), To("right", "awake")),
                         To("left", "awake")), To("right", "awake"))
  IN  Sends({o \in woken : ~o.ok} \cup
            Also(Also({o \in woken : o.ok}, To("left", "awake")), To("right", "awake")))

\* CMD_CAN_TORQUE_TEST and CMD_CAN_SPEED_DIAG (which forgets the drive's report):
\* balancing is switched off; one drive is sent mode and enable, run for a while,
\* zeroed and idled.
TorqueTest(w, diagnosis) ==
  /\ balance \notin Balancing
  /\ \E s \in IF initialized THEN StopMotors(Now) ELSE {[Now EXCEPT !.ok = ~meddled]} :
       LET woken == IfOk(Tried([s EXCEPT !.ok = TRUE], To(w, "awake")), To(w, "awake"))
           run == Also(Also(Also({o \in woken : o.ok}, To(w, "awake")), To(w, "awake")), To(w, "idle"))
       IN  \E o \in {o \in woken : ~o.ok} \cup run : Keep(o) /\ meddled' = ~(s.ok /\ o.ok)
  /\ balance' = IF initialized THEN "DISABLED" ELSE balance
  /\ \E table \in Received :
       feedback' \in IF diagnosis THEN {[table EXCEPT ![w] = r] : r \in {"none", "new"}} ELSE {table}
  /\ UNCHANGED <<initialized, left, motion, trackKnown, servoVars>>

-----------------------------------------------------------------------------
(* Leg and servo commands: only while balancing is off *)

LegsAllowed == balance = "DISABLED"

\* CMD_LEG_ENABLE and CMD_SERVO_CENTER
LegEnable ==
  LegsAllowed /\ EnableAtTarget(Port, SafeReference) /\ UNCHANGED balanceVars

\* CMD_SERVO_SET4
ServoSet(pose) ==
  LegsAllowed /\ EnableAtTarget(Port, pose) /\ UNCHANGED balanceVars

\* CMD_SERVO_POLARITY: the port is to be initialised again, with the new polarity.
ServoPolarity ==
  /\ LegsAllowed
  /\ EnableAtTarget([Port EXCEPT !.ready = FALSE], SafeReference)
  /\ UNCHANGED balanceVars

\* Faulty: leg poses are taken as they are.
LegPoseUnchecked(pose) == TRUE

LegPoseAccepted(pose) == LegAnglesAreSafe(pose)

\* CMD_LEG_MOVE4
LegMove(pose) ==
  /\ LegPoseAccepted(pose) /\ LegsAllowed
  /\ StartMotion(pose)
  /\ UNCHANGED <<raw, balanceVars>>

\* CMD_SERVO_MOVE4
ServoMove(pose) ==
  /\ LegsAllowed
  /\ StartMotion(pose)
  /\ raw' = TRUE
  /\ UNCHANGED balanceVars

\* CMD_SERVO_TEST_ONE
ServoTest(i, angle) == LegsAllowed /\ TestOne(i, angle) /\ UNCHANGED balanceVars

\* CMD_SERVO_STOP
ServoStop == StopLegs /\ UNCHANGED balanceVars

-----------------------------------------------------------------------------
\* slave_app_poll: the legs wait while the robot balances.
SlavePoll(late) ==
  /\ BalancePoll(late)
  /\ IF balance' = "ACTIVE" THEN UNCHANGED servoVars ELSE ServoPoll(late)
  /\ round' = 1 - round

Delays == BalanceDelays \cup (IF legs \in Busy \cup {"TESTING"} THEN {"legs"} ELSE {})

\* Those of balance count when its period is over.
Lates == {late \in SUBSET Delays : "period" \in late \/ late \subseteq {"legs"}}

Command ==
  \/ EnableCommand \/ DisableCommand \/ TrackCommand
  \/ \E v \in [Component -> Speeds] : VelocityCommand(v)
  \/ \E w \in Wheel : WheelCommand(w) \/ InitWheel(w)
  \/ \E w \in Wheel, diagnosis \in BOOLEAN : TorqueTest(w, diagnosis)
  \/ MotorTest \/ LegEnable \/ ServoPolarity \/ ServoStop
  \/ \E pose \in LegPoses : LegMove(pose)
  \/ \E pose \in RawPoses : ServoSet(pose) \/ ServoMove(pose)
  \/ \E pose \in RawPoses, i \in Servo : ServoTest(i, pose[i])

Next ==
  \/ Command /\ UNCHANGED round
  \/ \E late \in Lates : SlavePoll(late)

Spec == Init /\ [][Next]_vars

\* The firmware's loop polls without end, and the delays of a state that lasts
\* run out.  Nothing is asked of what a poll finds, nor that one is missed.
FairSpec ==
  Spec /\ WF_vars(SlavePoll(Delays \ {"overrun"}))

-----------------------------------------------------------------------------
(* Properties *)

\* However balancing ended, also when some of the frames of an enable were sent and
\* others lost, and whatever was enabled or tested since, both wheels are idle while it
\* is off or faulted, unless a frame of the last stop was lost or a client commanded
\* them itself.
WheelsAreIdle == balance \notin Balancing /\ ~meddled => drive = Both("idle")

\* Balancing starts, and goes on, only on what both drives reported since this enable,
\* replies aside that were behind sixteen frames in the FIFO when it was drained.
ArmedOnNewFeedback == balance = "ACTIVE" => \A w \in Wheel \ left : feedback[w] = "new"

\* No commanded speed outlives the run it was given in: however balancing ended,
\* and whatever starts it again, the robot stands still until a new command.
NoForgottenMotion ==
  balance # "ACTIVE" => goal = Rest /\ applied = Rest /\ ~commanded

\* The legs are released before the wheels are woken and stay so until balancing is off.
LegsOffWhileBalancing == balance # "DISABLED" => legs = "UNARMED"

\* Once the legs took their reference, leg commands alone never drive a servo out
\* of its range, whatever fails or is stopped and resumed on the way.
LegsInRange ==
  ~raw => \A i \in powered : SafeMin[i] <= duty[i] /\ duty[i] <= SafeMax[i]

\* No client gives a new speed in this step.
Silent == commanded' => commanded /\ goal' = goal

\* When the clients fall silent (a node, the broker or Linux is gone) the robot
\* comes to rest by itself and stays at rest.
CommandsExpire == <>[][Silent]_vars => <>[](applied = Rest)

\* A movement of the legs ends, though balancing suspends their poll.
LegsSettle == legs \in Busy \cup {"TESTING"} ~> legs \notin Busy \cup {"TESTING"}

\* SERVO_STOP switches the servos off.
StoppedLegsAreLimp == legs = "UNARMED" => powered = {}

\* Waiting for feedback ends.
ArmingEnds == balance = "ARMING" ~> balance # "ARMING"
=============================================================================
