------------------------- MODULE BalanceController -------------------------
(***************************************************************************)
(* remote_firmware/balance_controller.c: the 100 Hz balance controller of  *)
(* the slave core and its two wheel drives.  Commands and polls run to     *)
(* their end in the firmware's one loop, so each is one step; SlaveApp     *)
(* composes them with the legs and with the commands that reach the wheels *)
(* behind the controller's back.                                           *)
(*                                                                         *)
(* Time is a set of delays that have run out, an input of every poll.  The *)
(* body is an input too: what the sensors say is any of Qualities, and any *)
(* of the drives may report.  The LQR law is not modelled, only that it    *)
(* sends some torque; its enable flag follows the state.  What caused a    *)
(* fault is only told to clients and left out.  Frames may be lost, as in  *)
(* GimbalController.                                                       *)
(***************************************************************************)
EXTENDS Integers, FiniteSets

CONSTANTS
  Speeds,     \* speeds clients command, of each component of the motion
  AccelStep,  \* how far the applied speed moves towards the commanded one in a period
  MaxLost     \* bound: CAN frames that are lost

ASSUME SpeedAssumption == Speeds \subseteq Int /\ 0 \in Speeds /\ AccelStep \in Nat \ {0}
ASSUME LossAssumption == MaxLost \in Nat

Wheel == {"left", "right"}
Component == {"linear", "angular"}

VARIABLES
  initialized, \* g_initialized
  balance,     \* g_telemetry.state
  goal,        \* g_motion.target_linear_m_s, target_angular_rad_s
  applied,     \* g_motion.applied_linear_m_s, applied_angular_rad_s
  commanded,   \* g_motion_command_valid
  trackKnown,  \* g_motion.wheel_track_m was set
  feedback,    \* the last report of each wheel drive: none, one from before this
               \* arming run, or a new one
  left,        \* while balancing: drives with replies of before this arming run still
               \* in the CAN FIFO
  drive,       \* what the last command each wheel drive took makes of it
  lost,        \* frames lost so far
  meddled      \* since the controller last stopped the drives in full, they were
               \* commanded by others

motion == <<goal, applied, commanded>>
balanceVars == <<initialized, balance, motion, trackKnown, feedback, left, drive, lost,
                 meddled>>

Balancing == {"ARMING", "ACTIVE"}
BalanceStates == Balancing \cup {"DISABLED", "FAULT"}

\* What the sensors say of the body: within the limits for arming, beyond them, or
\* fallen over or on wheels that turn too fast; or a drive's last report is not fresh.
Qualities == {"level", "tilted", "fallen", "silent"}

\* The delays poll finds over: the control period, two more of them, the time to
\* arm, the life of a motion command.
BalanceDelays ==
  {"period"} \cup (IF balance = "ACTIVE" THEN {"overrun"} ELSE {})
             \cup (IF balance = "ARMING" THEN {"arm"} ELSE {})
             \cup (IF commanded THEN {"command"} ELSE {})

\* Every frame but idle (mode, enable, torque, position, safe stop) leaves a drive
\* awake, or makes it so: it may turn.
Commands == {"idle", "awake"}
Rest == [c \in Component |-> 0]
Reports == {"none", "old", "new"}
Nothing == [w \in Wheel |-> "none"]
Both(c) == [w \in Wheel |-> c]
To(w, c) == [x \in {w} |-> c]

BalanceTypeOK ==
  /\ initialized \in BOOLEAN /\ commanded \in BOOLEAN /\ trackKnown \in BOOLEAN
  /\ balance \in BalanceStates
  /\ goal \in [Component -> Speeds]
  /\ \A c \in Component : \E s, t \in Speeds : s <= applied[c] /\ applied[c] <= t
  /\ feedback \in [Wheel -> Reports]
  /\ left \in SUBSET Wheel
  /\ drive \in [Wheel -> Commands]
  /\ lost \in 0..MaxLost
  /\ meddled \in BOOLEAN

\* balance_control_init: the CAN controller or the IMU may not come up; the
\* firmware runs on without balance.
BalanceInit ==
  /\ initialized \in BOOLEAN
  /\ balance = IF initialized THEN "DISABLED" ELSE "FAULT"
  /\ goal = Rest /\ applied = Rest /\ commanded = FALSE
  /\ trackKnown = FALSE
  /\ feedback = Nothing
  /\ left = {}
  /\ drive = Both("idle")
  /\ lost = 0
  /\ meddled = FALSE

-----------------------------------------------------------------------------
(* Frames: the outcomes of sending, as in GimbalController.                  *)

Now == [drive |-> drive, lost |-> lost, ok |-> TRUE]
Keep(o) == drive' = o.drive /\ lost' = o.lost

\* f gives some wheels a command; every frame is sent and any may be lost.
Tried(o, f) ==
  {[drive |-> [w \in Wheel |-> IF w \in DOMAIN f \ L THEN f[w] ELSE o.drive[w]],
    lost |-> o.lost + Cardinality(L),
    ok |-> o.ok /\ L = {}]
     : L \in {L \in SUBSET DOMAIN f : o.lost + Cardinality(L) <= MaxLost}}

\* After any of the outcomes O; after those of them without a loss.
Also(O, f) == UNION {Tried(o, f) : o \in O}
IfOk(O, f) == UNION {IF o.ok THEN Tried(o, f) ELSE {o} : o \in O}

\* stop_motors(1): zero torque, then idle, whatever happens to the frames; ok says
\* whether these were all sent.
StopMotors(o) == Also(Tried([o EXCEPT !.ok = TRUE], Both("awake")), Both("idle"))

-----------------------------------------------------------------------------
(* Faults, enable and disable *)

\* Faulty: the controller stops, its motion command does not.
MotionKept == UNCHANGED motion

\* clear_motion_command
MotionCleared == goal' = Rest /\ applied' = Rest /\ commanded' = FALSE

\* Faulty: the fault is latched, the drives keep their last torque.
FaultWithoutStop(o) ==
  /\ balance' = "FAULT" /\ left' = {}
  /\ MotionCleared
  /\ Keep(o)
  /\ meddled' = FALSE

\* enter_fault, after the frames of o
EnterFault(o) ==
  /\ balance' = "FAULT" /\ left' = {}
  /\ MotionCleared
  /\ \E s \in StopMotors(o) : Keep(s) /\ meddled' = ~s.ok

\* Faulty: reports from before count as well.
ArmingFeedbackKept == [w \in Wheel |-> IF feedback[w] = "none" THEN "none" ELSE "old"]

\* "Drain old replies, then require feedback generated by this arming run."  The drain
\* takes sixteen frames; replies behind those stay in the FIFO.
ArmingFeedback == Nothing

\* balance_control_enable_serviced: calibrate the IMU, then mode, enable and zero
\* torque to both drives.  It is refused while balancing.
BalanceEnable ==
  IF ~initialized \/ balance \in Balancing THEN UNCHANGED balanceVars
  ELSE
    /\ UNCHANGED <<initialized, trackKnown>>
    /\ \/ EnterFault(Now) /\ UNCHANGED feedback
       \/ /\ feedback' = ArmingFeedback
          /\ \E o \in Also(Also(Tried(Now, Both("awake")), Both("awake")), Both("awake")) :
               IF o.ok
                 THEN /\ Keep(o)
                      /\ balance' = "ARMING" /\ left' \in SUBSET Wheel
                      /\ MotionCleared
                      /\ meddled' = FALSE
                 ELSE EnterFault(o)

\* balance_control_disable
BalanceDisable ==
  IF ~initialized THEN UNCHANGED balanceVars
  ELSE /\ \E s \in StopMotors(Now) : Keep(s) /\ meddled' = ~s.ok
       /\ balance' = "DISABLED" /\ left' = {}
       /\ MotionCleared
       /\ UNCHANGED <<initialized, trackKnown, feedback>>

\* balance_control_set_motion_command; turning needs the distance of the wheels.
SetMotionCommand(v) ==
  /\ balance = "ACTIVE"
  /\ v["angular"] # 0 => trackKnown
  /\ goal' = v
  /\ commanded' = TRUE
  /\ UNCHANGED <<initialized, balance, applied, trackKnown, feedback, left,
                 drive, lost, meddled>>

\* balance_control_set_wheel_track
SetWheelTrack ==
  /\ balance \notin Balancing
  /\ trackKnown' = TRUE
  /\ UNCHANGED <<initialized, balance, motion, feedback, left, drive, lost, meddled>>

-----------------------------------------------------------------------------
(* balance_control_poll *)

\* Drives of which a reply of before may be read still: nothing newer was read of them.
Unread == {w \in left : feedback[w] # "new"}

\* What phytium_can_poll, which reads the FIFO in its order and stamps what it reads,
\* makes of the table.
Received ==
  {table \in [Wheel -> Reports] :
     \A w \in Wheel : table[w] \in {feedback[w], "new"} \cup (IF w \in Unread THEN {"old"} ELSE {})}

\* read_lqr_sensor: a drive has not reported, or not recently enough.  (The IMU sample
\* was taken in this very poll.)
Missing(quality) == quality = "silent" \/ \E w \in Wheel : feedback'[w] = "none"

\* Zero torque keeps the drives reporting; a lost frame is sent again next time.
PollArming(late, quality) ==
  \E o \in Tried(Now, Both("awake")) :
    IF Missing(quality)
      THEN IF "arm" \in late
             THEN EnterFault(o)
             ELSE Keep(o) /\ UNCHANGED <<balance, left, motion, meddled>>
    ELSE IF quality # "level" THEN EnterFault(o)
    ELSE /\ balance' = "ACTIVE"
         /\ Keep(o)
         /\ UNCHANGED <<left, motion, meddled>>

\* Faulty: a commanded speed holds until the next command.
NeverExpired(late) == FALSE

CommandExpired(late) == commanded /\ "command" \in late

\* approach
Approach(x, y) ==
  IF y - x > AccelStep THEN x + AccelStep
  ELSE IF y - x < -AccelStep THEN x - AccelStep ELSE y

PollActive(late, quality) ==
  LET g == IF CommandExpired(late) THEN Rest ELSE goal
  IN  IF Missing(quality) \/ quality = "fallen" THEN EnterFault(Now)
      ELSE \E o \in IfOk(Tried(Now, To("left", "awake")), To("right", "awake")) :
             IF o.ok
               THEN /\ Keep(o)
                    /\ goal' = g
                    /\ commanded' = (commanded /\ ~CommandExpired(late))
                    /\ applied' = [c \in Component |-> Approach(applied[c], g[c])]
                    /\ UNCHANGED <<balance, left, meddled>>
               ELSE EnterFault(o)

\* A period's work: phytium_bmi088_update may fail, then phytium_can_bus_ok.
Period(late) ==
  IF balance = "ACTIVE" /\ "overrun" \in late THEN EnterFault(Now)
  ELSE \/ IF balance = "ACTIVE" THEN EnterFault(Now)
          ELSE UNCHANGED <<balance, left, motion, drive, lost, meddled>>
       \/ balance \in Balancing /\ EnterFault(Now)
       \/ \E quality \in Qualities :
            \/ balance = "ARMING" /\ PollArming(late, quality)
            \/ balance = "ACTIVE" /\ PollActive(late, quality)

BalancePoll(late) ==
  IF ~initialized THEN UNCHANGED balanceVars
  ELSE /\ feedback' \in Received
       /\ UNCHANGED <<initialized, trackKnown>>
       /\ IF "period" \in late
            THEN Period(late)
            ELSE UNCHANGED <<balance, left, motion, drive, lost, meddled>>
=============================================================================
