--------------------------- MODULE SlaveApp_proof ---------------------------
(* Proofs about SlaveApp, for every value of its constants. *)
EXTENDS SlaveApp, ServoMotion_proof, FiniteSetTheorems, TLAPS

\* While the controller waits for reports and balances on them, those from before enable
\* are of drives whose replies the drain left in the FIFO.
OnlyNewReports == balance \in Balancing => \A w \in Wheel \ left : feedback[w] # "old"

IInv ==
  /\ balance \in BalanceStates
  /\ feedback \in [Wheel -> Reports]
  /\ left \in SUBSET Wheel
  /\ NoForgottenMotion
  /\ LegsOffWhileBalancing
  /\ OnlyNewReports
  /\ ArmedOnNewFeedback

-----------------------------------------------------------------------------
(* What the operations do to the state, the frames they send left aside *)

Standing == goal' = Rest /\ applied' = Rest /\ ~commanded'

\* enter_fault forgets the commanded motion.
LEMMA FaultStands ==
  ASSUME NEW o, EnterFault(o)
  PROVE  balance' = "FAULT" /\ left' = {} /\ Standing
BY DEF EnterFault, MotionCleared, Standing

\* enable is refused without a trace, or ends in a fault, or forgets all reports.
LEMMA EnableEffect ==
  ASSUME BalanceEnable
  PROVE  \/ UNCHANGED <<balance, motion, feedback, left>>
         \/ balance' = "FAULT" /\ left' = {} /\ Standing /\ feedback' \in {feedback, Nothing}
         \/ balance' = "ARMING" /\ left' \in SUBSET Wheel /\ Standing /\ feedback' = Nothing
BY FaultStands DEF BalanceEnable, balanceVars, ArmingFeedback, MotionCleared, Standing

\* A drive that has no report counts as missing, so that a poll that arms has reports
\* from both.
LEMMA ArmingEffect ==
  ASSUME NEW late, NEW quality, PollArming(late, quality)
  PROVE  \/ balance' = "FAULT" /\ left' = {} /\ Standing
         \/ UNCHANGED <<balance, left, motion>>
         \/ /\ balance' = "ACTIVE" /\ UNCHANGED <<left, motion>>
            /\ \A w \in Wheel : feedback'[w] # "none"
BY FaultStands DEF PollArming, Missing

LEMMA ActiveEffect ==
  ASSUME NEW late, NEW quality, PollActive(late, quality)
  PROVE  \/ balance' = "FAULT" /\ left' = {} /\ Standing
         \/ UNCHANGED <<balance, left>>
BY FaultStands DEF PollActive

\* A poll leaves a controller that is off or faulted alone.
LEMMA PollEffect ==
  ASSUME NEW late, BalancePoll(late)
  PROVE  /\ feedback' = feedback \/ feedback' \in Received
         /\ \/ UNCHANGED <<balance, left, motion>>
            \/ balance \in Balancing /\ balance' = "FAULT" /\ left' = {} /\ Standing
            \/ balance = "ACTIVE" /\ balance' = "ACTIVE" /\ left' = left
            \/ /\ balance = "ARMING" /\ balance' = "ACTIVE" /\ UNCHANGED <<left, motion>>
               /\ \A w \in Wheel : feedback'[w] # "none"
<1>1. CASE ~initialized
  BY <1>1 DEF BalancePoll, balanceVars
<1>2. CASE initialized /\ "period" \notin late
  BY <1>2 DEF BalancePoll
<1>3. CASE initialized /\ "period" \in late
  <2>1. feedback' \in Received
    BY <1>3 DEF BalancePoll
  <2>2. Period(late)
    BY <1>3 DEF BalancePoll
  <2> QED
    BY <2>1, <2>2, FaultStands, ArmingEffect, ActiveEffect DEF Period, Balancing
<1> QED BY <1>1, <1>2, <1>3

\* A poll moves no legs that are off.
LEMMA ServoPollEffect ==
  ASSUME NEW late, ServoPoll(late), legs = "UNARMED" PROVE legs' = "UNARMED"
BY DEF ServoPoll, Busy, servoVars

-----------------------------------------------------------------------------
LEMMA InitHolds == Init => IInv
BY DEF Init, BalanceInit, ServoInit, IInv, BalanceStates, Balancing, Nothing, Reports,
       NoForgottenMotion, LegsOffWhileBalancing, OnlyNewReports, ArmedOnNewFeedback

\* A step that changes neither the controller's state, motion and reports, nor
\* the legs unless balancing is off.
LEMMA Unrelated ==
  ASSUME IInv, UNCHANGED <<balance, motion, feedback, left>>, legs' = legs \/ balance = "DISABLED"
  PROVE  IInv'
BY DEF IInv, motion, NoForgottenMotion, LegsOffWhileBalancing, OnlyNewReports, ArmedOnNewFeedback

LEMMA StepHolds == IInv /\ [Next]_vars => IInv'
<1> SUFFICES ASSUME IInv, [Next]_vars PROVE IInv'
  OBVIOUS
<1> USE DEF NoForgottenMotion, LegsOffWhileBalancing, OnlyNewReports, ArmedOnNewFeedback
<1>1. CASE EnableCommand
  <2>1. legs' = "UNARMED"
    BY <1>1 DEF EnableCommand, StopLegs
  <2>2. CASE UNCHANGED <<balance, motion, feedback, left>>
    BY <2>1, <2>2 DEF IInv, motion
  <2>3. CASE balance' = "FAULT" /\ left' = {} /\ Standing /\ feedback' \in {feedback, Nothing}
    BY <2>1, <2>3 DEF IInv, Standing, Nothing, Reports, BalanceStates, Balancing
  <2>4. CASE balance' = "ARMING" /\ left' \in SUBSET Wheel /\ Standing /\ feedback' = Nothing
    BY <2>1, <2>4 DEF IInv, Standing, Nothing, Reports, BalanceStates, Balancing
  <2> QED BY <1>1, <2>2, <2>3, <2>4, EnableEffect DEF EnableCommand
<1>2. CASE DisableCommand
  <2>1. CASE ~initialized
    BY <1>2, <2>1, Unrelated DEF DisableCommand, BalanceDisable, balanceVars, servoVars
  <2>2. CASE initialized
    <3>1. balance' = "DISABLED" /\ left' = {} /\ Standing /\ feedback' = feedback
      BY <1>2, <2>2 DEF DisableCommand, BalanceDisable, MotionCleared, Standing
    <3> QED BY <3>1 DEF IInv, Standing, BalanceStates, Balancing
  <2> QED BY <2>1, <2>2
<1>3. CASE TrackCommand
  BY <1>3, Unrelated DEF TrackCommand, SetWheelTrack, servoVars
<1>4. ASSUME NEW v \in [Component -> Speeds], VelocityCommand(v) PROVE IInv'
  <2>1. balance = "ACTIVE" /\ UNCHANGED <<balance, feedback, left, legs>>
    BY <1>4 DEF VelocityCommand, SetMotionCommand, servoVars
  <2> QED BY <2>1 DEF IInv, Balancing
<1>5. ASSUME NEW w \in Wheel, WheelCommand(w) \/ InitWheel(w) PROVE IInv'
  BY <1>5, Unrelated DEF WheelCommand, InitWheel, Sends, servoVars
<1>6. CASE MotorTest
  BY <1>6, Unrelated DEF MotorTest, Sends, servoVars
<1>7. ASSUME NEW w \in Wheel, NEW diagnosis \in BOOLEAN, TorqueTest(w, diagnosis) PROVE IInv'
  <2>1. /\ balance \notin Balancing /\ balance' \in {balance, "DISABLED"}
        /\ UNCHANGED <<motion, left>> /\ legs' = legs
    BY <1>7 DEF TorqueTest, servoVars
  <2>2. PICK table \in Received :
          feedback' \in IF diagnosis THEN {[table EXCEPT ![w] = r] : r \in {"none", "new"}}
                                     ELSE {table}
    BY <1>7 DEF TorqueTest
  <2>3. table \in [Wheel -> Reports]
    BY DEF Received
  <2>4. feedback' \in [Wheel -> Reports]
    BY <2>2, <2>3 DEF Reports
  <2> QED BY <2>1, <2>4 DEF IInv, motion, BalanceStates, Balancing
<1>8. CASE LegEnable \/ ServoPolarity \/ ServoStop
  <2>1. UNCHANGED <<balance, motion, feedback, left>>
    BY <1>8 DEF LegEnable, ServoPolarity, ServoStop, balanceVars
  <2>2. CASE LegEnable \/ ServoPolarity
    BY <2>1, <2>2, Unrelated DEF LegEnable, ServoPolarity, LegsAllowed
  <2>3. CASE ServoStop
    <3>1. legs' = "UNARMED"
      BY <2>3 DEF ServoStop, StopLegs
    <3> QED BY <2>1, <3>1 DEF IInv, motion
  <2> QED BY <1>8, <2>2, <2>3
<1>9. ASSUME NEW pose, NEW i, LegMove(pose) \/ ServoSet(pose) \/ ServoMove(pose) \/ ServoTest(i, pose[i])
       PROVE IInv'
  BY <1>9, Unrelated DEF LegMove, ServoSet, ServoMove, ServoTest, LegsAllowed, balanceVars
<1>10. ASSUME NEW late, SlavePoll(late) PROVE IInv'
  <2>1. BalancePoll(late)
    BY <1>10 DEF SlavePoll
  <2>2. /\ feedback' \in [Wheel -> Reports]
        /\ \A w \in Wheel \ left : feedback'[w] \in {feedback[w], "new"}
    BY <2>1, PollEffect DEF Received, Unread, IInv
  <2>3. legs = "UNARMED" => legs' = "UNARMED"
    BY <1>10, ServoPollEffect DEF SlavePoll, servoVars
  <2>4. CASE UNCHANGED <<balance, left, motion>>
    BY <2>2, <2>3, <2>4 DEF IInv, motion
  <2>5. CASE balance \in Balancing /\ balance' = "FAULT" /\ left' = {} /\ Standing
    BY <2>2, <2>3, <2>5 DEF IInv, Standing, BalanceStates, Balancing
  <2>6. CASE balance = "ACTIVE" /\ balance' = "ACTIVE" /\ left' = left
    BY <2>2, <2>3, <2>6 DEF IInv, Balancing
  <2>7. CASE /\ balance = "ARMING" /\ balance' = "ACTIVE" /\ UNCHANGED <<left, motion>>
             /\ \A w \in Wheel : feedback'[w] # "none"
    <3>1. \A w \in Wheel \ left : feedback'[w] = "new"
      BY <2>2, <2>7 DEF IInv, Balancing, Reports
    <3> QED BY <2>2, <2>3, <2>7, <3>1 DEF IInv, motion, BalanceStates, Balancing
  <2> QED BY <2>1, <2>4, <2>5, <2>6, <2>7, PollEffect
<1>11. CASE UNCHANGED vars
  BY <1>11, Unrelated DEF vars, balanceVars, servoVars
<1> QED
  BY <1>1, <1>2, <1>3, <1>4, <1>5, <1>6, <1>7, <1>8, <1>9, <1>10, <1>11 DEF Next, Command

\* The inductive invariant holds along every behaviour of the loop.
THEOREM SlaveInvariant == Spec => []IInv
<1> QED BY InitHolds, StepHolds, PTL DEF Spec

\* The loop of slave_app.c never carries a commanded speed from one balancing run
\* into another: it is forgotten whenever the controller is not active.
THEOREM MotionStaysForgotten == Spec => []NoForgottenMotion
<1>1. IInv => NoForgottenMotion
  BY DEF IInv
<1> QED BY <1>1, SlaveInvariant, PTL

\* The legs are off for as long as the controller arms, balances or is faulted.
THEOREM LegsStayOff == Spec => []LegsOffWhileBalancing
<1>1. IInv => LegsOffWhileBalancing
  BY DEF IInv
<1> QED BY <1>1, SlaveInvariant, PTL

\* Balancing rests on reports of this enable from both drives, except for a drive whose
\* replies were behind the sixteen frames that enable drained.
THEOREM ActiveIsInformed == Spec => []ArmedOnNewFeedback
<1>1. IInv => ArmedOnNewFeedback
  BY DEF IInv
<1> QED BY <1>1, SlaveInvariant, PTL
-----------------------------------------------------------------------------
(* The legs: ServoInv of ServoMotion_proof holds along the whole loop *)

LEMMA ServoUnchanged == ASSUME ServoInv, UNCHANGED servoVars PROVE ServoInv'
BY DEF servoVars, portVars, ServoInv, ServoTypeOK, AnglesSafe, PoweredSafe, LegAnglesAreSafe

\* The port that is to be initialised again holds what it held.
LEMMA PortOfPolarity ==
  ASSUME ServoTypeOK
  PROVE  LET p == [Port EXCEPT !.ready = FALSE]
         IN  p \in Ports /\ p.ok /\ (PoweredSafe => PortSafe(p))
BY DEF ServoTypeOK, Port, Ports, PoweredSafe, PortSafe

LEMMA ServoStepHolds == ServoInv /\ [Next]_vars => ServoInv'
<1> SUFFICES ASSUME ServoInv, [Next]_vars PROVE ServoInv'
  OBVIOUS
<1>0. ServoTypeOK /\ raw \in BOOLEAN
  BY DEF ServoInv, ServoTypeOK
<1>1. CASE EnableCommand \/ ServoStop
  BY <1>1, StopKeeps DEF EnableCommand, ServoStop
<1>2. ASSUME UNCHANGED servoVars PROVE ServoInv'
  BY <1>2, ServoUnchanged
<1>3. CASE DisableCommand \/ TrackCommand \/ MotorTest
  BY <1>2, <1>3 DEF DisableCommand, TrackCommand, MotorTest, Sends, SetWheelTrack
<1>4. ASSUME NEW v \in [Component -> Speeds], VelocityCommand(v) PROVE ServoInv'
  BY <1>2, <1>4 DEF VelocityCommand
<1>5. ASSUME NEW w \in Wheel, WheelCommand(w) \/ InitWheel(w) PROVE ServoInv'
  BY <1>2, <1>5 DEF WheelCommand, InitWheel, Sends
<1>6. ASSUME NEW w \in Wheel, NEW diagnosis \in BOOLEAN, TorqueTest(w, diagnosis) PROVE ServoInv'
  BY <1>2, <1>6 DEF TorqueTest
<1>7. CASE LegEnable
  BY <1>0, <1>7, EnableKeeps, PortOfState, ReferenceIsSafe DEF LegEnable
<1>8. CASE ServoPolarity
  BY <1>0, <1>8, EnableKeeps, PortOfPolarity, ReferenceIsSafe DEF ServoPolarity
<1>9. ASSUME NEW pose \in LegPoses, LegMove(pose) PROVE ServoInv'
  <2>1. pose \in [Servo -> Int] /\ StartMotion(pose) /\ raw' = raw /\ LegAnglesAreSafe(pose)
    BY <1>9, ServoAssumption DEF LegMove, LegPoseAccepted
  <2> QED BY <1>0, <2>1, StartKeeps
<1>10. ASSUME NEW pose \in RawPoses, ServoSet(pose) \/ ServoMove(pose) PROVE ServoInv'
  <2>1. pose \in [Servo -> Int]
    BY ServoAssumption
  <2>2. CASE ServoSet(pose)
    BY <1>0, <2>1, <2>2, EnableKeeps, PortOfState DEF ServoSet
  <2>3. CASE ServoMove(pose)
    BY <2>1, <2>3, StartKeeps DEF ServoMove
  <2> QED BY <1>10, <2>2, <2>3
<1>11. ASSUME NEW pose \in RawPoses, NEW i \in Servo, ServoTest(i, pose[i]) PROVE ServoInv'
  <2>1. pose[i] \in Int
    BY ServoAssumption
  <2> QED BY <1>11, <2>1, TestKeeps DEF ServoTest
<1>12. ASSUME NEW late, SlavePoll(late) PROVE ServoInv'
  BY <1>2, <1>12, PollKeeps DEF SlavePoll
<1>13. CASE UNCHANGED vars
  BY <1>2, <1>13 DEF vars
<1> QED
  BY <1>1, <1>3, <1>4, <1>5, <1>6, <1>7, <1>8, <1>9, <1>10, <1>11, <1>12, <1>13 DEF Next, Command

\* The angles the legs are at, go to and are driven with stay typed and, without raw
\* servo commands, safe.
THEOREM ServoInvariant == Spec => []ServoInv
<1>1. Init => ServoInv
  BY ServoInitHolds DEF Init
<1> QED BY <1>1, ServoStepHolds, PTL DEF Spec

\* Leg commands alone keep every powered servo within its range, for any number of
\* servos, any ranges that hold the reference and any poses that are asked for.
THEOREM LegsStayInRange == Spec => []LegsInRange
<1>1. ServoInv => LegsInRange
  BY DEF ServoInv, AnglesSafe, PoweredSafe, LegsInRange
<1> QED BY <1>1, ServoInvariant, PTL

-----------------------------------------------------------------------------
(* The wheels: what frames that may be lost leave in the drives. *)

Drv == [Wheel -> Commands]
Outcome == [drive : Drv, lost : 0..MaxLost, ok : BOOLEAN]

\* r comes of o by sending the frames of f; it is ok only if o was and all of them were
\* sent.
Follows(r, o, f) ==
  /\ r \in Outcome
  /\ r.ok => /\ o.ok
             /\ \A w \in Wheel : r.drive[w] = IF w \in DOMAIN f THEN f[w] ELSE o.drive[w]

Stopped(o) == o.ok => o.drive = Both("idle")

LEMMA BothType ==
  ASSUME NEW c \in Commands
  PROVE  /\ Both(c) \in Drv /\ DOMAIN Both(c) = Wheel /\ DOMAIN Both(c) \subseteq Wheel
         /\ \A w \in DOMAIN Both(c) : Both(c)[w] \in Commands
         /\ \A w \in Wheel : Both(c)[w] = c
BY DEF Both, Drv

LEMMA TriedFollows ==
  ASSUME NEW o \in Outcome, NEW f, DOMAIN f \subseteq Wheel,
         \A w \in DOMAIN f : f[w] \in Commands, NEW r \in Tried(o, f)
  PROVE  Follows(r, o, f)
<1>1. PICK L \in SUBSET DOMAIN f :
        /\ o.lost + Cardinality(L) <= MaxLost
        /\ r = [drive |-> [w \in Wheel |-> IF w \in DOMAIN f \ L THEN f[w] ELSE o.drive[w]],
                lost |-> o.lost + Cardinality(L),
                ok |-> o.ok /\ L = {}]
  BY DEF Tried
<1>2. o.lost \in Nat /\ o.lost <= MaxLost /\ MaxLost \in Nat /\ o.drive \in Drv /\ o.ok \in BOOLEAN
  BY LossAssumption DEF Outcome
<1>3. IsFiniteSet(L) /\ Cardinality(L) \in Nat /\ (Cardinality(L) = 0 <=> L = {})
  <2>1. IsFiniteSet({"left"} \cup {"right"})
    BY FS_Singleton, FS_AddElement
  <2>2. IsFiniteSet(L)
    <3>1. L \subseteq {"left"} \cup {"right"}
      BY DEF Wheel
    <3> QED
      BY <2>1, <3>1, FS_Subset
  <2> QED
    BY <2>2, FS_CardinalityType, FS_EmptySet
<1>4. r.lost \in 0..MaxLost
  BY <1>1, <1>2, <1>3
<1>5. r.drive \in Drv /\ r.ok \in BOOLEAN
  BY <1>1, <1>2 DEF Drv
<1>6. r \in Outcome
  BY <1>1, <1>4, <1>5 DEF Outcome
<1>7. r.ok => /\ o.ok
              /\ \A w \in Wheel : r.drive[w] = IF w \in DOMAIN f THEN f[w] ELSE o.drive[w]
  BY <1>1, <1>2
<1> QED
  BY <1>6, <1>7 DEF Follows

\* stop_motors: if all its frames were sent both wheels are idle after it.
LEMMA StopFollows ==
  ASSUME NEW o \in Outcome, NEW s \in StopMotors(o)
  PROVE  s \in Outcome /\ Stopped(s)
<1> DEFINE begun == [o EXCEPT !.ok = TRUE]
<1>1. PICK r \in Tried(begun, Both("awake")) : s \in Tried(r, Both("idle"))
  BY DEF StopMotors, Also
<1>0. "awake" \in Commands /\ "idle" \in Commands /\ begun \in Outcome
  BY DEF Commands, Outcome
<1> HIDE DEF begun
<1>2. Follows(r, begun, Both("awake"))
  BY <1>0, <1>1, TriedFollows, BothType
<1>3. r \in Outcome
  BY <1>2 DEF Follows
<1>4. Follows(s, r, Both("idle"))
  BY <1>0, <1>1, <1>3, TriedFollows, BothType
<1>5. s.ok => \A w \in Wheel : s.drive[w] = "idle"
  BY <1>0, <1>4, BothType DEF Follows
<1>6. s \in Outcome /\ s.drive \in Drv
  BY <1>4 DEF Follows, Outcome
<1> QED
  BY <1>5, <1>6 DEF Stopped, Drv, Both

\* Frames to single wheels.
LEMMA ToType == ASSUME NEW w \in Wheel, NEW c \in Commands
                PROVE  /\ DOMAIN To(w, c) = {w} /\ To(w, c)[w] = c
                       /\ DOMAIN To(w, c) \subseteq Wheel
                       /\ \A x \in DOMAIN To(w, c) : To(w, c)[x] \in Commands
BY DEF To

LEMMA AlsoTyped ==
  ASSUME NEW O \in SUBSET Outcome,
         NEW f, DOMAIN f \subseteq Wheel, \A w \in DOMAIN f : f[w] \in Commands
  PROVE  Also(O, f) \subseteq Outcome /\ IfOk(O, f) \subseteq Outcome
<1>1. ASSUME NEW o \in O, NEW r \in Tried(o, f) PROVE r \in Outcome
  BY TriedFollows DEF Follows
<1>2. \A r \in Also(O, f) : \E o \in O : r \in Tried(o, f)
  BY DEF Also
<1>3. \A r \in IfOk(O, f) : r \in O \/ \E o \in O : r \in Tried(o, f)
  BY DEF IfOk
<1> QED
  BY <1>1, <1>2, <1>3

\* Whatever frames wheel w is sent, the other one stays idle.
OtherIdle(o, w) == o.ok => \A x \in Wheel \ {w} : o.drive[x] = "idle"
Kept(O, w) == \A o \in O : o \in Outcome /\ OtherIdle(o, w)

LEMMA ToKept ==
  ASSUME NEW O, NEW w \in Wheel, NEW c \in Commands, Kept(O, w)
  PROVE  /\ Kept(Also(O, To(w, c)), w) /\ Kept(IfOk(O, To(w, c)), w)
         /\ c = "idle" => \A r \in Also(O, To(w, c)) : Stopped(r)
<1>1. ASSUME NEW o \in O, NEW r \in Tried(o, To(w, c))
      PROVE  r \in Outcome /\ OtherIdle(r, w) /\ (c = "idle" => Stopped(r))
  <2>1. o \in Outcome /\ OtherIdle(o, w)
    BY DEF Kept
  <2>2. Follows(r, o, To(w, c))
    <3>1. DOMAIN To(w, c) \subseteq Wheel /\ \A x \in DOMAIN To(w, c) : To(w, c)[x] \in Commands
      BY ToType
    <3> QED
      BY <2>1, <3>1, TriedFollows
  <2>3. r \in Outcome /\ r.drive \in Drv
    BY <2>2 DEF Follows, Outcome
  <2>4. r.ok => r.drive[w] = c /\ \A x \in Wheel \ {w} : r.drive[x] = "idle"
    <3>1. DOMAIN To(w, c) = {w} /\ To(w, c)[w] = c
      BY ToType
    <3>2. r.ok => /\ o.ok
                  /\ \A x \in Wheel :
                       r.drive[x] = IF x \in DOMAIN To(w, c) THEN To(w, c)[x] ELSE o.drive[x]
      BY <2>2 DEF Follows
    <3>3. r.ok => \A x \in Wheel \ {w} : o.drive[x] = "idle"
      BY <2>1, <3>2 DEF OtherIdle
    <3> QED
      BY <3>1, <3>2, <3>3
  <2>5. c = "idle" /\ r.ok => r.drive = Both("idle")
    BY <2>3, <2>4 DEF Drv, Both
  <2> QED
    BY <2>3, <2>4, <2>5 DEF OtherIdle, Stopped
<1>2. \A r \in Also(O, To(w, c)) : \E o \in O : r \in Tried(o, To(w, c))
  BY DEF Also
<1>3. \A r \in IfOk(O, To(w, c)) : r \in O \/ \E o \in O : r \in Tried(o, To(w, c))
  BY DEF IfOk
<1> QED
  BY <1>1, <1>2, <1>3 DEF Kept

-----------------------------------------------------------------------------
(* Each step leaves the wheels idle when it leaves balancing off. *)

WheelInv ==
  /\ drive \in Drv /\ lost \in 0..MaxLost /\ initialized \in BOOLEAN /\ meddled \in BOOLEAN
  /\ ~initialized => balance \notin Balancing
  /\ WheelsAreIdle

LEMMA NowTyped == ASSUME WheelInv PROVE Now \in Outcome
BY DEF WheelInv, Now, Outcome

LEMMA FaultIdles ==
  ASSUME WheelInv, NEW o \in Outcome, EnterFault(o), UNCHANGED initialized
  PROVE  WheelInv'
<1>1. PICK s \in StopMotors(o) : Keep(s) /\ meddled' = ~s.ok
  BY DEF EnterFault
<1>2. s \in Outcome /\ Stopped(s)
  BY StopFollows
<1>3. /\ drive' = s.drive /\ lost' = s.lost
      /\ drive' \in Drv /\ lost' \in 0..MaxLost /\ meddled' \in BOOLEAN
  BY <1>1, <1>2 DEF Keep, Outcome
<1>4. balance' = "FAULT"
  BY DEF EnterFault
<1>5. ~meddled' => drive' = Both("idle")
  BY <1>1, <1>2, <1>3 DEF Stopped
<1> QED
  BY <1>3, <1>4, <1>5 DEF WheelInv, WheelsAreIdle, Balancing

\* The controller balances after the step, or others command the wheels.
LEMMA AwakeAllowed ==
  ASSUME WheelInv, NEW o \in Outcome, Keep(o), meddled' \in BOOLEAN, UNCHANGED initialized,
         ~initialized => balance' \notin Balancing,
         balance' \in Balancing \/ meddled'
  PROVE  WheelInv'
<1>1. drive' \in Drv /\ lost' \in 0..MaxLost
  BY DEF Keep, Outcome
<1> QED
  BY <1>1 DEF WheelInv, WheelsAreIdle

LEMMA WheelsUnchanged ==
  ASSUME WheelInv, UNCHANGED <<balance, drive, lost, meddled, initialized>>
  PROVE  WheelInv'
BY DEF WheelInv, WheelsAreIdle

LEMMA EnableWheels == ASSUME WheelInv, BalanceEnable PROVE WheelInv'
<1>1. CASE ~initialized \/ balance \in Balancing
  BY <1>1, WheelsUnchanged DEF BalanceEnable, balanceVars
<1>2. CASE initialized /\ balance \notin Balancing
  <2>0. UNCHANGED initialized /\ "awake" \in Commands
    BY <1>2 DEF BalanceEnable, Commands
  <2>1. CASE EnterFault(Now)
    BY <2>0, <2>1, NowTyped, FaultIdles
  <2>2. CASE ~EnterFault(Now)
    <3>1. PICK o \in Also(Also(Tried(Now, Both("awake")), Both("awake")), Both("awake")) :
               IF o.ok
                 THEN /\ Keep(o)
                      /\ balance' = "ARMING"
                      /\ meddled' = FALSE
                 ELSE EnterFault(o)
      BY <1>2, <2>2 DEF BalanceEnable
    <3>2. {Now} \subseteq Outcome
      BY NowTyped
    <3>3. Also({Now}, Both("awake")) = Tried(Now, Both("awake"))
      BY DEF Also
    <3>4. Tried(Now, Both("awake")) \subseteq Outcome
      BY <2>0, <3>2, <3>3, BothType, AlsoTyped
    <3>5. Also(Tried(Now, Both("awake")), Both("awake")) \subseteq Outcome
      BY <2>0, <3>4, BothType, AlsoTyped
    <3>6. o \in Outcome
      BY <2>0, <3>1, <3>5, BothType, AlsoTyped
    <3>7. CASE o.ok
      BY <1>2, <2>0, <3>1, <3>6, <3>7, AwakeAllowed DEF Balancing
    <3>8. CASE ~o.ok
      BY <2>0, <3>1, <3>6, <3>8, FaultIdles
    <3> QED
      BY <3>7, <3>8
  <2> QED
    BY <2>1, <2>2
<1> QED
  BY <1>1, <1>2 DEF WheelInv

LEMMA DisableWheels == ASSUME WheelInv, BalanceDisable PROVE WheelInv'
<1>1. CASE ~initialized
  BY <1>1, WheelsUnchanged DEF BalanceDisable, balanceVars
<1>2. CASE initialized
  <2>1. PICK s \in StopMotors(Now) : Keep(s) /\ meddled' = ~s.ok
    BY <1>2 DEF BalanceDisable
  <2>2. s \in Outcome /\ Stopped(s)
    BY NowTyped, StopFollows
  <2>3. /\ drive' = s.drive /\ lost' = s.lost
        /\ drive' \in Drv /\ lost' \in 0..MaxLost /\ meddled' \in BOOLEAN
    BY <2>1, <2>2 DEF Keep, Outcome
  <2>4. balance' = "DISABLED" /\ initialized' = initialized
    BY <1>2 DEF BalanceDisable
  <2>5. ~meddled' => drive' = Both("idle")
    BY <2>1, <2>2, <2>3 DEF Stopped
  <2> QED
    BY <2>3, <2>4, <2>5 DEF WheelInv, WheelsAreIdle, Balancing
<1> QED
  BY <1>1, <1>2 DEF WheelInv

\* Commands to single drives are sent frame by frame and recorded as meddling.
LEMMA SendsWheels ==
  ASSUME WheelInv, NEW O \in SUBSET Outcome, Sends(O)
  PROVE  WheelInv'
<1>1. PICK o \in O : Keep(o)
  BY DEF Sends
<1>2. meddled' = TRUE /\ UNCHANGED <<initialized, balance>>
  BY DEF Sends
<1>3. ~initialized => balance' \notin Balancing
  BY <1>2 DEF WheelInv
<1> QED
  BY <1>1, <1>2, <1>3, AwakeAllowed

LEMMA DriveCommandWheels ==
  ASSUME WheelInv, NEW w \in Wheel, WheelCommand(w) \/ InitWheel(w) \/ MotorTest
  PROVE  WheelInv'
<1>0. "awake" \in Commands /\ "left" \in Wheel /\ "right" \in Wheel
  BY DEF Commands, Wheel
<1>1. ASSUME NEW x \in Wheel, NEW O \in SUBSET Outcome
      PROVE  Also(O, To(x, "awake")) \subseteq Outcome /\ IfOk(O, To(x, "awake")) \subseteq Outcome
  <2>1. DOMAIN To(x, "awake") \subseteq Wheel
        /\ \A y \in DOMAIN To(x, "awake") : To(x, "awake")[y] \in Commands
    BY <1>0, ToType
  <2> QED
    BY <1>1, <2>1, AlsoTyped
<1>2. ASSUME NEW x \in Wheel PROVE Tried(Now, To(x, "awake")) \subseteq Outcome
  <2>1. Also({Now}, To(x, "awake")) = Tried(Now, To(x, "awake"))
    BY DEF Also
  <2>2. {Now} \subseteq Outcome
    BY NowTyped
  <2> QED
    BY <1>1, <2>1, <2>2
<1>3. CASE WheelCommand(w)
  BY <1>2, <1>3, SendsWheels DEF WheelCommand
<1>4. CASE InitWheel(w)
  BY <1>1, <1>2, <1>4, SendsWheels DEF InitWheel
<1>5. CASE MotorTest
  <2> DEFINE first == Tried(Now, To("left", "awake"))
             second == IfOk(first, To("right", "awake"))
             third == IfOk(second, To("left", "awake"))
             woken == IfOk(third, To("right", "awake"))
             near == Also({o \in woken : o.ok}, To("left", "awake"))
             all == {o \in woken : ~o.ok} \cup Also(near, To("right", "awake"))
  <2>1. first \subseteq Outcome
    BY <1>0, <1>2
  <2>2. second \subseteq Outcome
    BY <1>0, <1>1, <2>1
  <2>3. third \subseteq Outcome
    BY <1>0, <1>1, <2>2
  <2>4. woken \subseteq Outcome
    BY <1>0, <1>1, <2>3
  <2>5. near \subseteq Outcome
    BY <1>0, <1>1, <2>4
  <2>6. Also(near, To("right", "awake")) \subseteq Outcome
    BY <1>0, <1>1, <2>5
  <2>7. Sends(all)
    BY <1>5 DEF MotorTest
  <2> HIDE DEF near, woken
  <2>8. all \subseteq Outcome
    BY <2>4, <2>6
  <2> HIDE DEF all
  <2> QED
    BY <2>7, <2>8, SendsWheels
<1> QED
  BY <1>3, <1>4, <1>5

\* The tests of one drive: it is idle again at their end, unless a frame was lost.
LEMMA TorqueTestWheels ==
  ASSUME WheelInv, NEW w \in Wheel, NEW diagnosis \in BOOLEAN, TorqueTest(w, diagnosis)
  PROVE  WheelInv'
<1>0. "awake" \in Commands /\ "idle" \in Commands
  BY DEF Commands
<1>1. PICK s \in IF initialized THEN StopMotors(Now) ELSE {[Now EXCEPT !.ok = ~meddled]} :
        LET woken == IfOk(Tried([s EXCEPT !.ok = TRUE], To(w, "awake")), To(w, "awake"))
            run == Also(Also(Also({o \in woken : o.ok}, To(w, "awake")), To(w, "awake")), To(w, "idle"))
        IN  \E o \in {o \in woken : ~o.ok} \cup run : Keep(o) /\ meddled' = ~(s.ok /\ o.ok)
  BY DEF TorqueTest
<1>2. /\ balance \notin Balancing /\ initialized' = initialized
      /\ balance' = IF initialized THEN "DISABLED" ELSE balance
  BY DEF TorqueTest
<1>3. s \in Outcome /\ Stopped(s)
  <2>1. CASE initialized
    BY <1>1, <2>1, NowTyped, StopFollows
  <2>2. CASE ~initialized
    <3>1. s = [Now EXCEPT !.ok = ~meddled]
      BY <1>1, <2>2
    <3>2. s \in Outcome /\ s.ok = ~meddled /\ s.drive = drive
      BY <3>1, NowTyped DEF Outcome, Now, WheelInv
    <3> QED
      BY <1>2, <3>2 DEF WheelInv, WheelsAreIdle, Stopped
  <2> QED
    BY <2>1, <2>2
<1> DEFINE begun == [s EXCEPT !.ok = TRUE]
           first == Tried(begun, To(w, "awake"))
           woken == IfOk(first, To(w, "awake"))
           going == Also({o \in woken : o.ok}, To(w, "awake"))
           zeroed == Also(going, To(w, "awake"))
           run == Also(zeroed, To(w, "idle"))
<1>4. PICK o \in {o \in woken : ~o.ok} \cup run : Keep(o) /\ meddled' = ~(s.ok /\ o.ok)
  BY <1>1
<1>5. {begun} \subseteq Outcome /\ (s.ok => Kept({begun}, w))
  <2>1. begun \in Outcome /\ begun.drive = s.drive /\ begun.ok
    BY <1>3 DEF Outcome
  <2> QED
    BY <1>3, <2>1 DEF Kept, OtherIdle, Stopped, Both
<1>6. first = Also({begun}, To(w, "awake"))
  BY DEF Also
<1> HIDE DEF begun
<1>7. ASSUME NEW O \in SUBSET Outcome, NEW c \in Commands
      PROVE  Also(O, To(w, c)) \subseteq Outcome /\ IfOk(O, To(w, c)) \subseteq Outcome
  <2>1. DOMAIN To(w, c) \subseteq Wheel /\ \A y \in DOMAIN To(w, c) : To(w, c)[y] \in Commands
    BY ToType
  <2> QED
    BY <1>7, <2>1, AlsoTyped
<1>8. first \subseteq Outcome /\ (s.ok => Kept(first, w))
  BY <1>0, <1>5, <1>6, <1>7, ToKept
<1> HIDE DEF first
<1>9. woken \subseteq Outcome /\ (s.ok => Kept(woken, w))
  BY <1>0, <1>7, <1>8, ToKept
<1> HIDE DEF woken
<1>10. going \subseteq Outcome /\ (s.ok => Kept(going, w))
  <2>1. {r \in woken : r.ok} \subseteq Outcome /\ (s.ok => Kept({r \in woken : r.ok}, w))
    BY <1>9 DEF Kept
  <2> QED
    BY <1>0, <1>7, <2>1, ToKept
<1> HIDE DEF going
<1>11. zeroed \subseteq Outcome /\ (s.ok => Kept(zeroed, w))
  BY <1>0, <1>7, <1>10, ToKept
<1> HIDE DEF zeroed
<1>12. run \subseteq Outcome /\ (s.ok => \A r \in run : Stopped(r))
  BY <1>0, <1>7, <1>11, ToKept
<1> HIDE DEF run
<1>13. o \in Outcome
  BY <1>4, <1>9, <1>12
<1>14. /\ drive' = o.drive /\ lost' = o.lost
       /\ drive' \in Drv /\ lost' \in 0..MaxLost /\ meddled' \in BOOLEAN
  BY <1>3, <1>4, <1>13 DEF Keep, Outcome
<1>15. balance' \notin Balancing
  BY <1>2 DEF Balancing
<1>16. ~meddled' => drive' = Both("idle")
  BY <1>4, <1>12, <1>14 DEF Stopped
<1> QED
  BY <1>2, <1>14, <1>15, <1>16 DEF WheelInv, WheelsAreIdle

LEMMA PollWheels ==
  ASSUME WheelInv, NEW late, BalancePoll(late)
  PROVE  WheelInv'
<1>0. "awake" \in Commands /\ Now \in Outcome /\ initialized' = initialized
  BY NowTyped DEF Commands, BalancePoll, balanceVars
<1>1. CASE UNCHANGED <<balance, drive, lost, meddled>>
  BY <1>0, <1>1, WheelsUnchanged
<1>2. CASE \E o \in Outcome : EnterFault(o)
  BY <1>0, <1>2, FaultIdles
<1>3. CASE \E o \in Outcome : Keep(o) /\ balance' \in Balancing /\ meddled' = meddled /\ balance \in Balancing
  <2>1. initialized /\ meddled' \in BOOLEAN
    BY <1>3 DEF WheelInv
  <2> QED
    BY <1>0, <1>3, <2>1, AwakeAllowed
<1>4. ASSUME NEW f, DOMAIN f \subseteq Wheel, \A w \in DOMAIN f : f[w] \in Commands
      PROVE  Tried(Now, f) \subseteq Outcome
  <2>1. Also({Now}, f) = Tried(Now, f)
    BY DEF Also
  <2> QED
    BY <1>0, <1>4, <2>1, AlsoTyped
<1>5. ASSUME NEW quality, balance = "ARMING", PollArming(late, quality)
      PROVE  WheelInv'
  <2>1. PICK o \in Tried(Now, Both("awake")) :
          \/ EnterFault(o)
          \/ Keep(o) /\ meddled' = meddled /\ balance' \in {balance, "ACTIVE"}
    BY <1>5 DEF PollArming
  <2>2. o \in Outcome
    BY <1>0, <1>4, BothType
  <2> QED
    BY <1>2, <1>3, <1>5, <2>1, <2>2 DEF Balancing
<1>6. ASSUME NEW quality, balance = "ACTIVE", PollActive(late, quality)
      PROVE  WheelInv'
  <2>1. \/ EnterFault(Now)
        \/ \E o \in IfOk(Tried(Now, To("left", "awake")), To("right", "awake")) :
             \/ Keep(o) /\ meddled' = meddled /\ balance' = balance
             \/ EnterFault(o)
    BY <1>6 DEF PollActive
  <2>2. IfOk(Tried(Now, To("left", "awake")), To("right", "awake")) \subseteq Outcome
    <3>1. "left" \in Wheel /\ "right" \in Wheel
      BY DEF Wheel
    <3>2. /\ DOMAIN To("left", "awake") \subseteq Wheel
          /\ \A x \in DOMAIN To("left", "awake") : To("left", "awake")[x] \in Commands
          /\ DOMAIN To("right", "awake") \subseteq Wheel
          /\ \A x \in DOMAIN To("right", "awake") : To("right", "awake")[x] \in Commands
      BY <1>0, <3>1, ToType
    <3>3. Tried(Now, To("left", "awake")) \subseteq Outcome
      BY <1>4, <3>2
    <3> QED
      BY <3>2, <3>3, AlsoTyped
  <2> QED
    BY <1>0, <1>2, <1>3, <1>6, <2>1, <2>2 DEF Balancing
<1>7. CASE initialized /\ "period" \in late
  <2>1. Period(late)
    BY <1>7 DEF BalancePoll
  <2>2. \/ EnterFault(Now)
        \/ UNCHANGED <<balance, drive, lost, meddled>>
        \/ \E quality : \/ balance = "ARMING" /\ PollArming(late, quality)
                        \/ balance = "ACTIVE" /\ PollActive(late, quality)
    BY <2>1 DEF Period
  <2> QED
    BY <1>0, <1>1, <1>2, <1>5, <1>6, <2>2
<1>8. CASE ~(initialized /\ "period" \in late)
  BY <1>1, <1>8 DEF BalancePoll, balanceVars
<1> QED
  BY <1>7, <1>8

LEMMA WheelStep == WheelInv /\ [Next]_vars => WheelInv'
<1> SUFFICES ASSUME WheelInv, [Next]_vars PROVE WheelInv'
  OBVIOUS
<1>1. CASE EnableCommand \/ DisableCommand
  BY <1>1, EnableWheels, DisableWheels DEF EnableCommand, DisableCommand
<1>2. CASE TrackCommand \/ \E v \in [Component -> Speeds] : VelocityCommand(v)
  BY <1>2, WheelsUnchanged DEF TrackCommand, SetWheelTrack, VelocityCommand, SetMotionCommand
<1>3. ASSUME NEW w \in Wheel, WheelCommand(w) \/ InitWheel(w) \/ MotorTest PROVE WheelInv'
  BY <1>3, DriveCommandWheels
<1>4. ASSUME NEW w \in Wheel, NEW diagnosis \in BOOLEAN, TorqueTest(w, diagnosis) PROVE WheelInv'
  BY <1>4, TorqueTestWheels
<1>5. CASE UNCHANGED balanceVars
  BY <1>5, WheelsUnchanged DEF balanceVars
<1>6. CASE LegEnable \/ ServoPolarity \/ ServoStop \/ UNCHANGED vars
  BY <1>5, <1>6 DEF LegEnable, ServoPolarity, ServoStop, vars
<1>7. ASSUME NEW pose, NEW i, LegMove(pose) \/ ServoSet(pose) \/ ServoMove(pose) \/ ServoTest(i, pose[i])
      PROVE  WheelInv'
  BY <1>5, <1>7 DEF LegMove, ServoSet, ServoMove, ServoTest
<1>8. ASSUME NEW late, SlavePoll(late) PROVE WheelInv'
  BY <1>8, PollWheels DEF SlavePoll
<1>9. "left" \in Wheel
  BY DEF Wheel
<1> QED
  BY <1>1, <1>2, <1>3, <1>4, <1>6, <1>7, <1>8, <1>9 DEF Next, Command

\* What the drives make of the last command, and the frames lost, stay typed.
THEOREM WheelInvariant == Spec => []WheelInv
<1>1. Init => WheelInv
  <2> SUFFICES ASSUME Init PROVE WheelInv
    OBVIOUS
  <2>1. drive = Both("idle") /\ "idle" \in Commands /\ lost = 0 /\ 0 \in 0..MaxLost
    BY LossAssumption DEF Init, BalanceInit, Commands
  <2>2. drive \in Drv
    BY <2>1, BothType
  <2>3. initialized \in BOOLEAN /\ meddled \in BOOLEAN /\ balance \notin Balancing
    BY DEF Init, BalanceInit, Balancing
  <2> QED
    BY <2>1, <2>2, <2>3 DEF WheelInv, WheelsAreIdle
<1> QED
  BY <1>1, WheelStep, PTL DEF Spec

\* Every way out of balancing, and every test of a drive, leaves both wheels idle:
\* they are awake while balancing is off only if a client woke them or a frame of the
\* last stop was lost, for any speeds and any number of frames the bus may lose.
THEOREM WheelsStayIdle == Spec => []WheelsAreIdle
<1>1. WheelInv => WheelsAreIdle
  BY DEF WheelInv
<1> QED BY <1>1, WheelInvariant, PTL

-----------------------------------------------------------------------------
(* The applied speed is on its way from one commanded speed to another. *)

\* Along each component it lies between two speeds that clients may command.
Bounded(a) == \A c \in Component : \E s, t \in Speeds : s <= a[c] /\ a[c] <= t

Motion(g, a, valid) ==
  g \in [Component -> Speeds] /\ a \in [Component -> Int] /\ Bounded(a) /\ valid \in BOOLEAN

RampInv ==
  /\ Motion(goal, applied, commanded)
  /\ trackKnown \in BOOLEAN
  /\ round \in {0, 1}

LEMMA RestIsMotion == Motion(Rest, Rest, FALSE)
<1>1. Rest \in [Component -> Speeds] /\ Rest \in [Component -> Int]
  BY SpeedAssumption DEF Rest
<1>2. \A c \in Component : 0 <= Rest[c] /\ Rest[c] <= 0
  BY DEF Rest
<1> QED BY <1>1, <1>2, SpeedAssumption DEF Motion, Bounded

\* A step towards the goal passes neither the goal nor what it started from.
LEMMA ApproachStaysBetween ==
  ASSUME NEW x \in Int, NEW y \in Int
  PROVE  /\ Approach(x, y) \in Int
         /\ x <= Approach(x, y) \/ y <= Approach(x, y)
         /\ Approach(x, y) <= x \/ Approach(x, y) <= y
BY SpeedAssumption DEF Approach

LEMMA ApproachIsMotion ==
  ASSUME NEW g, NEW a, NEW was, NEW valid \in BOOLEAN, Motion(g, a, was),
         NEW h \in {g, Rest}
  PROVE  Motion(h, [c \in Component |-> Approach(a[c], h[c])], valid)
<1> DEFINE b == [c \in Component |-> Approach(a[c], h[c])]
<1>1. h \in [Component -> Speeds]
  BY RestIsMotion DEF Motion
<1>2. ASSUME NEW c \in Component
      PROVE  b[c] \in Int /\ \E s, t \in Speeds : s <= b[c] /\ b[c] <= t
  <2>1. a[c] \in Int /\ h[c] \in Speeds /\ h[c] \in Int
    BY <1>1, SpeedAssumption DEF Motion
  <2>2. PICK s \in Speeds, t \in Speeds : s <= a[c] /\ a[c] <= t
    BY DEF Motion, Bounded
  <2>3. s \in Int /\ t \in Int
    BY SpeedAssumption
  <2>4. b[c] = Approach(a[c], h[c])
    OBVIOUS
  <2>5. b[c] \in Int /\ (a[c] <= b[c] \/ h[c] <= b[c]) /\ (b[c] <= a[c] \/ b[c] <= h[c])
    BY <2>1, <2>4, ApproachStaysBetween
  <2> HIDE DEF b
  <2>6. PICK r \in {s, h[c]} : r <= b[c]
    BY <2>1, <2>2, <2>3, <2>5
  <2>7. PICK u \in {t, h[c]} : b[c] <= u
    BY <2>1, <2>2, <2>3, <2>5
  <2>8. r \in Speeds /\ u \in Speeds
    BY <2>1, <2>2
  <2> QED BY <2>5, <2>6, <2>7, <2>8
<1>3. b \in [Component -> Int]
  BY <1>2
<1>4. Bounded(b)
  BY <1>2 DEF Bounded
<1> QED BY <1>1, <1>3, <1>4 DEF Motion

-----------------------------------------------------------------------------
\* Motion is either left alone, or cleared, or moved on by a period's work.
Driven == Motion(goal', applied', commanded')

LEMMA FaultDrives ==
  ASSUME NEW o, EnterFault(o) PROVE Driven
BY RestIsMotion DEF EnterFault, MotionCleared, Driven

LEMMA Undriven == ASSUME RampInv, UNCHANGED motion PROVE Driven
BY DEF RampInv, motion, Driven, Motion, Bounded

LEMMA ArmingDrives ==
  ASSUME RampInv, NEW late, NEW quality, PollArming(late, quality)
  PROVE  Driven
BY FaultDrives, Undriven DEF PollArming

LEMMA ActiveDrives ==
  ASSUME RampInv, NEW late, NEW quality, PollActive(late, quality)
  PROVE  Driven
<1> DEFINE g == IF CommandExpired(late) THEN Rest ELSE goal
           Moves == /\ goal' = g
                    /\ commanded' = (commanded /\ ~CommandExpired(late))
                    /\ applied' = [c \in Component |-> Approach(applied[c], g[c])]
<1>1. \/ \E o : EnterFault(o)
      \/ Moves
  BY DEF PollActive
<1>2. CASE Moves
  <2>1. g \in {goal, Rest}
    OBVIOUS
  <2> HIDE DEF g
  <2>2. (commanded /\ ~CommandExpired(late)) \in BOOLEAN
    OBVIOUS
  <2>3. Motion(goal', applied', commanded')
    BY <1>2, <2>1, <2>2, ApproachIsMotion DEF RampInv
  <2> QED BY <2>3 DEF Driven
<1> QED BY <1>1, <1>2, FaultDrives

LEMMA PollDrives ==
  ASSUME RampInv, NEW late, BalancePoll(late)
  PROVE  Driven /\ trackKnown' = trackKnown
<1>1. CASE ~(initialized /\ "period" \in late)
  BY <1>1, Undriven DEF BalancePoll, balanceVars
<1>2. CASE initialized /\ "period" \in late
  <2>1. Period(late) /\ trackKnown' = trackKnown
    BY <1>2 DEF BalancePoll
  <2> QED BY <2>1, FaultDrives, Undriven, ArmingDrives, ActiveDrives DEF Period
<1> QED BY <1>1, <1>2

LEMMA EnableDrives ==
  ASSUME RampInv, BalanceEnable PROVE Driven /\ trackKnown' = trackKnown
<1>1. CASE ~initialized \/ balance \in Balancing
  BY <1>1, Undriven DEF BalanceEnable, balanceVars
<1>2. CASE initialized /\ balance \notin Balancing
  <2>1. trackKnown' = trackKnown /\ (MotionCleared \/ \E o : EnterFault(o))
    BY <1>2 DEF BalanceEnable
  <2> QED BY <2>1, FaultDrives, RestIsMotion DEF MotionCleared, Driven
<1> QED BY <1>1, <1>2

LEMMA RampStep == RampInv /\ [Next]_vars => RampInv'
<1> SUFFICES ASSUME RampInv, [Next]_vars PROVE RampInv'
  OBVIOUS
<1>0. ASSUME Driven, trackKnown' \in {trackKnown, TRUE}, round' \in {round, 1 - round}
      PROVE  RampInv'
  <2>1. trackKnown' \in BOOLEAN
    BY <1>0, Zenon DEF RampInv
  <2>2. round' \in {0, 1}
    BY <1>0 DEF RampInv
  <2>3. Motion(goal, applied, commanded)'
    BY <1>0 DEF Driven, Motion, Bounded
  <2> QED BY <2>1, <2>2, <2>3 DEF RampInv
<1>1. CASE EnableCommand /\ UNCHANGED round
  BY <1>0, <1>1, EnableDrives DEF EnableCommand
<1>2. CASE DisableCommand /\ UNCHANGED round
  <2>1. CASE ~initialized
    BY <1>0, <1>2, <2>1, Undriven DEF DisableCommand, BalanceDisable, balanceVars
  <2>2. CASE initialized
    <3>1. MotionCleared /\ trackKnown' = trackKnown
      BY <1>2, <2>2 DEF DisableCommand, BalanceDisable
    <3>2. Driven
      BY <3>1, RestIsMotion DEF MotionCleared, Driven
    <3> QED BY <1>0, <1>2, <3>1, <3>2
  <2> QED BY <2>1, <2>2
<1>3. CASE TrackCommand /\ UNCHANGED round
  BY <1>0, <1>3, Undriven DEF TrackCommand, SetWheelTrack
<1>4. ASSUME NEW v \in [Component -> Speeds], VelocityCommand(v), UNCHANGED round PROVE RampInv'
  <2>1. goal' = v /\ commanded' = TRUE /\ UNCHANGED <<applied, trackKnown>>
    BY <1>4 DEF VelocityCommand, SetMotionCommand
  <2> QED BY <1>4, <2>1 DEF RampInv, Motion, Bounded
<1>5. CASE UNCHANGED <<motion, trackKnown, round>>
  BY <1>0, <1>5, Undriven
<1>6. ASSUME NEW w \in Wheel, WheelCommand(w) \/ InitWheel(w) \/ MotorTest, UNCHANGED round
      PROVE  RampInv'
  BY <1>5, <1>6 DEF WheelCommand, InitWheel, MotorTest, Sends
<1>7. ASSUME NEW w \in Wheel, NEW diagnosis \in BOOLEAN, TorqueTest(w, diagnosis), UNCHANGED round
      PROVE  RampInv'
  <2>1. UNCHANGED <<motion, trackKnown>>
    BY <1>7 DEF TorqueTest
  <2>2. Driven
    BY <2>1 DEF RampInv, motion, Driven, Motion, Bounded
  <2> QED BY <1>0, <1>7, <2>1, <2>2
<1>8. ASSUME UNCHANGED <<balanceVars, round>> PROVE RampInv'
  BY <1>5, <1>8 DEF balanceVars
<1>9. CASE (LegEnable \/ ServoPolarity \/ ServoStop) /\ UNCHANGED round
  BY <1>8, <1>9 DEF LegEnable, ServoPolarity, ServoStop
<1>10. ASSUME NEW pose, NEW i, UNCHANGED round,
              LegMove(pose) \/ ServoSet(pose) \/ ServoMove(pose) \/ ServoTest(i, pose[i])
       PROVE  RampInv'
  BY <1>8, <1>10 DEF LegMove, ServoSet, ServoMove, ServoTest
<1>11. ASSUME NEW late, SlavePoll(late) PROVE RampInv'
  BY <1>0, <1>11, PollDrives DEF SlavePoll
<1>12. CASE UNCHANGED vars
  BY <1>8, <1>12 DEF vars
<1>13. "left" \in Wheel
  BY DEF Wheel
<1> QED
  BY <1>1, <1>2, <1>3, <1>4, <1>6, <1>7, <1>9, <1>10, <1>11, <1>12, <1>13 DEF Next, Command

\* Along the whole loop the goal is a speed a client commanded and the applied speed
\* lies between two of them, whatever expires, fails or starts anew on the way.
THEOREM RampInvariant == Spec => []RampInv
<1>1. Init => RampInv
  BY RestIsMotion DEF Init, BalanceInit, RampInv
<1> QED BY <1>1, RampStep, PTL DEF Spec

\* The variables of the slave core's loop stay in their types, for any speeds, ramp
\* step, poses and number of lost frames.
THEOREM SlaveTypeCorrect == Spec => []TypeOK
<1>1. IInv /\ ServoInv /\ WheelInv /\ RampInv => TypeOK
  BY DEF IInv, ServoInv, WheelInv, RampInv, TypeOK, BalanceTypeOK, Motion, Bounded, Drv
<1> QED BY <1>1, SlaveInvariant, ServoInvariant, WheelInvariant, RampInvariant, PTL
=============================================================================
