---------------------- MODULE GimbalController_proof ----------------------
(* Proofs about GimbalController, for every value of its constants. *)
EXTENDS GimbalController, FiniteSetTheorems, TLAPS

Drv == [Axis -> [cmd : Commands, goal : Int]]
Outcome == [drive : Drv, lost : 0..MaxLost, ok : BOOLEAN]
Progress == [sent : Outcome, active : BOOLEAN, phase : {0, 1}]

-----------------------------------------------------------------------------
(* Sending *)

\* A frame for an axis with a command the drives know.
LEMMA BareFrame ==
  ASSUME NEW c \in Commands PROVE Both(c) \in Drv /\ Bare(c) \in [cmd : Commands, goal : Int]
BY DEF Both, Bare, Drv

LEMMA GotoFrame == ASSUME NEW t \in [Axis -> Int] PROVE Goto(t) \in Drv
BY DEF Goto, Position, Drv, Commands

LEMMA HomeType == Home \in [Axis -> Int]
BY DEF Home

\* What sending a pair of frames leaves in the drives: each has the command it
\* had or the one sent to it, and all have the one sent if it is reported so.
LEMMA SentOutcome ==
  ASSUME NEW d \in Drv, NEW l \in 0..MaxLost, NEW f \in Drv, NEW o \in Sent(d, l, f)
  PROVE  /\ o \in Outcome
         /\ \A a \in Axis : o.drive[a] \in {d[a], f[a]}
         /\ o.ok => o.drive = f
<1>1. CASE o = [drive |-> f, lost |-> l, ok |-> TRUE]
  BY <1>1 DEF Outcome
<1>2. CASE l < MaxLost /\ o = [drive |-> d, lost |-> l + 1, ok |-> FALSE]
  BY <1>2, SizeAssumption DEF Outcome
<1>3. CASE l < MaxLost /\ o = [drive |-> [d EXCEPT !["yaw"] = f["yaw"]], lost |-> l + 1, ok |-> FALSE]
  <2>1. [d EXCEPT !["yaw"] = f["yaw"]] \in Drv
    BY DEF Drv, Axis
  <2>2. \A a \in Axis : [d EXCEPT !["yaw"] = f["yaw"]][a] \in {d[a], f[a]}
    BY DEF Drv, Axis
  <2> QED BY <1>3, <2>1, <2>2, SizeAssumption DEF Outcome
<1> QED BY <1>1, <1>2, <1>3 DEF Sent

\* The same for idle frames, which are both tried.
LEMMA IdledOutcome ==
  ASSUME NEW d \in Drv, NEW l \in 0..MaxLost, NEW o \in Idled(d, l)
  PROVE  /\ o \in Outcome
         /\ \A a \in Axis : o.drive[a] \in {d[a], Bare("idle")}
         /\ o.ok => o.drive = Both("idle")
<1>1. PICK F \in SUBSET Axis :
        /\ l + Cardinality(F) <= MaxLost
        /\ o = [drive |-> [a \in Axis |-> IF a \in F THEN d[a] ELSE Bare("idle")],
                lost |-> l + Cardinality(F), ok |-> F = {}]
  BY DEF Idled
<1>2. IsFiniteSet(Axis)
  <2>1. IsFiniteSet({}) /\ IsFiniteSet({"yaw"}) /\ IsFiniteSet({"pitch"})
    BY FS_EmptySet, FS_Singleton
  <2>2. Axis = {"yaw"} \cup {"pitch"}
    BY DEF Axis
  <2> QED BY <2>1, <2>2, FS_Union
<1>3. IsFiniteSet(F) /\ Cardinality(F) \in Nat
  BY <1>2, FS_Subset, FS_CardinalityType
<1>4. Bare("idle") \in [cmd : Commands, goal : Int]
  BY BareFrame DEF Commands
<1>5. [a \in Axis |-> IF a \in F THEN d[a] ELSE Bare("idle")] \in Drv
  BY <1>4 DEF Drv
<1>6. l + Cardinality(F) \in 0..MaxLost
  BY <1>1, <1>3, SizeAssumption
<1>7. o \in Outcome
  BY <1>1, <1>5, <1>6 DEF Outcome
<1>8. F = {} => [a \in Axis |-> IF a \in F THEN d[a] ELSE Bare("idle")] = Both("idle")
  BY DEF Both
<1> QED BY <1>1, <1>7, <1>8

LEMMA NowOutcome == ASSUME TypeOK PROVE Now \in Outcome
BY DEF TypeOK, Now, Outcome, Drv

\* Two pairs in a row, the second only if the first was sent.
LEMMA ThenSentOutcome ==
  ASSUME NEW p \in Outcome, NEW f \in Drv, NEW o \in ThenSent(p, f)
  PROVE  /\ o \in Outcome
         /\ o.ok => o.drive = f
<1>1. CASE p.ok
  BY <1>1, SentOutcome DEF ThenSent, Outcome
<1>2. CASE ~p.ok
  BY <1>2 DEF ThenSent
<1> QED BY <1>1, <1>2

LEMMA CalibrationStoppedOutcome ==
  ASSUME TypeOK, NEW o \in CalibrationStopped PROVE o \in Outcome
<1>1. drive \in Drv /\ lost \in 0..MaxLost
  BY DEF TypeOK, Drv
<1>2. CASE calActive
  BY <1>1, <1>2, IdledOutcome DEF CalibrationStopped
<1>3. CASE ~calActive
  BY <1>3, NowOutcome DEF CalibrationStopped, Now
<1> QED BY <1>2, <1>3

\* Waking the drives for feedback leaves them as they are, if they were woken
\* before, or in torque mode.
LEMMA CalibrationStartedOutcome ==
  ASSUME TypeOK, NEW o \in CalibrationStarted
  PROVE  /\ o \in Outcome
         /\ o.ok => IF calActive THEN o.drive = drive ELSE o.drive = Both("torque")
<1>1. drive \in Drv /\ lost \in 0..MaxLost /\ Both("mode") \in Drv /\ Both("torque") \in Drv
  BY BareFrame DEF TypeOK, Drv, Commands
<1>2. CASE calActive
  <2>1. o = Now
    BY <1>2 DEF CalibrationStarted, Now
  <2>2. Now.drive = drive
    BY DEF Now
  <2> QED BY <1>2, <2>1, <2>2, NowOutcome
<1>3. CASE ~calActive
  <2>1. PICK p \in Sent(drive, lost, Both("mode")) : o \in ThenSent(p, Both("torque"))
    BY <1>3 DEF CalibrationStarted
  <2>2. p \in Outcome
    BY <1>1, SentOutcome
  <2> QED BY <1>1, <1>3, <2>1, <2>2, ThenSentOutcome
<1> QED BY <1>2, <1>3

\* The calibration part of a poll: it ends, is as it was, or sends torque frames.
LEMMA CalibrationPolledProgress ==
  ASSUME TypeOK, NEW late, NEW c \in CalibrationPolled(late)
  PROVE  /\ c \in Progress
         /\ ~calActive => c = Started
         /\ calActive /\ c.sent.ok /\ c.active => c.sent.drive \in {drive, Both("torque")}
<1>1. drive \in Drv /\ lost \in 0..MaxLost /\ Both("enable") \in Drv /\ Both("torque") \in Drv
  BY BareFrame DEF TypeOK, Drv, Commands
<1>2. CASE c = Started
  BY <1>2, NowOutcome DEF Started, Progress, Now, TypeOK
<1>3. CASE /\ calActive
           /\ \E i \in Idled(drive, lost) :
                c = [sent |-> [i EXCEPT !.ok = TRUE], active |-> FALSE, phase |-> 0]
  <2>1. PICK i \in Idled(drive, lost) :
          c = [sent |-> [i EXCEPT !.ok = TRUE], active |-> FALSE, phase |-> 0]
    BY <1>3
  <2>2. i \in Outcome
    BY <1>1, IdledOutcome
  <2>3. [i EXCEPT !.ok = TRUE] \in Outcome
    BY <2>2 DEF Outcome
  <2>4. c \in Progress /\ ~c.active
    BY <2>1, <2>3 DEF Progress
  <2> QED BY <1>3, <2>4
<1>4. ASSUME calActive,
             NEW o \in IF calPhase = 0
                         THEN UNION {ThenSent(e, Both("torque")) : e \in Sent(drive, lost, Both("enable"))}
                         ELSE Sent(drive, lost, Both("torque")),
             c = [sent |-> o, active |-> TRUE, phase |-> 1]
      PROVE  c \in Progress /\ (c.sent.ok => c.sent.drive = Both("torque"))
  <2>1. o \in Outcome /\ (o.ok => o.drive = Both("torque"))
    <3>1. CASE calPhase = 0
      <4>1. PICK e \in Sent(drive, lost, Both("enable")) : o \in ThenSent(e, Both("torque"))
        BY <1>4, <3>1
      <4>2. e \in Outcome
        BY <1>1, SentOutcome
      <4> QED BY <1>1, <4>1, <4>2, ThenSentOutcome
    <3>2. CASE calPhase # 0
      BY <1>1, <1>4, <3>2, SentOutcome
    <3> QED BY <3>1, <3>2
  <2> QED BY <1>4, <2>1 DEF Progress
<1> QED BY <1>2, <1>3, <1>4 DEF CalibrationPolled

LEMMA RefreshedOutcome ==
  ASSUME NEW late, NEW c \in Progress, NEW t \in [Axis -> Int], NEW o \in Refreshed(late, c, t)
  PROVE  /\ o \in Outcome
         /\ \A a \in Axis : o.drive[a] \in {c.sent.drive[a], Position(t[a])}
<1>1. Goto(t) \in Drv /\ \A a \in Axis : Goto(t)[a] = Position(t[a])
  BY GotoFrame DEF Goto
<1>2. c.sent \in Outcome /\ c.sent.drive \in Drv /\ c.sent.lost \in 0..MaxLost
  BY DEF Progress, Outcome
<1>3. CASE "refresh" \in late
  BY <1>1, <1>2, <1>3, SentOutcome DEF Refreshed
<1>4. CASE "refresh" \notin late
  BY <1>2, <1>4 DEF Refreshed
<1> QED BY <1>3, <1>4

-----------------------------------------------------------------------------
(* The inductive invariant *)

CoreOK ==
  /\ state \in States /\ fault \in SUBSET FaultBits
  /\ calActive \in BOOLEAN /\ calPhase \in {0, 1}
  /\ drive \in Drv /\ lost \in 0..MaxLost

MotionOK ==
  /\ target \in [Axis -> Int]
  /\ startup \in [valid : BOOLEAN, pitch : Int]
  /\ returnTorque \in Nat /\ stopTorque \in Nat
  /\ startPhase \in {0, 1}
  /\ homeSettle \in 0..SettleSamples /\ returnSettle \in 0..SettleSamples
  /\ moving \in BOOLEAN /\ streaming \in BOOLEAN

LimitsOK ==
  /\ limits \in [min : [Axis -> Int], max : [Axis -> Int]]
  /\ marked \in SUBSET (Axis \X Side)

SeenOK == seen \in SUBSET Axis

\* The place the controller would repeat a command for is as near as the command.
TargetInReach ==
  state \notin Stopped => \A a \in Axis :
    LET slack == IF state = "STOPPING" THEN Overshoot ELSE 0
    IN  limits.min[a] - slack <= target[a] /\ target[a] <= limits.max[a] + slack

\* A settling count is below its goal while it is counted.
SettleCounts ==
  /\ state \in {"STARTING", "HOMING"} => homeSettle < SettleSamples
  /\ state = "RETURNING" => returnSettle < SettleSamples

IInv ==
  /\ CoreOK /\ MotionOK /\ LimitsOK /\ SeenOK /\ staleLimits = FALSE
  /\ CalibrationIsLimp
  /\ MotionIsInformed /\ GoalsInLimits /\ FaultsAreHonoured /\ TargetInReach
  /\ SettleCounts

LEMMA IInvTypes == ASSUME IInv PROVE TypeOK
BY DEF IInv, CoreOK, MotionOK, LimitsOK, SeenOK, TypeOK, Drv

LEMMA SendTypes == ASSUME IInv PROVE drive \in Drv /\ lost \in 0..MaxLost
BY DEF IInv, CoreOK

\* In a stopped gimbal the part of the invariant about motion is void.
LEMMA StoppedIsSafe ==
  ASSUME CoreOK', MotionOK', LimitsOK', SeenOK', staleLimits' = FALSE,
         state' \in Stopped, CalibrationIsLimp'
  PROVE  IInv' /\ NoWayBack
BY DEF IInv, NoWayBack, MotionIsInformed, GoalsInLimits, FaultsAreHonoured, TargetInReach,
       SettleCounts, Stopped

\* So a step that stops the gimbal and its calibration is safe.
Halted == CoreOK' /\ state' \in Stopped /\ calActive' = FALSE

LEMMA HaltedIsSafe ==
  ASSUME Halted, MotionOK', LimitsOK', SeenOK', staleLimits' = FALSE
  PROVE  IInv' /\ NoWayBack
<1>1. CalibrationIsLimp'
  BY DEF Halted, CalibrationIsLimp
<1> QED BY <1>1, StoppedIsSafe DEF Halted

LEMMA IdleKept ==
  ASSUME NEW o \in Outcome, NEW i \in Idled(o.drive, o.lost), Keep(i)
  PROVE  drive' \in Drv /\ lost' \in 0..MaxLost
<1>1. i \in Outcome
  BY IdledOutcome DEF Outcome
<1> QED BY <1>1 DEF Keep, Outcome

LEMMA FaultHalts ==
  ASSUME NEW o \in Outcome, NEW bits \in SUBSET FaultBits, FaultWith(o, bits)
  PROVE  Halted /\ state' = "FAULT"
<1>1. drive' \in Drv /\ lost' \in 0..MaxLost
  BY IdleKept DEF FaultWith
<1> QED BY <1>1 DEF FaultWith, Halted, CoreOK, States, Stopped

LEMMA EnterFaultHalts ==
  ASSUME IInv, NEW o \in Outcome, NEW bit \in FaultBits, EnterFault(o, bit)
  PROVE  Halted /\ state' = "FAULT"
BY FaultHalts DEF EnterFault, IInv, CoreOK

LEMMA StopHalts ==
  ASSUME NEW o \in Outcome, StopAtOnce(o), fault' \in SUBSET FaultBits
  PROVE  Halted
<1>1. drive' \in Drv /\ lost' \in 0..MaxLost
  BY IdleKept DEF StopAtOnce
<1> QED BY <1>1 DEF StopAtOnce, Halted, CoreOK, States, Stopped

\* A step of poll goes on as intended or ends in the CAN fault.
LEMMA StepGoesOrHalts ==
  ASSUME IInv, NEW o \in Outcome, NEW c \in Progress, NEW s \in States, Step(o, s, c)
  PROVE  /\ CoreOK'
         /\ \/ Halted
            \/ /\ o.ok /\ state' = s /\ drive' = o.drive /\ fault' = fault
               /\ calActive' = c.active
<1>1. CASE o.ok
  BY <1>1 DEF Step, Go, Keep, CoreOK, IInv, Outcome, Progress
<1>2. CASE ~o.ok
  <2>1. EnterFault(o, "CAN")
    BY <1>2 DEF Step
  <2> QED BY <2>1, EnterFaultHalts DEF FaultBits, Halted
<1> QED BY <1>1, <1>2

LEMMA FeedbackType ==
  ASSUME NEW fb \in Feedback
  PROVE  fb \in [fresh : SUBSET Axis, pos : [Axis -> Int]]
BY PositionAssumption DEF Feedback

-----------------------------------------------------------------------------
(* Commands *)

LEMMA WakeFeedbackIsLimp ==
  ASSUME IInv, state \in Stopped, WakeFeedback
  PROVE  CoreOK' /\ state' \in Stopped /\ CalibrationIsLimp'
<1>1. PICK o \in CalibrationStarted :
        IF o.ok
          THEN /\ Keep(o)
               /\ calActive' = TRUE
               /\ calPhase' = IF calActive THEN calPhase ELSE 0
               /\ UNCHANGED <<state, fault>>
          ELSE EnterFault(o, "CAN")
  BY DEF WakeFeedback
<1>2. o \in Outcome /\ (o.ok => IF calActive THEN o.drive = drive ELSE o.drive = Both("torque"))
  BY CalibrationStartedOutcome, IInvTypes
<1>3. CASE o.ok
  <2>1. CoreOK' /\ state' \in Stopped
    BY <1>1, <1>2, <1>3 DEF IInv, CoreOK, Keep, Outcome
  <2>2. Drives(Commands \ {"position"})'
    <3>1. CASE calActive
      BY <1>1, <1>2, <1>3, <3>1 DEF IInv, CalibrationIsLimp, Drives, Keep
    <3>2. CASE ~calActive
      BY <1>1, <1>2, <1>3, <3>2 DEF Drives, Keep, Both, Bare, Commands
    <3> QED BY <3>1, <3>2
  <2> QED BY <2>1, <2>2 DEF CalibrationIsLimp
<1>4. CASE ~o.ok
  <2>1. Halted
    BY <1>1, <1>2, <1>4, EnterFaultHalts DEF FaultBits
  <2> QED BY <2>1 DEF Halted, CalibrationIsLimp
<1> QED BY <1>3, <1>4

LEMMA EnableWithoutLimitsIsSafe == ASSUME IInv, EnableWithoutLimits PROVE IInv' /\ NoWayBack
<1>1. CoreOK' /\ state' \in Stopped
  BY DEF EnableWithoutLimits, IInv, CoreOK, FaultBits, calVars, canVars
<1>2. MotionOK' /\ LimitsOK' /\ SeenOK' /\ staleLimits' = FALSE
  BY DEF EnableWithoutLimits, IInv, MotionOK, LimitsOK, SeenOK, motion, limitVars
<1>3. CalibrationIsLimp'
  BY DEF EnableWithoutLimits, IInv, CalibrationIsLimp, Drives, calVars, canVars
<1> QED BY <1>1, <1>2, <1>3, StoppedIsSafe

LEMMA EmergencyStopIsSafe == ASSUME IInv, EmergencyStop PROVE IInv' /\ NoWayBack
<1>1. Now \in Outcome
  BY NowOutcome, IInvTypes
<1>2. Halted
  BY <1>1, StopHalts DEF EmergencyStop, IInv, CoreOK
<1>3. MotionOK' /\ LimitsOK' /\ SeenOK' /\ staleLimits' = FALSE
  BY DEF EmergencyStop, IInv, MotionOK, LimitsOK, SeenOK, motion, limitVars
<1> QED BY <1>2, <1>3, HaltedIsSafe

LEMMA NoLimitsType == NoLimits \in [min : [Axis -> Int], max : [Axis -> Int]]
BY HomeType DEF NoLimits

LEMMA ResetLimitsIsSafe == ASSUME IInv, ResetLimits PROVE IInv' /\ NoWayBack
<1>1. CoreOK' /\ state' \in Stopped
  BY DEF ResetLimits, IInv, CoreOK, FaultBits, calVars, canVars
<1>2. MotionOK' /\ LimitsOK' /\ SeenOK' /\ staleLimits' = FALSE
  BY NoLimitsType DEF ResetLimits, IInv, MotionOK, LimitsOK, SeenOK, motion
<1>3. CalibrationIsLimp'
  BY DEF ResetLimits, IInv, CalibrationIsLimp, Drives, calVars, canVars
<1> QED BY <1>1, <1>2, <1>3, StoppedIsSafe

LEMMA SetOriginIsSafe == ASSUME IInv, SetOrigin PROVE IInv' /\ NoWayBack
<1>1. Now \in Outcome
  BY NowOutcome, IInvTypes
<1>2. Halted
  BY <1>1, StopHalts DEF SetOrigin, FaultBits
<1>3. MotionOK' /\ LimitsOK' /\ SeenOK' /\ staleLimits' = FALSE
  BY NoLimitsType DEF SetOrigin, IInv, MotionOK, LimitsOK, SeenOK, motion
<1> QED BY <1>2, <1>3, HaltedIsSafe

LEMMA SetLimitsIsSafe ==
  ASSUME IInv, NEW l \in LimitRequests, SetLimits(l) PROVE IInv' /\ NoWayBack
<1>1. PICK o \in CalibrationStopped :
        IF o.ok
          THEN /\ Keep(o)
               /\ limits' = l /\ marked' = Axis \X Side
               /\ staleLimits' = FALSE
               /\ fault' = fault \ {"LIMIT_CONFIG"}
               /\ calActive' = FALSE /\ calPhase' = 0
               /\ UNCHANGED state
          ELSE EnterFault(o, "CAN") /\ UNCHANGED limitVars
  BY DEF SetLimits
<1>2. o \in Outcome
  BY CalibrationStoppedOutcome, IInvTypes
<1>3. Halted
  <2>1. CASE o.ok
    BY <1>1, <1>2, <2>1 DEF SetLimits, Halted, CoreOK, IInv, Keep, Outcome
  <2>2. CASE ~o.ok
    BY <1>1, <1>2, <2>2, EnterFaultHalts DEF FaultBits
  <2> QED BY <2>1, <2>2
<1>4. MotionOK' /\ SeenOK'
  BY DEF SetLimits, IInv, MotionOK, SeenOK, motion
<1>5. LimitsOK' /\ staleLimits' = FALSE
  BY <1>1, LimitAssumption DEF IInv, LimitsOK, limitVars
<1> QED BY <1>3, <1>4, <1>5, HaltedIsSafe

LEMMA MarkedType ==
  ASSUME LimitsOK, NEW a \in Axis, NEW s \in Side, NEW p \in Int
  PROVE  Marked(a, s, p) \in [min : [Axis -> Int], max : [Axis -> Int]]
BY DEF LimitsOK, Marked

LEMMA CalibrateLimitIsSafe ==
  ASSUME IInv, NEW fb \in Feedback, NEW a \in Axis, NEW s \in Side, CalibrateLimit(fb, a, s)
  PROVE  IInv' /\ NoWayBack
<1> USE DEF CalibrateLimit
<1>0. fb.fresh \in SUBSET Axis /\ fb.pos[a] \in Int
  BY FeedbackType
<1>1. MotionOK' /\ SeenOK' /\ staleLimits' = FALSE
  BY <1>0 DEF IInv, MotionOK, SeenOK, motion
<1>2. LimitsOK
  BY DEF IInv
<1>3. Marked(a, s, fb.pos[a]) \in [min : [Axis -> Int], max : [Axis -> Int]]
  BY <1>0, <1>2, MarkedType
<1>4. marked \cup {<<a, s>>} \in SUBSET (Axis \X Side)
  BY <1>2 DEF LimitsOK
<1>5. CASE a \notin fb.fresh
  <2>1. CoreOK' /\ state' \in Stopped /\ CalibrationIsLimp'
    BY <1>5, WakeFeedbackIsLimp
  <2>2. LimitsOK'
    BY <1>5 DEF IInv, LimitsOK
  <2> QED BY <1>1, <2>1, <2>2, StoppedIsSafe
<1>6. CASE UNCHANGED <<state, fault, limits, marked, calVars, canVars>>
  <2>1. CoreOK' /\ state' \in Stopped /\ LimitsOK'
    BY <1>6 DEF IInv, CoreOK, LimitsOK, calVars, canVars
  <2>2. CalibrationIsLimp'
    BY <1>6 DEF IInv, CalibrationIsLimp, Drives, calVars, canVars
  <2> QED BY <1>1, <2>1, <2>2, StoppedIsSafe
<1>7. CASE /\ limits' = Marked(a, s, fb.pos[a])
           /\ marked' = marked \cup {<<a, s>>}
           /\ fault' = fault \ {"LIMIT_CONFIG"}
           /\ UNCHANGED <<state, calVars, canVars>>
  <2>1. CoreOK' /\ state' \in Stopped
    BY <1>7 DEF IInv, CoreOK, calVars, canVars
  <2>2. LimitsOK'
    BY <1>7, <1>3, <1>4 DEF LimitsOK
  <2>3. CalibrationIsLimp'
    BY <1>7 DEF IInv, CalibrationIsLimp, Drives, calVars, canVars
  <2> QED BY <1>1, <2>1, <2>2, <2>3, StoppedIsSafe
<1>8. ASSUME limits' = Marked(a, s, fb.pos[a]),
             marked' = marked \cup {<<a, s>>},
             NEW o \in CalibrationStopped,
             IF o.ok
               THEN /\ Keep(o)
                    /\ calActive' = FALSE /\ calPhase' = 0
                    /\ fault' = fault \ {"LIMIT_CONFIG"}
                    /\ UNCHANGED state
               ELSE FaultWith(o, (fault \ {"LIMIT_CONFIG"}) \cup {"CAN"})
      PROVE  IInv' /\ NoWayBack
  <2>1. o \in Outcome
    BY CalibrationStoppedOutcome, IInvTypes
  <2>2. Halted
    <3>1. CASE o.ok
      BY <1>8, <2>1, <3>1 DEF Halted, CoreOK, IInv, Keep, Outcome
    <3>2. CASE ~o.ok
      <4>1. (fault \ {"LIMIT_CONFIG"}) \cup {"CAN"} \in SUBSET FaultBits
        BY DEF IInv, CoreOK, FaultBits
      <4> QED BY <1>8, <2>1, <3>2, <4>1, FaultHalts
    <3> QED BY <3>1, <3>2
  <2>3. LimitsOK'
    BY <1>8, <1>3, <1>4 DEF LimitsOK
  <2> QED BY <1>1, <2>2, <2>3, HaltedIsSafe
<1>9. CASE a \in fb.fresh
  <2> DEFINE p == fb.pos[a]
             l == Marked(a, s, p)
             m == marked \cup {<<a, s>>}
             refused == \/ s = "min" /\ p >= 0
                        \/ s = "max" /\ p <= 0
                        \/ Abs(p) > MaxAbsLimit
                        \/ m = Axis \X Side /\ ~LimitsValid(l, m)
  <2>1. IF refused THEN UNCHANGED <<state, fault, limits, marked, calVars, canVars>>
        ELSE
          /\ limits' = l /\ marked' = m
          /\ IF m # Axis \X Side
               THEN fault' = fault \ {"LIMIT_CONFIG"} /\ UNCHANGED <<state, calVars, canVars>>
               ELSE \E o \in CalibrationStopped :
                 IF o.ok
                   THEN /\ Keep(o)
                        /\ calActive' = FALSE /\ calPhase' = 0
                        /\ fault' = fault \ {"LIMIT_CONFIG"}
                        /\ UNCHANGED state
                   ELSE FaultWith(o, (fault \ {"LIMIT_CONFIG"}) \cup {"CAN"})
    BY <1>9, Zenon
  <2>2. CASE refused
    BY <1>6, <2>1, <2>2
  <2>3. CASE ~refused /\ m # Axis \X Side
    <3> HIDE DEF refused
    <3> QED BY <1>7, <2>1, <2>3
  <2>4. CASE ~refused /\ m = Axis \X Side
    <3> HIDE DEF refused
    <3> QED BY <1>8, <2>1, <2>4
  <2> QED BY <2>2, <2>3, <2>4
<1> QED BY <1>5, <1>9

\* Limits that are valid hold zero between them.
LEMMA HomeWithinLimits ==
  ASSUME LimitsValid(limits, marked), NEW a \in Axis
  PROVE  limits.min[a] < 0 /\ 0 < limits.max[a]
BY DEF LimitsValid, RangeOK

LEMMA EnableIsSafe ==
  ASSUME IInv, NEW fb \in Feedback, NEW torque \in Torques, Enable(fb, torque)
  PROVE  IInv' /\ NoWayBack
<1>1. /\ state \in Stopped /\ LimitsValid(limits, marked)
      /\ seen' = fb.fresh /\ UNCHANGED limitVars
  BY DEF Enable
<1>2. fb.fresh \in SUBSET Axis /\ fb.pos["pitch"] \in Int /\ torque \in Nat
  BY FeedbackType, TorqueAssumption DEF Axis
<1>3. LimitsOK' /\ SeenOK' /\ staleLimits' = FALSE
  BY <1>1, <1>2 DEF IInv, LimitsOK, SeenOK, limitVars
<1>4. CASE fb.fresh # Axis
  <2>1. WakeFeedback /\ UNCHANGED motion
    BY <1>4 DEF Enable
  <2>2. MotionOK'
    BY <2>1 DEF IInv, MotionOK, motion
  <2> QED BY <1>1, <1>3, <2>1, <2>2, WakeFeedbackIsLimp, StoppedIsSafe
<1>5. CASE fb.fresh = Axis
  <2>1. PICK s \in CalibrationStopped :
          IF ~s.ok THEN EnterFault(s, "CAN") /\ UNCHANGED motion
          ELSE
            /\ startup' = [valid |-> TRUE, pitch |-> fb.pos["pitch"]]
            /\ returnTorque' = torque
            /\ target' = Home
            /\ streaming' = FALSE /\ moving' = FALSE
            /\ homeSettle' = 0 /\ startPhase' = 0
            /\ UNCHANGED <<stopTorque, returnSettle>>
            /\ \E o \in Sent(s.drive, s.lost, Both("mode")) :
                 IF o.ok
                   THEN /\ Keep(o)
                        /\ calActive' = FALSE /\ calPhase' = 0
                        /\ fault' = {}
                        /\ state' = "STARTING"
                   ELSE FaultWith(o, {"CAN"})
    BY <1>5 DEF Enable
  <2>2. s \in Outcome
    BY CalibrationStoppedOutcome, IInvTypes
  <2>3. CASE ~s.ok
    <3>1. Halted
      BY <2>1, <2>2, <2>3, EnterFaultHalts DEF FaultBits
    <3>2. MotionOK'
      BY <2>1, <2>3 DEF IInv, MotionOK, motion
    <3> QED BY <1>3, <3>1, <3>2, HaltedIsSafe
  <2>4. CASE s.ok
    <3>1. MotionOK'
      <4>1. /\ startup' = [valid |-> TRUE, pitch |-> fb.pos["pitch"]] /\ returnTorque' = torque
            /\ target' = Home /\ streaming' = FALSE /\ moving' = FALSE
            /\ homeSettle' = 0 /\ startPhase' = 0
            /\ stopTorque' = stopTorque /\ returnSettle' = returnSettle
        BY <2>1, <2>4
      <4>2. stopTorque \in Nat /\ returnSettle \in 0..SettleSamples
        BY DEF IInv, MotionOK
      <4>3. startup' \in [valid : BOOLEAN, pitch : Int] /\ target' \in [Axis -> Int]
        BY <1>2, <4>1, HomeType
      <4>4. /\ returnTorque' \in Nat /\ stopTorque' \in Nat /\ startPhase' \in {0, 1}
            /\ homeSettle' \in 0..SettleSamples /\ returnSettle' \in 0..SettleSamples
        BY <1>2, <4>1, <4>2, SizeAssumption
      <4>5. moving' \in BOOLEAN /\ streaming' \in BOOLEAN
        BY <4>1
      <4> QED BY <4>3, <4>4, <4>5 DEF MotionOK
    <3>2. PICK o \in Sent(s.drive, s.lost, Both("mode")) :
            IF o.ok
              THEN /\ Keep(o)
                   /\ calActive' = FALSE /\ calPhase' = 0
                   /\ fault' = {}
                   /\ state' = "STARTING"
              ELSE FaultWith(o, {"CAN"})
      BY <2>1, <2>4
    <3>3. Both("mode") \in Drv
      BY BareFrame DEF Commands
    <3>4. o \in Outcome /\ (o.ok => o.drive = Both("mode"))
      BY <2>2, <3>3, SentOutcome DEF Outcome
    <3>5. CASE ~o.ok
      <4>1. Halted
        BY <3>2, <3>4, <3>5, FaultHalts DEF FaultBits
      <4> QED BY <1>3, <3>1, <4>1, HaltedIsSafe
    <3>6. CASE o.ok
      <4>1. CoreOK'
        BY <3>2, <3>4, <3>6 DEF CoreOK, Keep, Outcome, States
      <4>2. CalibrationIsLimp'
        BY <3>2, <3>6 DEF CalibrationIsLimp
      <4>3. MotionIsInformed'
        BY <1>1, <1>3, <1>5 DEF MotionIsInformed, limitVars
      <4>4. GoalsInLimits'
        BY <3>2, <3>4, <3>6 DEF GoalsInLimits, Keep, Both, Bare
      <4>5. FaultsAreHonoured'
        BY <3>2, <3>6 DEF FaultsAreHonoured
      <4>6. TargetInReach'
        <5>1. state' = "STARTING" /\ target' = Home /\ limits' = limits
          BY <1>1, <2>1, <2>4, <3>2, <3>6 DEF limitVars
        <5>2. limits \in [min : [Axis -> Int], max : [Axis -> Int]]
          BY DEF IInv, LimitsOK
        <5> QED BY <1>1, <5>1, <5>2, HomeWithinLimits DEF TargetInReach, Home
      <4>7. NoWayBack
        BY <1>1, <3>2, <3>6 DEF NoWayBack, Stopped
      <4>8. SettleCounts'
        BY <2>1, <2>4, <3>2, <3>6, SizeAssumption DEF SettleCounts
      <4> QED BY <1>3, <3>1, <4>1, <4>2, <4>3, <4>4, <4>5, <4>6, <4>7, <4>8 DEF IInv
    <3> QED BY <3>5, <3>6
  <2> QED BY <2>3, <2>4
<1> QED BY <1>4, <1>5

\* A position command is where its frame says.
LEMMA GotoGoals ==
  ASSUME NEW t \in [Axis -> Int], NEW a \in Axis
  PROVE  Goto(t)[a].goal = t[a]
BY DEF Goto, Position

\* The beginning of the controlled shutdown, from a running gimbal.
LEMMA BeginReturnIsSafe ==
  ASSUME NEW fb, NEW c, NEW bits, NEW m, BeginReturn(fb, c, bits, m),
         IInv, state \in Returnable,
         fb \in [fresh : SUBSET Axis, pos : [Axis -> Int]], c \in Progress,
         c.active = FALSE, bits \in SUBSET {"COMMAND_TIMEOUT"}, m \in BOOLEAN,
         seen' = fb.fresh, UNCHANGED limitVars,
         UNCHANGED <<startup, returnTorque, stopTorque, startPhase, homeSettle, streaming>>
  PROVE  IInv' /\ NoWayBack
<1> DEFINE t == [a \in Axis |-> IF a = "yaw" THEN fb.pos[a] ELSE startup.pitch]
<1>1. c.sent \in Outcome /\ bits \in SUBSET FaultBits /\ bits \cup {"CAN"} \in SUBSET FaultBits
  BY DEF Progress, FaultBits
<1>2. t \in [Axis -> Int]
  BY DEF IInv, MotionOK
<1>3. LimitsOK' /\ SeenOK' /\ staleLimits' = FALSE
  BY DEF IInv, LimitsOK, SeenOK, limitVars
<1>4. CASE ~CanReturn(fb, t)
  <2>1. StopAtOnce(c.sent) /\ fault' = bits /\ moving' = m /\ UNCHANGED <<target, returnSettle>>
    BY <1>4 DEF BeginReturn
  <2>2. Halted
    BY <1>1, <2>1, StopHalts
  <2>3. MotionOK'
    BY <2>1 DEF IInv, MotionOK
  <2> QED BY <1>3, <2>2, <2>3, HaltedIsSafe
<1>5. CASE CanReturn(fb, t)
  <2>1. /\ target' = t /\ returnSettle' = 0 /\ moving' = TRUE
        /\ \E o \in Sent(c.sent.drive, c.sent.lost, Goto(t)) :
             IF o.ok THEN Go(o, "RETURNING", c) /\ fault' = bits
                     ELSE FaultWith(o, bits \cup {"CAN"})
    BY <1>5 DEF BeginReturn
  <2>2. MotionOK'
    <3> HIDE DEF t
    <3> QED BY <1>2, <2>1, SizeAssumption DEF IInv, MotionOK
  <2>3. PICK o \in Sent(c.sent.drive, c.sent.lost, Goto(t)) :
          IF o.ok THEN Go(o, "RETURNING", c) /\ fault' = bits
                  ELSE FaultWith(o, bits \cup {"CAN"})
    BY <2>1
  <2> HIDE DEF t
  <2>4. o \in Outcome /\ (o.ok => o.drive = Goto(t))
    BY <1>1, <1>2, GotoFrame, SentOutcome DEF Outcome
  <2>5. CASE ~o.ok
    <3>1. Halted
      BY <1>1, <2>3, <2>4, <2>5, FaultHalts
    <3> QED BY <1>3, <2>2, <3>1, HaltedIsSafe
  <2>6. CASE o.ok
    <3>1. state' = "RETURNING" /\ calActive' = FALSE /\ fault' = bits /\ drive' = Goto(t)
      BY <2>3, <2>4, <2>6 DEF Go, Keep
    <3>2. CoreOK'
      BY <1>1, <2>3, <2>4, <2>6 DEF Go, Keep, CoreOK, Outcome, Progress, States
    <3>3. CalibrationIsLimp'
      BY <3>1 DEF CalibrationIsLimp
    <3>4. LimitsValid(limits, marked) /\ fb.fresh = Axis
          /\ \A a \in Axis : limits.min[a] <= t[a] /\ t[a] <= limits.max[a]
      BY <1>5 DEF CanReturn, TargetValid
    <3>5. MotionIsInformed'
      BY <1>3, <3>4 DEF MotionIsInformed, limitVars
    <3>6. limits' = limits /\ limits \in [min : [Axis -> Int], max : [Axis -> Int]]
      BY DEF IInv, LimitsOK, limitVars
    <3>7. GoalsInLimits'
      BY <1>2, <3>1, <3>4, <3>6, GotoGoals DEF GoalsInLimits
    <3>8. TargetInReach'
      BY <1>2, <2>1, <3>1, <3>4, <3>6 DEF TargetInReach
    <3>9. FaultsAreHonoured' /\ NoWayBack
      BY <3>1 DEF FaultsAreHonoured, NoWayBack, Returnable, Stopped
    <3>10. SettleCounts'
      BY <2>1, <3>1, SizeAssumption DEF SettleCounts
    <3> QED BY <1>3, <2>2, <3>2, <3>3, <3>5, <3>7, <3>8, <3>9, <3>10 DEF IInv
  <2> QED BY <2>5, <2>6
<1> QED BY <1>4, <1>5

\* No calibration is under way in a running gimbal.
LEMMA NoCalibration == ASSUME IInv, state \notin Stopped PROVE calActive = FALSE
BY DEF IInv, CoreOK, CalibrationIsLimp

LEMMA DisableIsSafe ==
  ASSUME IInv, NEW fb \in Feedback, Disable(fb) PROVE IInv' /\ NoWayBack
<1>1. Now \in Outcome
  BY NowOutcome, IInvTypes
<1>2. CASE /\ state = "DISABLED"
           /\ \E o \in CalibrationStopped : Keep(o)
           /\ calActive' = FALSE /\ calPhase' = 0
           /\ UNCHANGED <<state, fault, seen, motion, limitVars>>
  <2>1. drive' \in Drv /\ lost' \in 0..MaxLost
    BY <1>2, CalibrationStoppedOutcome, IInvTypes DEF Keep, Outcome
  <2>2. Halted
    BY <1>2, <2>1 DEF IInv, Halted, CoreOK, Stopped
  <2>3. MotionOK' /\ LimitsOK' /\ SeenOK' /\ staleLimits' = FALSE
    BY <1>2 DEF IInv, MotionOK, LimitsOK, SeenOK, motion, limitVars
  <2> QED BY <2>2, <2>3, HaltedIsSafe
<1>3. CASE /\ state = "FAULT"
           /\ StopAtOnce(Now)
           /\ UNCHANGED <<fault, seen, motion, limitVars>>
  <2>1. Halted
    BY <1>1, <1>3, StopHalts DEF IInv, CoreOK
  <2>2. MotionOK' /\ LimitsOK' /\ SeenOK' /\ staleLimits' = FALSE
    BY <1>3 DEF IInv, MotionOK, LimitsOK, SeenOK, motion, limitVars
  <2> QED BY <2>1, <2>2, HaltedIsSafe
<1>4. CASE /\ state \in Returnable
           /\ seen' = fb.fresh
           /\ BeginReturn(fb, Started, fault, moving)
           /\ UNCHANGED <<startup, returnTorque, stopTorque, startPhase, homeSettle,
                          streaming, limitVars>>
  <2>1. state \notin Stopped /\ fault \in SUBSET {"COMMAND_TIMEOUT"}
    BY <1>4 DEF IInv, FaultsAreHonoured, Returnable, Stopped
  <2>2. Started \in Progress /\ Started.active = calActive
    BY <1>1 DEF Started, Progress, IInv, CoreOK
  <2>3. Started.active = FALSE /\ moving \in BOOLEAN
    BY <2>1, <2>2, NoCalibration DEF IInv, MotionOK
  <2>4. UNCHANGED limitVars
        /\ UNCHANGED <<startup, returnTorque, stopTorque, startPhase, homeSettle, streaming>>
    BY <1>4
  <2>5. fb \in [fresh : SUBSET Axis, pos : [Axis -> Int]]
    BY FeedbackType
  <2>6. BeginReturn(fb, Started, fault, moving) /\ state \in Returnable /\ seen' = fb.fresh
    BY <1>4
  <2> QED BY <2>1, <2>2, <2>3, <2>4, <2>5, <2>6, BeginReturnIsSafe, Zenon
<1> QED BY <1>2, <1>3, <1>4 DEF Disable

LEMMA SetTargetIsSafe ==
  ASSUME IInv, NEW t \in Targets, NEW timed \in BOOLEAN, SetTarget(t, timed)
  PROVE  IInv' /\ NoWayBack
<1>1. state = "ACTIVE" /\ TargetValid(t) /\ UNCHANGED <<seen, limitVars>>
      /\ UNCHANGED <<startup, returnTorque, stopTorque, startPhase, homeSettle, returnSettle>>
  BY DEF SetTarget
<1>2. t \in [Axis -> Int] /\ drive \in Drv /\ lost \in 0..MaxLost
  BY PositionAssumption, SendTypes
<1>3. LimitsOK' /\ SeenOK' /\ staleLimits' = FALSE
  BY <1>1 DEF IInv, LimitsOK, SeenOK, limitVars
<1>4. PICK o \in Sent(drive, lost, Goto(t)) :
        IF o.ok
          THEN /\ Keep(o) /\ target' = t /\ streaming' = timed /\ moving' = TRUE
               /\ UNCHANGED <<state, fault, calVars>>
          ELSE EnterFault(o, "CAN") /\ UNCHANGED <<target, streaming, moving>>
  BY DEF SetTarget
<1>5. o \in Outcome /\ (o.ok => o.drive = Goto(t))
  BY <1>2, GotoFrame, SentOutcome
<1>6. MotionOK'
  BY <1>1, <1>2, <1>4 DEF IInv, MotionOK
<1>7. CASE ~o.ok
  <2>1. Halted
    BY <1>4, <1>5, <1>7, EnterFaultHalts DEF FaultBits
  <2> QED BY <1>3, <1>6, <2>1, HaltedIsSafe
<1>8. CASE o.ok
  <2>1. state' = "ACTIVE" /\ drive' = Goto(t) /\ target' = t /\ fault' = fault
    BY <1>1, <1>4, <1>5, <1>8 DEF Keep
  <2>2. CoreOK'
    BY <1>4, <1>5, <1>8 DEF IInv, CoreOK, Keep, Outcome, calVars
  <2>3. CalibrationIsLimp'
    <3>1. calActive' = calActive
      BY <1>4, <1>8 DEF calVars
    <3>2. calActive = FALSE
      BY <1>1, NoCalibration DEF Stopped
    <3> QED BY <3>1, <3>2 DEF CalibrationIsLimp
  <2>4. MotionIsInformed'
    BY <1>1, <1>3, <2>1 DEF IInv, MotionIsInformed, Stopped, limitVars
  <2>5. /\ limits' = limits /\ limits \in [min : [Axis -> Int], max : [Axis -> Int]]
        /\ \A a \in Axis : limits.min[a] <= t[a] /\ t[a] <= limits.max[a]
    BY <1>1 DEF IInv, LimitsOK, limitVars, TargetValid
  <2>6. GoalsInLimits'
    BY <1>2, <2>1, <2>5, GotoGoals DEF GoalsInLimits
  <2>7. TargetInReach'
    BY <1>2, <2>1, <2>5 DEF TargetInReach
  <2>8. FaultsAreHonoured' /\ SettleCounts' /\ NoWayBack
    BY <1>1, <2>1 DEF IInv, FaultsAreHonoured, SettleCounts, NoWayBack, Stopped
  <2> QED BY <1>3, <1>6, <2>2, <2>3, <2>4, <2>6, <2>7, <2>8 DEF IInv
<1> QED BY <1>7, <1>8

-----------------------------------------------------------------------------
(* Polls *)

\* What all polls of a running gimbal leave alone.
LEMMA LimitsKept ==
  ASSUME IInv, UNCHANGED limitVars
  PROVE  /\ LimitsOK' /\ staleLimits' = FALSE
         /\ limits' = limits /\ marked' = marked
         /\ limits \in [min : [Axis -> Int], max : [Axis -> Int]]
BY DEF IInv, LimitsOK, limitVars

\* A poll that goes on in a running state, on fresh feedback and without a fault.
LEMMA RunsOnIsSafe ==
  ASSUME IInv, state \notin Stopped, UNCHANGED limitVars, seen' = Axis,
         CoreOK', MotionOK', calActive' = FALSE, fault' = fault,
         GoalsInLimits', TargetInReach', SettleCounts',
         state' \in {"RETURNING", "STOPPING"} \/ state \in {"STARTING", "HOMING", "ACTIVE"},
         NoWayBack
  PROVE  IInv' /\ NoWayBack
<1>1. LimitsOK' /\ staleLimits' = FALSE
  BY LimitsKept
<1>2. SeenOK' /\ CalibrationIsLimp'
  BY DEF SeenOK, CalibrationIsLimp
<1>3. MotionIsInformed'
  BY LimitsKept DEF IInv, MotionIsInformed
<1>4. FaultsAreHonoured'
  BY DEF IInv, FaultsAreHonoured, Stopped
<1> QED BY <1>1, <1>2, <1>3, <1>4 DEF IInv

\* Repeating a command for a place in reach keeps every command in reach.
LEMMA GoalsStayNear ==
  ASSUME IInv, state \notin Stopped, UNCHANGED limitVars,
         state # "STOPPING" \/ state' = "STOPPING",
         NEW t \in [Axis -> Int],
         \A a \in Axis : drive'[a] \in {drive[a], Position(t[a])},
         NEW slack, slack = IF state' = "STOPPING" THEN Overshoot ELSE 0,
         \A a \in Axis : limits.min[a] - slack <= t[a] /\ t[a] <= limits.max[a] + slack
  PROVE  GoalsInLimits'
<1>1. limits' = limits /\ limits \in [min : [Axis -> Int], max : [Axis -> Int]]
  BY LimitsKept
<1>2. drive \in Drv /\ slack \in Nat
  BY SendTypes, SizeAssumption
<1>3. ASSUME NEW a \in Axis, drive'[a].cmd = "position"
      PROVE  limits.min[a] - slack <= drive'[a].goal /\ drive'[a].goal <= limits.max[a] + slack
  <2>1. CASE drive'[a] = drive[a]
    <3>1. drive[a].goal \in Int /\ limits.min[a] \in Int /\ limits.max[a] \in Int
      BY <1>1, <1>2 DEF Drv
    <3>2. LET old == IF state = "STOPPING" THEN Overshoot ELSE 0
          IN  limits.min[a] - old <= drive[a].goal /\ drive[a].goal <= limits.max[a] + old
      BY <1>3, <2>1 DEF IInv, GoalsInLimits
    <3> QED BY <1>2, <2>1, <3>1, <3>2, SizeAssumption
  <2>2. CASE drive'[a] = Position(t[a])
    BY <2>2 DEF Position
  <2> QED BY <2>1, <2>2
<1> QED BY <1>1, <1>3 DEF GoalsInLimits

\* The limits of a running gimbal hold zero.
LEMMA HomeInReach ==
  ASSUME IInv, state \notin Stopped, NEW a \in Axis
  PROVE  limits.min[a] <= Home[a] /\ Home[a] <= limits.max[a]
<1>1. LimitsValid(limits, marked)
  BY DEF IInv, MotionIsInformed
<1>2. limits \in [min : [Axis -> Int], max : [Axis -> Int]]
  BY DEF IInv, LimitsOK
<1> QED BY <1>1, <1>2, HomeWithinLimits DEF Home

LEMMA PollStartingIsSafe ==
  ASSUME IInv, NEW late, NEW c \in Progress, c.active = FALSE, c.sent.drive = drive,
         PollStarting(late, c), state = "STARTING", seen' = Axis, UNCHANGED limitVars
  PROVE  IInv' /\ NoWayBack
<1>1. c.sent \in Outcome /\ c.sent.drive \in Drv /\ c.sent.lost \in 0..MaxLost
  BY DEF Progress, Outcome
<1>2. /\ state \notin Stopped /\ SeenOK' /\ LimitsOK' /\ staleLimits' = FALSE
      /\ UNCHANGED <<target, startup, returnTorque, stopTorque, homeSettle, returnSettle,
                     moving, streaming>>
  BY LimitsKept DEF PollStarting, Stopped, SeenOK
\* The three ways it goes on, each by a Step with what was sent.
<1>3. ASSUME NEW o \in Outcome, NEW s \in {"STARTING", "HOMING"}, Step(o, s, c),
             startPhase' \in {0, 1},
             o.ok => \A a \in Axis : \/ o.drive[a].cmd # "position"
                                     \/ o.drive[a] \in {drive[a], Position(Home[a])}
      PROVE  IInv' /\ NoWayBack
  <2>1. MotionOK'
    BY <1>2, <1>3 DEF IInv, MotionOK
  <2>2. s \in States
    BY DEF States
  <2>3. CASE Halted
    BY <1>2, <2>1, <2>3, HaltedIsSafe
  <2>4. CASE ~Halted
    <3>1. /\ CoreOK' /\ o.ok /\ state' = s /\ drive' = o.drive /\ fault' = fault
          /\ calActive' = c.active
      BY <1>3, <2>2, <2>4, StepGoesOrHalts
    <3>2. limits' = limits /\ limits \in [min : [Axis -> Int], max : [Axis -> Int]]
      BY LimitsKept
    <3>3. GoalsInLimits'
      <4>1. ASSUME NEW a \in Axis, drive'[a].cmd = "position"
            PROVE  limits.min[a] <= drive'[a].goal /\ drive'[a].goal <= limits.max[a]
        <5>1. CASE drive'[a] = Position(Home[a])
          BY <1>2, <5>1, HomeInReach DEF Position
        <5>2. CASE drive'[a] = drive[a]
          <6>1. drive[a] \in [cmd : Commands, goal : Int]
            BY SendTypes DEF Drv
          <6>2. limits.min[a] - 0 <= drive[a].goal /\ drive[a].goal <= limits.max[a] + 0
            BY <1>2, <4>1, <5>2 DEF IInv, GoalsInLimits
          <6> QED BY <3>2, <5>2, <6>1, <6>2
        <5> QED BY <1>3, <3>1, <4>1, <5>1, <5>2
      <4>2. \A a \in Axis : drive'[a] \in [cmd : Commands, goal : Int]
        BY <3>1 DEF CoreOK, Drv
      <4> QED BY <1>3, <3>1, <3>2, <4>1, <4>2 DEF GoalsInLimits
    <3>4. TargetInReach'
      BY <1>2, <1>3, <3>1, <3>2 DEF IInv, TargetInReach
    <3>5. SettleCounts' /\ NoWayBack
      BY <1>2, <1>3, <3>1 DEF IInv, SettleCounts, NoWayBack, Stopped
    <3> QED BY <1>2, <2>1, <3>1, <3>3, <3>4, <3>5, RunsOnIsSafe
  <2> QED BY <2>3, <2>4
<1>4. CASE "step" \notin late
  <2>1. Step(c.sent, "STARTING", c) /\ startPhase' = startPhase
    BY <1>4 DEF PollStarting
  <2>2. startPhase' \in {0, 1}
    BY <2>1 DEF IInv, MotionOK
  <2> QED BY <1>1, <1>3, <2>1, <2>2
<1>5. CASE "step" \in late /\ startPhase = 0
  <2>1. PICK o \in Sent(c.sent.drive, c.sent.lost, Both("enable")) :
          Step(o, "STARTING", c) /\ startPhase' = IF o.ok THEN 1 ELSE 0
    BY <1>5 DEF PollStarting
  <2>2. o \in Outcome /\ (o.ok => o.drive = Both("enable"))
    BY <1>1, BareFrame, SentOutcome DEF Commands
  <2>3. \A a \in Axis : Both("enable")[a].cmd # "position"
    BY DEF Both, Bare
  <2> QED BY <1>3, <2>1, <2>2, <2>3
<1>6. CASE "step" \in late /\ startPhase # 0
  <2>1. PICK o \in Sent(c.sent.drive, c.sent.lost, Goto(Home)) :
          Step(o, "HOMING", c) /\ startPhase' = startPhase
    BY <1>6 DEF PollStarting
  <2>2. o \in Outcome /\ (o.ok => o.drive = Goto(Home))
    BY <1>1, HomeType, GotoFrame, SentOutcome
  <2>3. \A a \in Axis : Goto(Home)[a] = Position(Home[a])
    BY DEF Goto
  <2>4. startPhase' \in {0, 1}
    BY <2>1 DEF IInv, MotionOK
  <2> QED BY <1>3, <2>1, <2>2, <2>3, <2>4
<1> QED BY <1>4, <1>5, <1>6

LEMMA PollHomingIsSafe ==
  ASSUME IInv, NEW fb \in Feedback, NEW late, NEW c \in Progress, c.active = FALSE,
         c.sent.drive = drive, PollHoming(fb, late, c), state = "HOMING", seen' = Axis,
         UNCHANGED limitVars
  PROVE  IInv' /\ NoWayBack
<1>1. /\ state \notin Stopped /\ SeenOK' /\ LimitsOK' /\ staleLimits' = FALSE
      /\ UNCHANGED <<target, startup, returnTorque, stopTorque, startPhase, returnSettle,
                     streaming>>
  BY LimitsKept DEF PollHoming, Stopped, SeenOK
<1>2. PICK o \in Refreshed(late, c, Home), slow \in BOOLEAN :
        IF ~o.ok THEN EnterFault(o, "CAN") /\ UNCHANGED <<homeSettle, moving>>
        ELSE LET home == slow /\ \A a \in Axis : Near(fb.pos[a], 0)
                 n == IF home THEN homeSettle + 1 ELSE 0
             IN  /\ homeSettle' = n
                 /\ moving' = (moving /\ n < SettleSamples)
                 /\ IF HomingTooLong(late) THEN EnterFault(o, "HOME_TIMEOUT")
                    ELSE /\ Go(o, IF n >= SettleSamples THEN "ACTIVE" ELSE "HOMING", c)
                         /\ UNCHANGED fault
  BY DEF PollHoming
<1>3. o \in Outcome /\ \A a \in Axis : o.drive[a] \in {drive[a], Position(Home[a])}
  BY HomeType, RefreshedOutcome
<1>4. CASE ~o.ok
  <2>1. Halted
    BY <1>2, <1>3, <1>4, EnterFaultHalts DEF FaultBits
  <2>2. MotionOK'
    BY <1>1, <1>2, <1>4 DEF IInv, MotionOK
  <2> QED BY <1>1, <2>1, <2>2, HaltedIsSafe
<1>5. CASE o.ok
  <2> DEFINE home == slow /\ \A a \in Axis : Near(fb.pos[a], 0)
             n == IF home THEN homeSettle + 1 ELSE 0
             s == IF n >= SettleSamples THEN "ACTIVE" ELSE "HOMING"
  <2>1. /\ homeSettle' = n /\ moving' = (moving /\ n < SettleSamples)
        /\ IF HomingTooLong(late) THEN EnterFault(o, "HOME_TIMEOUT")
           ELSE Go(o, s, c) /\ UNCHANGED fault
    BY <1>2, <1>5
  <2>2. homeSettle \in Nat /\ homeSettle < SettleSamples
    BY <1>1 DEF IInv, MotionOK, SettleCounts
  <2>3. n \in 0..SettleSamples
    <3> HIDE DEF home
    <3> QED BY <2>2, SizeAssumption
  <2> HIDE DEF n
  <2>4. MotionOK'
    <3>1. moving' \in BOOLEAN
      BY <2>1
    <3>2. homeSettle' \in 0..SettleSamples
      BY <2>1, <2>3
    <3> QED BY <1>1, <3>1, <3>2 DEF IInv, MotionOK
  <2>5. CASE HomingTooLong(late)
    <3>1. Halted
      BY <1>3, <2>1, <2>5, EnterFaultHalts DEF FaultBits
    <3> QED BY <1>1, <2>4, <3>1, HaltedIsSafe
  <2>6. CASE ~HomingTooLong(late)
    <3>1. s \in {"HOMING", "ACTIVE"} /\ (s = "HOMING" => n < SettleSamples)
      BY <2>3, SizeAssumption
    <3> HIDE DEF s
    <3>2. state' = s /\ drive' = o.drive /\ fault' = fault /\ calActive' = FALSE
      BY <2>1, <2>6 DEF Go, Keep
    <3>3. CoreOK'
      BY <1>3, <2>1, <2>6, <3>1 DEF Go, Keep, IInv, CoreOK, Outcome, Progress, States
    <3>4. \A a \in Axis : limits.min[a] - 0 <= Home[a] /\ Home[a] <= limits.max[a] + 0
      BY <1>1, HomeInReach, LimitsKept, HomeType
    <3>5. state # "STOPPING" /\ 0 = IF state' = "STOPPING" THEN Overshoot ELSE 0
      BY <3>1, <3>2
    <3>6. GoalsInLimits'
      BY <1>1, <1>3, <3>2, <3>4, <3>5, HomeType, GoalsStayNear
    <3>7. TargetInReach'
      BY <1>1, <3>1, <3>2, LimitsKept DEF IInv, TargetInReach
    <3>8. SettleCounts' /\ NoWayBack
      BY <1>1, <2>1, <3>1, <3>2 DEF SettleCounts, NoWayBack, Stopped
    <3> QED BY <1>1, <2>4, <3>2, <3>3, <3>6, <3>7, <3>8, RunsOnIsSafe
  <2> QED BY <2>5, <2>6
<1> QED BY <1>4, <1>5

LEMMA PollReturningIsSafe ==
  ASSUME IInv, NEW fb \in Feedback, ~Exceeded(fb.pos), NEW late, NEW c \in Progress,
         c.active = FALSE, c.sent.drive = drive, PollReturning(fb, late, c),
         state = "RETURNING", seen' = Axis, UNCHANGED limitVars
  PROVE  IInv' /\ NoWayBack
<1>1. /\ state \notin Stopped /\ SeenOK' /\ LimitsOK' /\ staleLimits' = FALSE
      /\ limits' = limits /\ limits \in [min : [Axis -> Int], max : [Axis -> Int]]
      /\ UNCHANGED <<startup, returnTorque, startPhase, homeSettle, streaming>>
  BY LimitsKept DEF PollReturning, Stopped, SeenOK
<1>2. PICK o \in Refreshed(late, c, target), slow \in BOOLEAN :
        IF ~o.ok THEN EnterFault(o, "CAN") /\ UNCHANGED <<target, stopTorque, returnSettle, moving>>
        ELSE LET back == slow /\ Near(fb.pos["pitch"], startup.pitch)
                 n == IF back THEN returnSettle + 1 ELSE 0
             IN  /\ returnSettle' = n
                 /\ IF n >= SettleSamples
                      THEN /\ target' = fb.pos
                           /\ stopTorque' = returnTorque
                           /\ moving' = FALSE
                           /\ \E p \in Sent(o.drive, o.lost, Goto(fb.pos)) : Step(p, "STOPPING", c)
                      ELSE /\ IF "deadline" \in late THEN EnterFault(o, "MOTION_TIMEOUT")
                                                     ELSE Step(o, "RETURNING", c)
                           /\ UNCHANGED <<target, stopTorque, moving>>
  BY DEF PollReturning
<1>3. target \in [Axis -> Int] /\ fb.pos \in [Axis -> Int]
  BY FeedbackType DEF IInv, MotionOK
<1>4. o \in Outcome /\ \A a \in Axis : o.drive[a] \in {drive[a], Position(target[a])}
  BY <1>3, RefreshedOutcome
<1>5. CASE ~o.ok
  <2>1. Halted
    BY <1>2, <1>4, <1>5, EnterFaultHalts DEF FaultBits
  <2>2. MotionOK'
    BY <1>1, <1>2, <1>5 DEF IInv, MotionOK
  <2> QED BY <1>1, <2>1, <2>2, HaltedIsSafe
<1>6. CASE o.ok
  <2> DEFINE back == slow /\ Near(fb.pos["pitch"], startup.pitch)
             n == IF back THEN returnSettle + 1 ELSE 0
  <2>1. /\ returnSettle' = n
        /\ IF n >= SettleSamples
             THEN /\ target' = fb.pos
                  /\ stopTorque' = returnTorque
                  /\ moving' = FALSE
                  /\ \E p \in Sent(o.drive, o.lost, Goto(fb.pos)) : Step(p, "STOPPING", c)
             ELSE /\ IF "deadline" \in late THEN EnterFault(o, "MOTION_TIMEOUT")
                                            ELSE Step(o, "RETURNING", c)
                  /\ UNCHANGED <<target, stopTorque, moving>>
    BY <1>2, <1>6
  <2>2. returnSettle \in Nat /\ returnSettle < SettleSamples
    BY <1>1 DEF IInv, MotionOK, SettleCounts
  <2>3. n \in 0..SettleSamples
    <3> HIDE DEF back
    <3> QED BY <2>2, SizeAssumption
  <2> HIDE DEF n
  <2>4. CASE n >= SettleSamples
    <3>1. PICK p \in Sent(o.drive, o.lost, Goto(fb.pos)) : Step(p, "STOPPING", c)
      BY <2>1, <2>4
    <3>2. p \in Outcome /\ (p.ok => p.drive = Goto(fb.pos))
      BY <1>3, <1>4, GotoFrame, SentOutcome DEF Outcome
    <3>3. target' = fb.pos /\ stopTorque' = returnTorque /\ moving' = FALSE /\ returnSettle' = n
      BY <2>1, <2>4
    <3>4. MotionOK'
      BY <1>1, <1>3, <2>3, <3>3 DEF IInv, MotionOK
    <3>5. CASE Halted
      BY <1>1, <3>4, <3>5, HaltedIsSafe
    <3>6. CASE ~Halted
      <4>1. "STOPPING" \in States
        BY DEF States
      <4>2. /\ CoreOK' /\ p.ok /\ state' = "STOPPING" /\ drive' = p.drive /\ fault' = fault
            /\ calActive' = c.active
        BY <3>1, <3>2, <3>6, <4>1, StepGoesOrHalts
      <4>3. LimitsValid(limits, marked)
        BY <1>1 DEF IInv, MotionIsInformed
      <4>4. \A a \in Axis : limits.min[a] - Overshoot <= fb.pos[a]
                            /\ fb.pos[a] <= limits.max[a] + Overshoot
        BY <1>1, <1>3, <4>3, SizeAssumption DEF Exceeded
      <4>5. GoalsInLimits'
        BY <1>1, <1>3, <3>2, <4>2, <4>4, GotoGoals DEF GoalsInLimits
      <4>6. TargetInReach'
        BY <1>1, <1>3, <3>3, <4>2, <4>4 DEF TargetInReach
      <4>7. SettleCounts' /\ NoWayBack
        BY <1>1, <4>2 DEF SettleCounts, NoWayBack, Stopped
      <4> QED BY <1>1, <3>4, <4>2, <4>5, <4>6, <4>7, RunsOnIsSafe
    <3> QED BY <3>5, <3>6
  <2>5. CASE ~(n >= SettleSamples)
    <3>1. UNCHANGED <<target, stopTorque, moving>> /\ returnSettle' = n /\ n < SettleSamples
      BY <2>1, <2>3, <2>5, SizeAssumption
    <3>2. MotionOK'
      BY <1>1, <2>3, <3>1 DEF IInv, MotionOK
    <3>3. CASE "deadline" \in late
      <4>1. Halted
        BY <1>4, <2>1, <2>5, <3>3, EnterFaultHalts DEF FaultBits
      <4> QED BY <1>1, <3>2, <4>1, HaltedIsSafe
    <3>4. CASE "deadline" \notin late /\ Halted
      BY <1>1, <3>2, <3>4, HaltedIsSafe
    <3>5. CASE "deadline" \notin late /\ ~Halted
      <4>1. Step(o, "RETURNING", c) /\ "RETURNING" \in States
        BY <2>1, <2>5, <3>5 DEF States
      <4>2. /\ CoreOK' /\ state' = "RETURNING" /\ drive' = o.drive /\ fault' = fault
            /\ calActive' = c.active
        BY <1>4, <3>5, <4>1, StepGoesOrHalts
      <4>3. \A a \in Axis : limits.min[a] - 0 <= target[a] /\ target[a] <= limits.max[a] + 0
        BY <1>1 DEF IInv, TargetInReach
      <4>4. state # "STOPPING" /\ 0 = IF state' = "STOPPING" THEN Overshoot ELSE 0
        BY <4>2
      <4>5. GoalsInLimits'
        BY <1>1, <1>3, <1>4, <4>2, <4>3, <4>4, GoalsStayNear
      <4>6. TargetInReach'
        BY <1>1, <3>1, <4>2 DEF IInv, TargetInReach
      <4>7. SettleCounts' /\ NoWayBack
        BY <1>1, <3>1, <4>2 DEF SettleCounts, NoWayBack, Stopped
      <4> QED BY <1>1, <3>2, <4>2, <4>5, <4>6, <4>7, RunsOnIsSafe
    <3> QED BY <3>3, <3>4, <3>5
  <2> QED BY <2>4, <2>5
<1> QED BY <1>5, <1>6

LEMMA PollStoppingIsSafe ==
  ASSUME IInv, NEW late, NEW c \in Progress, c.active = FALSE, c.sent.drive = drive,
         PollStopping(late, c), state = "STOPPING", seen' = Axis, UNCHANGED limitVars
  PROVE  IInv' /\ NoWayBack
<1>1. /\ state \notin Stopped /\ SeenOK' /\ LimitsOK' /\ staleLimits' = FALSE
      /\ limits' = limits /\ limits \in [min : [Axis -> Int], max : [Axis -> Int]]
      /\ UNCHANGED <<target, startup, returnTorque, startPhase, homeSettle, returnSettle,
                     moving, streaming>>
  BY LimitsKept DEF PollStopping, Stopped, SeenOK
<1>2. c.sent \in Outcome /\ c.sent.drive \in Drv /\ c.sent.lost \in 0..MaxLost
  BY DEF Progress, Outcome
<1>3. target \in [Axis -> Int] /\ stopTorque \in Nat
  BY DEF IInv, MotionOK
\* It holds the place, or stops.
<1>4. ASSUME NEW o \in Outcome, Step(o, "STOPPING", c), stopTorque' \in Nat,
             o.ok => \A a \in Axis : o.drive[a] \in {drive[a], Position(target[a])}
      PROVE  IInv' /\ NoWayBack
  <2>1. MotionOK'
    BY <1>1, <1>4 DEF IInv, MotionOK
  <2>2. CASE Halted
    BY <1>1, <2>1, <2>2, HaltedIsSafe
  <2>3. CASE ~Halted
    <3>1. "STOPPING" \in States
      BY DEF States
    <3>2. /\ CoreOK' /\ o.ok /\ state' = "STOPPING" /\ drive' = o.drive /\ fault' = fault
          /\ calActive' = c.active
      BY <1>4, <2>3, <3>1, StepGoesOrHalts
    <3>3. \A a \in Axis : limits.min[a] - Overshoot <= target[a]
                          /\ target[a] <= limits.max[a] + Overshoot
      BY DEF IInv, TargetInReach, Stopped
    <3>4. Overshoot = IF state' = "STOPPING" THEN Overshoot ELSE 0
      BY <3>2
    <3>5. \A a \in Axis : drive'[a] \in {drive[a], Position(target[a])}
      BY <1>4, <3>2
    <3>6. GoalsInLimits'
      BY <1>1, <1>3, <3>2, <3>3, <3>4, <3>5, GoalsStayNear
    <3>7. TargetInReach'
      BY <1>1, <3>2 DEF IInv, TargetInReach
    <3>8. SettleCounts' /\ NoWayBack
      BY <1>1, <3>2 DEF SettleCounts, NoWayBack, Stopped
    <3> QED BY <1>1, <2>1, <3>2, <3>6, <3>7, <3>8, RunsOnIsSafe
  <2> QED BY <2>2, <2>3
<1>5. CASE "stop" \notin late
  <2>1. Step(c.sent, "STOPPING", c) /\ stopTorque' = stopTorque
    BY <1>5 DEF PollStopping
  <2> QED BY <1>2, <1>3, <1>4, <2>1
<1>6. CASE "stop" \in late /\ RampIsOver
  <2>1. PICK i \in Idled(c.sent.drive, c.sent.lost) : stopTorque' = 0 /\ Step(i, "DISABLED", c)
    BY <1>6 DEF PollStopping
  <2>2. i \in Outcome /\ "DISABLED" \in States /\ "DISABLED" \in Stopped
    BY <1>2, IdledOutcome DEF States, Stopped
  <2>3. Halted
    BY <2>1, <2>2, StepGoesOrHalts DEF Halted
  <2>4. MotionOK'
    BY <1>1, <2>1 DEF IInv, MotionOK
  <2> QED BY <1>1, <2>3, <2>4, HaltedIsSafe
<1>7. CASE "stop" \in late /\ ~RampIsOver
  <2>1. PICK o \in Sent(c.sent.drive, c.sent.lost, Goto(target)) :
          stopTorque' = stopTorque - TorqueStep /\ Step(o, "STOPPING", c)
    BY <1>7 DEF PollStopping
  <2>2. o \in Outcome /\ (o.ok => o.drive = Goto(target))
    BY <1>2, <1>3, GotoFrame, SentOutcome
  <2>3. \A a \in Axis : Goto(target)[a] = Position(target[a])
    BY DEF Goto
  <2>4. stopTorque' \in Nat
    BY <1>3, <1>7, <2>1, TorqueAssumption DEF RampIsOver
  <2> QED BY <1>4, <2>1, <2>2, <2>3, <2>4
<1> QED BY <1>5, <1>6, <1>7

LEMMA PollActiveIsSafe ==
  ASSUME IInv, NEW fb \in Feedback, fb.fresh = Axis, NEW late, NEW c \in Progress,
         c.active = FALSE, c.sent.drive = drive, PollActive(fb, late, c), state = "ACTIVE",
         UNCHANGED limitVars
  PROVE  IInv' /\ NoWayBack
<1>1. /\ state \notin Stopped /\ LimitsOK' /\ staleLimits' = FALSE
      /\ limits' = limits /\ limits \in [min : [Axis -> Int], max : [Axis -> Int]]
      /\ UNCHANGED <<startup, returnTorque, stopTorque, startPhase, homeSettle, streaming>>
      /\ target \in [Axis -> Int] /\ moving \in BOOLEAN
  BY LimitsKept DEF PollActive, Stopped, IInv, MotionOK
<1> DEFINE arrived == \A a \in Axis : Near(fb.pos[a], target[a])
<1>2. PICK o \in Refreshed(late, c, target) :
        LET after == [c EXCEPT !.sent = o]
        IN  IF ~o.ok \/ (moving /\ ~arrived /\ "deadline" \in late)
              THEN /\ EnterFault(o, IF o.ok THEN "MOTION_TIMEOUT" ELSE "CAN")
                   /\ seen' = fb.fresh
                   /\ UNCHANGED <<target, returnSettle, moving>>
            ELSE IF "command" \in late
              THEN \E now \in SUBSET fb.fresh :
                     /\ seen' = now
                     /\ BeginReturn([fb EXCEPT !.fresh = now], after,
                                    fault \cup {"COMMAND_TIMEOUT"}, moving /\ ~arrived)
            ELSE /\ Step(o, "ACTIVE", c)
                 /\ seen' = fb.fresh
                 /\ moving' = (moving /\ ~arrived)
                 /\ UNCHANGED <<target, returnSettle>>
  BY DEF PollActive
<1>3. o \in Outcome /\ \A a \in Axis : o.drive[a] \in {drive[a], Position(target[a])}
  BY <1>1, RefreshedOutcome
<1>4. (moving /\ ~arrived) \in BOOLEAN
  OBVIOUS
<1> HIDE DEF arrived
<1>5. CASE ~o.ok \/ (moving /\ ~arrived /\ "deadline" \in late)
  <2>1. /\ EnterFault(o, IF o.ok THEN "MOTION_TIMEOUT" ELSE "CAN")
        /\ seen' = fb.fresh /\ UNCHANGED <<target, returnSettle, moving>>
    BY <1>2, <1>5
  <2>2. Halted
    BY <1>3, <2>1, EnterFaultHalts DEF FaultBits
  <2>3. MotionOK' /\ SeenOK'
    BY <1>1, <2>1 DEF IInv, MotionOK, SeenOK
  <2> QED BY <1>1, <2>2, <2>3, HaltedIsSafe
<1>6. CASE /\ ~(~o.ok \/ (moving /\ ~arrived /\ "deadline" \in late))
           /\ "command" \in late
  <2> DEFINE after == [c EXCEPT !.sent = o]
  <2>1. PICK now \in SUBSET fb.fresh :
          /\ seen' = now
          /\ BeginReturn([fb EXCEPT !.fresh = now], after,
                         fault \cup {"COMMAND_TIMEOUT"}, moving /\ ~arrived)
    BY <1>2, <1>6
  <2>2. after \in Progress /\ after.active = FALSE
    BY <1>3 DEF Progress
  <2>3. /\ [fb EXCEPT !.fresh = now] \in [fresh : SUBSET Axis, pos : [Axis -> Int]]
        /\ [fb EXCEPT !.fresh = now].fresh = now
    BY FeedbackType
  <2>4. fault \cup {"COMMAND_TIMEOUT"} \in SUBSET {"COMMAND_TIMEOUT"} /\ state \in Returnable
    BY <1>1 DEF IInv, FaultsAreHonoured, Returnable
  <2>5. UNCHANGED <<startup, returnTorque, stopTorque, startPhase, homeSettle, streaming>>
    BY <1>1
  <2> HIDE DEF after
  <2>6. seen' = [fb EXCEPT !.fresh = now].fresh
    BY <2>1, <2>3
  <2>7. BeginReturn([fb EXCEPT !.fresh = now], after,
                    fault \cup {"COMMAND_TIMEOUT"}, moving /\ ~arrived)
    BY <2>1
  <2> DEFINE fbNow == [fb EXCEPT !.fresh = now]
             bits == fault \cup {"COMMAND_TIMEOUT"}
             m == (moving /\ ~arrived)
  <2>8. /\ BeginReturn(fbNow, after, bits, m) /\ m \in BOOLEAN /\ seen' = fbNow.fresh
        /\ fbNow \in [fresh : SUBSET Axis, pos : [Axis -> Int]]
        /\ bits \in SUBSET {"COMMAND_TIMEOUT"}
    BY <1>4, <2>3, <2>4, <2>6, <2>7
  <2> HIDE DEF fbNow, bits, m
  <2> QED BY <2>2, <2>4, <2>5, <2>8, BeginReturnIsSafe, Zenon
<1>7. CASE /\ ~(~o.ok \/ (moving /\ ~arrived /\ "deadline" \in late))
           /\ "command" \notin late
  <2>1. /\ Step(o, "ACTIVE", c) /\ seen' = Axis /\ moving' = (moving /\ ~arrived)
        /\ UNCHANGED <<target, returnSettle>>
    BY <1>2, <1>7
  <2>2. moving' \in BOOLEAN
    BY <2>1
  <2>3. MotionOK' /\ SeenOK'
    BY <1>1, <2>1, <2>2 DEF IInv, MotionOK, SeenOK
  <2>4. CASE Halted
    BY <1>1, <2>3, <2>4, HaltedIsSafe
  <2>5. CASE ~Halted
    <3>1. "ACTIVE" \in States
      BY DEF States
    <3>2. /\ CoreOK' /\ state' = "ACTIVE" /\ drive' = o.drive /\ fault' = fault
          /\ calActive' = c.active
      BY <1>3, <2>1, <2>5, <3>1, StepGoesOrHalts
    <3>3. \A a \in Axis : limits.min[a] - 0 <= target[a] /\ target[a] <= limits.max[a] + 0
      BY <1>1 DEF IInv, TargetInReach
    <3>4. state # "STOPPING" /\ 0 = IF state' = "STOPPING" THEN Overshoot ELSE 0
      BY <3>2
    <3>5. GoalsInLimits'
      BY <1>1, <1>3, <3>2, <3>3, <3>4, GoalsStayNear
    <3>6. TargetInReach'
      BY <1>1, <2>1, <3>2 DEF IInv, TargetInReach
    <3>7. SettleCounts' /\ NoWayBack
      BY <1>1, <3>2 DEF SettleCounts, NoWayBack, Stopped
    <3> QED BY <1>1, <2>1, <2>3, <3>2, <3>5, <3>6, <3>7, RunsOnIsSafe
  <2> QED BY <2>4, <2>5
<1> QED BY <1>5, <1>6, <1>7

LEMMA PollMotionIsSafe ==
  ASSUME IInv, NEW fb \in Feedback, NEW late, NEW c \in Progress, c.active = FALSE,
         c.sent.drive = drive, state \notin Stopped, PollMotion(fb, late, c), UNCHANGED limitVars
  PROVE  IInv' /\ NoWayBack
<1>1. c.sent \in Outcome /\ fb.fresh \in SUBSET Axis
  BY FeedbackType DEF Progress
<1>2. LimitsOK' /\ staleLimits' = FALSE
  BY LimitsKept
<1>3. CASE fb.fresh # Axis
  <2>1. /\ FaultWith(c.sent, fault \cup {IF a = "yaw" THEN "YAW_FEEDBACK" ELSE "PITCH_FEEDBACK"
                                           : a \in Axis \ fb.fresh})
        /\ UNCHANGED motion /\ seen' = fb.fresh
    BY <1>3 DEF PollMotion
  <2>2. fault \cup {IF a = "yaw" THEN "YAW_FEEDBACK" ELSE "PITCH_FEEDBACK"
                      : a \in Axis \ fb.fresh} \in SUBSET FaultBits
    BY DEF IInv, CoreOK, FaultBits
  <2>3. Halted
    BY <1>1, <2>1, <2>2, FaultHalts
  <2>4. MotionOK' /\ SeenOK'
    BY <1>1, <2>1 DEF IInv, MotionOK, SeenOK, motion
  <2> QED BY <1>2, <2>3, <2>4, HaltedIsSafe
<1>4. CASE fb.fresh = Axis /\ Exceeded(fb.pos)
  <2>1. EnterFault(c.sent, "LIMIT_EXCEEDED") /\ UNCHANGED motion /\ seen' = fb.fresh
    BY <1>4 DEF PollMotion
  <2>2. Halted
    BY <1>1, <2>1, EnterFaultHalts DEF FaultBits
  <2>3. MotionOK' /\ SeenOK'
    BY <1>1, <2>1 DEF IInv, MotionOK, SeenOK, motion
  <2> QED BY <1>2, <2>2, <2>3, HaltedIsSafe
<1>5. CASE fb.fresh = Axis /\ ~Exceeded(fb.pos)
  <2>1. \/ state = "STARTING" /\ PollStarting(late, c) /\ seen' = Axis
        \/ state = "HOMING" /\ PollHoming(fb, late, c) /\ seen' = Axis
        \/ state = "RETURNING" /\ PollReturning(fb, late, c) /\ seen' = Axis
        \/ state = "STOPPING" /\ PollStopping(late, c) /\ seen' = Axis
        \/ state = "ACTIVE" /\ PollActive(fb, late, c)
    BY <1>5 DEF PollMotion
  <2> QED BY <1>5, <2>1, PollStartingIsSafe, PollHomingIsSafe, PollReturningIsSafe,
             PollStoppingIsSafe, PollActiveIsSafe
<1> QED BY <1>3, <1>4, <1>5

LEMMA PollIsSafe ==
  ASSUME IInv, NEW fb \in Feedback, NEW late \in SUBSET Delays, Poll(fb, late)
  PROVE  IInv' /\ NoWayBack
<1>1. PICK c \in CalibrationPolled(late) :
        IF ~c.sent.ok THEN EnterFault(c.sent, "CAN") /\ UNCHANGED motion /\ seen' = fb.fresh
        ELSE IF state \in Stopped
          THEN Step(c.sent, state, c) /\ UNCHANGED motion /\ seen' = fb.fresh
        ELSE PollMotion(fb, late, c)
  BY DEF Poll
<1>2. UNCHANGED limitVars /\ LimitsOK' /\ staleLimits' = FALSE /\ fb.fresh \in SUBSET Axis
  BY LimitsKept, FeedbackType DEF Poll
<1>3. /\ c \in Progress /\ c.sent \in Outcome
      /\ calActive = FALSE => c = Started
      /\ calActive = TRUE /\ c.sent.ok /\ c.active => c.sent.drive \in {drive, Both("torque")}
  BY CalibrationPolledProgress, IInvTypes DEF Progress
<1>4. ASSUME UNCHANGED motion, seen' = fb.fresh PROVE MotionOK' /\ SeenOK'
  BY <1>2, <1>4 DEF IInv, MotionOK, SeenOK, motion
<1>5. CASE ~c.sent.ok
  <2>1. Halted
    BY <1>1, <1>3, <1>5, EnterFaultHalts DEF FaultBits
  <2> QED BY <1>1, <1>2, <1>4, <1>5, <2>1, HaltedIsSafe
<1>6. CASE c.sent.ok /\ state \in Stopped
  <2>1. Step(c.sent, state, c) /\ MotionOK' /\ SeenOK' /\ state \in States
    BY <1>1, <1>4, <1>6 DEF IInv, CoreOK
  <2>2. CASE Halted
    BY <1>2, <2>1, <2>2, HaltedIsSafe
  <2>3. CASE ~Halted
    <3>1. CoreOK' /\ state' = state /\ drive' = c.sent.drive /\ calActive' = c.active
      BY <1>3, <2>1, <2>3, StepGoesOrHalts
    <3>2. ASSUME c.active = TRUE PROVE Drives(Commands \ {"position"})'
      <4>1. calActive = TRUE
        <5>1. ASSUME calActive = FALSE PROVE FALSE
          BY <1>3, <3>2, <5>1 DEF Started
        <5> QED BY <5>1 DEF IInv, CoreOK
      <4>2. drive' \in {drive, Both("torque")}
        BY <1>3, <1>6, <3>1, <3>2, <4>1
      <4>3. Drives(Commands \ {"position"})
        BY <4>1 DEF IInv, CalibrationIsLimp
      <4>4. CASE drive' = drive
        BY <4>3, <4>4 DEF Drives
      <4>5. CASE drive' = Both("torque")
        BY <4>5 DEF Drives, Both, Bare, Commands
      <4> QED BY <4>2, <4>4, <4>5
    <3>3. CalibrationIsLimp'
      BY <1>6, <3>1, <3>2 DEF CalibrationIsLimp
    <3> QED BY <1>2, <1>6, <2>1, <3>1, <3>3, StoppedIsSafe
  <2> QED BY <2>2, <2>3
<1>7. CASE c.sent.ok /\ state \notin Stopped
  <2>1. calActive = FALSE
    BY <1>7, NoCalibration
  <2>2. c.active = FALSE /\ c.sent.drive = drive
    BY <1>3, <2>1 DEF Started, Now
  <2>3. PollMotion(fb, late, c)
    BY <1>1, <1>7
  <2> QED BY <1>2, <1>3, <1>7, <2>2, <2>3, PollMotionIsSafe
<1> QED BY <1>5, <1>6, <1>7

-----------------------------------------------------------------------------
(* The specification *)

LEMMA InitSafe == Init => IInv
<1> SUFFICES ASSUME Init PROVE IInv
  OBVIOUS
<1>1. CoreOK
  <2>1. state \in States /\ fault \in SUBSET FaultBits /\ calPhase \in {0, 1} /\ lost \in 0..MaxLost
    BY SizeAssumption DEF Init, States, Stopped
  <2>2. drive \in Drv
    BY BareFrame DEF Init, Commands
  <2>3. calActive \in BOOLEAN
    BY DEF Init
  <2> QED BY <2>1, <2>2, <2>3 DEF CoreOK
<1>2. MotionOK
  <2>1. /\ returnTorque \in Nat /\ stopTorque \in Nat /\ startPhase \in {0, 1}
        /\ homeSettle \in 0..SettleSamples /\ returnSettle \in 0..SettleSamples
    BY TorqueAssumption, SizeAssumption DEF Init
  <2>2. target \in [Axis -> Int] /\ startup \in [valid : BOOLEAN, pitch : Int]
    BY HomeType DEF Init
  <2>3. moving \in BOOLEAN /\ streaming \in BOOLEAN
    BY DEF Init
  <2> QED BY <2>1, <2>2, <2>3 DEF MotionOK
<1>3. LimitsOK /\ SeenOK
  BY NoLimitsType DEF Init, LimitsOK, SeenOK
<1>4. state \in Stopped /\ calActive = FALSE /\ staleLimits = FALSE
  BY DEF Init, Stopped
<1> QED BY <1>1, <1>2, <1>3, <1>4 DEF IInv, CalibrationIsLimp, MotionIsInformed, GoalsInLimits,
           FaultsAreHonoured, TargetInReach, SettleCounts, Stopped

LEMMA StepSafe == IInv /\ [Next]_vars => IInv' /\ (NoWayBack \/ UNCHANGED vars)
<1> SUFFICES ASSUME IInv, [Next]_vars PROVE IInv' /\ (NoWayBack \/ UNCHANGED vars)
  OBVIOUS
<1>1. CASE EnableWithoutLimits
  BY <1>1, EnableWithoutLimitsIsSafe
<1>2. CASE EmergencyStop
  BY <1>2, EmergencyStopIsSafe
<1>3. CASE ResetLimits
  BY <1>3, ResetLimitsIsSafe
<1>4. CASE SetOrigin
  BY <1>4, SetOriginIsSafe
<1>5. CASE \E fb \in Feedback, q \in Torques : Enable(fb, q)
  BY <1>5, EnableIsSafe
<1>6. CASE \E fb \in Feedback : Disable(fb)
  BY <1>6, DisableIsSafe
<1>7. CASE \E fb \in Feedback, a \in Axis, s \in Side : CalibrateLimit(fb, a, s)
  BY <1>7, CalibrateLimitIsSafe
<1>8. CASE \E fb \in Feedback : \E late \in SUBSET Delays : Poll(fb, late)
  BY <1>8, PollIsSafe
<1>9. CASE \E t \in Targets, timed \in BOOLEAN : SetTarget(t, timed)
  BY <1>9, SetTargetIsSafe
<1>10. CASE \E l \in LimitRequests : SetLimits(l)
  BY <1>10, SetLimitsIsSafe
<1>11. CASE UNCHANGED vars
  <2> USE <1>11 DEF vars, motion, limitVars, calVars, canVars
  <2>1. CoreOK' /\ LimitsOK' /\ SeenOK' /\ staleLimits' = FALSE
    BY DEF IInv, CoreOK, LimitsOK, SeenOK
  <2>2. MotionOK'
    BY DEF IInv, MotionOK
  <2>3. CalibrationIsLimp' /\ MotionIsInformed'
    BY DEF IInv, CalibrationIsLimp, Drives, MotionIsInformed
  <2>4. GoalsInLimits' /\ FaultsAreHonoured' /\ TargetInReach' /\ SettleCounts'
    BY DEF IInv, GoalsInLimits, FaultsAreHonoured, TargetInReach, SettleCounts
  <2> QED BY <2>1, <2>2, <2>3, <2>4 DEF IInv
<1> QED BY <1>1, <1>2, <1>3, <1>4, <1>5, <1>6, <1>7, <1>8, <1>9, <1>10, <1>11 DEF Next

THEOREM GimbalInvariant == Spec => []IInv
BY InitSafe, StepSafe, PTL DEF Spec

\* Every variable keeps its type: the settling counters and the torque of the final
\* ramp stay in their range, no frame and no fault is of an unknown kind.
THEOREM GimbalTypeCorrect == Spec => []TypeOK
<1>1. IInv => TypeOK
  BY IInvTypes
<1> QED BY <1>1, GimbalInvariant, PTL

\* The gimbal runs only inside valid limits of its present origin and on feedback
\* that gimbal_control_poll or enable found fresh for both axes.
THEOREM MotionStaysInformed == Spec => []MotionIsInformed
<1>1. IInv => MotionIsInformed
  BY DEF IInv
<1> QED BY <1>1, GimbalInvariant, PTL

\* No drive is ever left with a position command outside the limits, whatever was
\* marked, requested or lost before.
THEOREM GoalsStayInLimits == Spec => []GoalsInLimits
<1>1. IInv => GoalsInLimits
  BY DEF IInv
<1> QED BY <1>1, GimbalInvariant, PTL

\* Calibration feedback is on only in a stopped gimbal, with no position command.
THEOREM CalibrationStaysLimp == Spec => []CalibrationIsLimp
<1>1. IInv => CalibrationIsLimp
  BY DEF IInv
<1> QED BY <1>1, GimbalInvariant, PTL

\* No state of motion is entered or kept with a fault bit set, but the shutdown the
\* command timeout asks for.
THEOREM FaultsStayHonoured == Spec => []FaultsAreHonoured
<1>1. IInv => FaultsAreHonoured
  BY DEF IInv
<1> QED BY <1>1, GimbalInvariant, PTL

\* A shutdown that has begun leads to a stop, and a stopped gimbal starts only
\* through enable's homing.
THEOREM ShutdownStaysFinal == Spec => ShutdownIsFinal
<1>1. IInv /\ [Next]_vars => [NoWayBack]_vars
  BY StepSafe
<1> QED BY <1>1, GimbalInvariant, PTL DEF Spec, ShutdownIsFinal

-----------------------------------------------------------------------------
(* A stopped gimbal is idle *)

\* What sending does to the count of lost frames: a failure the caller sees is a
\* frame lost.
After(o, l) == o.lost \in Nat /\ l <= o.lost /\ (o.ok \/ l < o.lost)

\* The CAN bit is there only after a frame was lost.
CanMeansLost == "CAN" \in fault => lost > 0

IdleInv == CanMeansLost /\ StoppedIsIdle

LEMMA SentAfter ==
  ASSUME NEW d, NEW l \in 0..MaxLost, NEW f, NEW o \in Sent(d, l, f) PROVE After(o, l)
BY SizeAssumption DEF Sent, After

LEMMA ThenSentAfter ==
  ASSUME NEW l \in 0..MaxLost, NEW p \in Outcome, After(p, l), NEW f, NEW o \in ThenSent(p, f)
  PROVE  After(o, l)
<1>1. CASE p.ok
  <2>1. p.lost \in 0..MaxLost /\ o \in Sent(p.drive, p.lost, f)
    BY <1>1 DEF ThenSent, Outcome
  <2>2. After(o, p.lost)
    BY <2>1, SentAfter
  <2> QED BY <2>1, <2>2, SizeAssumption DEF After
<1>2. CASE ~p.ok
  BY <1>2 DEF ThenSent
<1> QED BY <1>1, <1>2

\* Idle frames none of which is lost leave both drives idle.
LEMMA IdledAfter ==
  ASSUME NEW d, NEW l \in 0..MaxLost, NEW i \in Idled(d, l)
  PROVE  After(i, l) /\ (i.lost = l => i.drive = Both("idle"))
<1>1. PICK F \in SUBSET Axis :
        /\ l + Cardinality(F) <= MaxLost
        /\ i = [drive |-> [a \in Axis |-> IF a \in F THEN d[a] ELSE Bare("idle")],
                lost |-> l + Cardinality(F), ok |-> F = {}]
  BY DEF Idled
<1>2. IsFiniteSet(Axis)
  <2>1. IsFiniteSet({}) /\ IsFiniteSet({"yaw"}) /\ IsFiniteSet({"pitch"})
    BY FS_EmptySet, FS_Singleton
  <2>2. Axis = {"yaw"} \cup {"pitch"}
    BY DEF Axis
  <2> QED BY <2>1, <2>2, FS_Union
<1>3. IsFiniteSet(F) /\ Cardinality(F) \in Nat /\ (Cardinality(F) = 0 <=> F = {})
  <2>1. IsFiniteSet(F)
    BY <1>2, FS_Subset
  <2> QED BY <2>1, FS_CardinalityType, FS_EmptySet
<1>4. i.lost = l + Cardinality(F) /\ (i.ok <=> F = {})
  BY <1>1
<1>5. After(i, l)
  BY <1>3, <1>4, SizeAssumption DEF After
<1>6. ASSUME i.lost = l PROVE i.drive = Both("idle")
  <2>1. F = {}
    BY <1>3, <1>4, <1>6
  <2> QED BY <1>1, <2>1 DEF Both
<1> QED BY <1>5, <1>6

\* The frames of o are followed by idle frames: the drives are idle if no frame was
\* lost, or only one and that among those of o.
LEMMA IdledIsIdle ==
  ASSUME NEW o \in Outcome, NEW i \in Idled(o.drive, o.lost), Keep(i)
  PROVE  /\ lost' \in Nat /\ o.lost <= lost'
         /\ lost' = o.lost => Drives({"idle"})'
<1>1. o.lost \in 0..MaxLost
  BY DEF Outcome
<1>2. After(i, o.lost) /\ (i.lost = o.lost => i.drive = Both("idle"))
  BY <1>1, IdledAfter
<1> QED BY <1>2 DEF After, Keep, Drives, Both, Bare

LEMMA FaultIsIdle ==
  ASSUME NEW o \in Outcome, NEW bits, FaultWith(o, bits), "CAN" \in bits => o.lost > 0
  PROVE  IdleInv'
<1>1. PICK i \in Idled(o.drive, o.lost) : Keep(i)
  BY DEF FaultWith
<1>2. lost' \in Nat /\ o.lost <= lost' /\ (lost' = o.lost => Drives({"idle"})')
  BY <1>1, IdledIsIdle
<1>3. fault' = bits /\ o.lost \in Nat
  BY SizeAssumption DEF FaultWith, Outcome
<1> QED BY <1>2, <1>3 DEF IdleInv, CanMeansLost, StoppedIsIdle

LEMMA EnterFaultIsIdle ==
  ASSUME IInv, IdleInv, NEW o \in Outcome, After(o, lost), NEW bit, bit = "CAN" => ~o.ok,
         EnterFault(o, bit)
  PROVE  IdleInv'
<1>1. lost \in Nat /\ o.lost \in Nat
  BY SizeAssumption DEF IInv, CoreOK, After
<1>2. "CAN" \in fault \cup {bit} => o.lost > 0
  BY <1>1 DEF After, IdleInv, CanMeansLost
<1> QED BY <1>2, FaultIsIdle DEF EnterFault

LEMMA StopIsIdle ==
  ASSUME NEW o \in Outcome, StopAtOnce(o), "CAN" \in fault' => o.lost > 0
  PROVE  IdleInv'
<1>1. PICK i \in Idled(o.drive, o.lost) : Keep(i)
  BY DEF StopAtOnce
<1>2. lost' \in Nat /\ o.lost <= lost' /\ (lost' = o.lost => Drives({"idle"})')
  BY <1>1, IdledIsIdle
<1>3. state' = "DISABLED" /\ o.lost \in Nat
  BY SizeAssumption DEF StopAtOnce, Outcome
<1> QED BY <1>2, <1>3 DEF IdleInv, CanMeansLost, StoppedIsIdle

\* Nothing is asked of a gimbal that runs or calibrates.
LEMMA AwakeIsAllowed ==
  ASSUME IInv, IdleInv, state' \notin Stopped \/ calActive' = TRUE,
         "CAN" \in fault' => "CAN" \in fault, lost' \in Nat, lost <= lost'
  PROVE  IdleInv'
<1>1. lost \in Nat
  BY SizeAssumption DEF IInv, CoreOK
<1> QED BY <1>1 DEF IdleInv, CanMeansLost, StoppedIsIdle

\* A step that sends nothing, or ends a calibration, of a stopped gimbal.
LEMMA StaysIdle ==
  ASSUME IInv, IdleInv, state' = state, "CAN" \in fault' => "CAN" \in fault,
         lost' \in Nat, lost <= lost',
         calActive /\ calActive' = FALSE /\ lost' = lost => Drives({"idle"})',
         ~calActive => drive' = drive /\ lost' = lost
  PROVE  IdleInv'
<1>1. lost \in Nat /\ calActive \in BOOLEAN
  BY SizeAssumption DEF IInv, CoreOK
<1>2. CASE calActive
  BY <1>1, <1>2 DEF IdleInv, CanMeansLost, StoppedIsIdle
<1>3. CASE ~calActive
  BY <1>1, <1>3 DEF IdleInv, CanMeansLost, StoppedIsIdle, Drives
<1> QED BY <1>2, <1>3

LEMMA StepIsIdle ==
  ASSUME IInv, IdleInv, NEW o \in Outcome, After(o, lost), NEW s, s \notin Stopped, NEW c,
         Step(o, s, c)
  PROVE  IdleInv'
<1>1. CASE o.ok
  <2>1. state' \notin Stopped /\ fault' = fault /\ lost' = o.lost
    BY <1>1 DEF Step, Go, Keep
  <2>2. lost' \in Nat /\ lost <= lost'
    BY <2>1 DEF After
  <2> QED BY <2>1, <2>2, AwakeIsAllowed
<1>2. CASE ~o.ok
  BY <1>2, EnterFaultIsIdle DEF Step
<1> QED BY <1>1, <1>2

LEMMA NowAfter == ASSUME IInv PROVE After(Now, lost)
BY SizeAssumption DEF Now, After, IInv, CoreOK

LEMMA CalibrationStoppedAfter ==
  ASSUME IInv, NEW o \in CalibrationStopped
  PROVE  /\ After(o, lost)
         /\ calActive /\ o.lost = lost => o.drive = Both("idle")
         /\ ~calActive => o = Now
<1>1. lost \in 0..MaxLost
  BY DEF IInv, CoreOK
<1>2. CASE calActive
  <2>1. o \in Idled(drive, lost)
    BY <1>2 DEF CalibrationStopped
  <2> QED BY <1>1, <1>2, <2>1, IdledAfter
<1>3. CASE ~calActive
  <2>1. o = Now
    BY <1>3 DEF CalibrationStopped, Now
  <2> QED BY <1>3, <2>1, NowAfter
<1> QED BY <1>2, <1>3

LEMMA CalibrationStartedAfter ==
  ASSUME IInv, NEW o \in CalibrationStarted PROVE After(o, lost)
<1>1. lost \in 0..MaxLost /\ drive \in Drv /\ Both("mode") \in Drv
  BY BareFrame DEF IInv, CoreOK, Commands
<1>2. CASE calActive
  <2>1. o = Now
    BY <1>2 DEF CalibrationStarted, Now
  <2> QED BY <2>1, NowAfter
<1>3. CASE ~calActive
  <2>1. PICK p \in Sent(drive, lost, Both("mode")) : o \in ThenSent(p, Both("torque"))
    BY <1>3 DEF CalibrationStarted
  <2>2. p \in Outcome /\ After(p, lost)
    BY <1>1, SentOutcome, SentAfter
  <2> QED BY <1>1, <2>1, <2>2, ThenSentAfter
<1> QED BY <1>2, <1>3

\* The calibration's part of a poll, whose end ignores a frame that is lost.
LEMMA CalibrationPolledAfter ==
  ASSUME IInv, NEW late, NEW c \in CalibrationPolled(late)
  PROVE  /\ After(c.sent, lost)
         /\ calActive /\ c.active = FALSE /\ c.sent.lost = lost => c.sent.drive = Both("idle")
<1>1. lost \in 0..MaxLost /\ drive \in Drv /\ Both("enable") \in Drv /\ calActive \in BOOLEAN
  BY BareFrame DEF IInv, CoreOK, Commands
<1>2. CASE c = Started
  <2>1. c.sent = Now /\ c.active = calActive
    BY <1>2 DEF Started
  <2> QED BY <1>1, <2>1, NowAfter
<1>3. CASE \E i \in Idled(drive, lost) :
             c = [sent |-> [i EXCEPT !.ok = TRUE], active |-> FALSE, phase |-> 0]
  <2>1. PICK i \in Idled(drive, lost) :
          c = [sent |-> [i EXCEPT !.ok = TRUE], active |-> FALSE, phase |-> 0]
    BY <1>3
  <2>2. i \in Outcome /\ After(i, lost) /\ (i.lost = lost => i.drive = Both("idle"))
    BY <1>1, IdledOutcome, IdledAfter
  <2>3. c.sent.lost = i.lost /\ c.sent.drive = i.drive /\ c.sent.ok
    BY <2>1, <2>2 DEF Outcome
  <2> QED BY <2>2, <2>3 DEF After
<1>4. ASSUME NEW o \in IF calPhase = 0
                         THEN UNION {ThenSent(e, Both("torque")) : e \in Sent(drive, lost, Both("enable"))}
                         ELSE Sent(drive, lost, Both("torque")),
             c = [sent |-> o, active |-> TRUE, phase |-> 1]
      PROVE  After(c.sent, lost) /\ c.active = TRUE
  <2>1. CASE calPhase = 0
    <3>1. PICK e \in Sent(drive, lost, Both("enable")) : o \in ThenSent(e, Both("torque"))
      BY <1>4, <2>1
    <3>2. e \in Outcome /\ After(e, lost)
      BY <1>1, SentOutcome, SentAfter
    <3>3. After(o, lost)
      BY <1>1, <3>1, <3>2, ThenSentAfter
    <3> QED BY <1>4, <3>3
  <2>2. CASE calPhase # 0
    <3>1. After(o, lost)
      BY <1>1, <1>4, <2>2, SentAfter
    <3> QED BY <1>4, <3>1
  <2> QED BY <2>1, <2>2
<1> QED BY <1>2, <1>3, <1>4 DEF CalibrationPolled

\* What the steps below use of the invariant.
LEMMA IdleFacts ==
  ASSUME IInv
  PROVE  /\ lost \in Nat /\ Now \in Outcome /\ After(Now, lost) /\ calActive \in BOOLEAN
         /\ state \notin Stopped => "CAN" \notin fault /\ calActive = FALSE
<1>1. lost \in Nat /\ calActive \in BOOLEAN
  BY SizeAssumption DEF IInv, CoreOK
<1>2. Now \in Outcome
  BY NowOutcome, IInvTypes
<1>3. state \notin Stopped => "CAN" \notin fault
  BY DEF IInv, FaultsAreHonoured
<1> QED BY <1>1, <1>2, <1>3, NowAfter, NoCalibration

\* The steps that send nothing.
LEMMA UntouchedIsIdle ==
  ASSUME IInv, IdleInv, UNCHANGED <<state, calVars, canVars>>,
         "CAN" \in fault' => "CAN" \in fault
  PROVE  IdleInv'
<1>1. /\ lost \in Nat /\ state' = state /\ drive' = drive /\ lost' = lost
      /\ calActive' = calActive
  BY IdleFacts DEF calVars, canVars
<1>2. lost' \in Nat /\ lost <= lost'
  BY <1>1
<1>3. ~(calActive /\ calActive' = FALSE)
  BY <1>1
<1> QED BY <1>1, <1>2, <1>3, StaysIdle

LEMMA StopsIdle ==
  ASSUME IInv, IdleInv, StopAtOnce(Now), "CAN" \in fault' => "CAN" \in fault PROVE IdleInv'
<1>1. Now \in Outcome /\ Now.lost = lost
  BY IdleFacts DEF Now
<1>2. "CAN" \in fault' => lost > 0
  BY DEF IdleInv, CanMeansLost
<1> QED BY <1>1, <1>2, StopIsIdle

LEMMA WakeFeedbackIdle == ASSUME IInv, IdleInv, WakeFeedback PROVE IdleInv'
<1>1. PICK o \in CalibrationStarted :
        IF o.ok
          THEN /\ Keep(o)
               /\ calActive' = TRUE
               /\ calPhase' = IF calActive THEN calPhase ELSE 0
               /\ UNCHANGED <<state, fault>>
          ELSE EnterFault(o, "CAN")
  BY DEF WakeFeedback
<1>2. o \in Outcome /\ After(o, lost)
  BY CalibrationStartedOutcome, CalibrationStartedAfter, IInvTypes
<1>3. CASE o.ok
  <2>1. calActive' = TRUE /\ fault' = fault /\ lost' \in Nat /\ lost <= lost'
    BY <1>1, <1>2, <1>3 DEF Keep, After
  <2> QED BY <2>1, AwakeIsAllowed
<1>4. CASE ~o.ok
  <2>1. EnterFault(o, "CAN")
    BY <1>1, <1>4
  <2> QED BY <1>2, <1>4, <2>1, EnterFaultIsIdle
<1> QED BY <1>3, <1>4

\* Calibration's feedback is stopped, all of its idle frames sent.
LEMMA CalibrationStoppedIdle ==
  ASSUME IInv, IdleInv, NEW o \in CalibrationStopped, Keep(o), state' = state,
         "CAN" \in fault' => "CAN" \in fault
  PROVE  IdleInv'
<1>1. /\ After(o, lost)
      /\ calActive /\ o.lost = lost => o.drive = Both("idle")
      /\ ~calActive => o = Now
  BY CalibrationStoppedAfter
<1>2. lost' \in Nat /\ lost <= lost'
  BY <1>1 DEF Keep, After
<1>3. calActive /\ lost' = lost => Drives({"idle"})'
  BY <1>1 DEF Keep, Drives, Both, Bare
<1>4. ~calActive => drive' = drive /\ lost' = lost
  BY <1>1 DEF Keep, Now
<1> QED BY <1>2, <1>3, <1>4, StaysIdle

LEMMA EnableIdle ==
  ASSUME IInv, IdleInv, NEW fb \in Feedback, NEW q, Enable(fb, q) PROVE IdleInv'
<1>1. CASE fb.fresh # Axis
  <2>1. WakeFeedback
    BY <1>1 DEF Enable
  <2> QED BY <2>1, WakeFeedbackIdle
<1>2. CASE fb.fresh = Axis
  <2>1. PICK s \in CalibrationStopped :
          IF ~s.ok THEN EnterFault(s, "CAN")
          ELSE \E o \in Sent(s.drive, s.lost, Both("mode")) :
                 IF o.ok
                   THEN /\ Keep(o)
                        /\ calActive' = FALSE /\ calPhase' = 0
                        /\ fault' = {}
                        /\ state' = "STARTING"
                   ELSE FaultWith(o, {"CAN"})
    BY <1>2, Zenon DEF Enable
  <2>2. s \in Outcome /\ After(s, lost)
    BY CalibrationStoppedOutcome, CalibrationStoppedAfter, IInvTypes
  <2>3. CASE ~s.ok
    <3>1. EnterFault(s, "CAN")
      BY <2>1, <2>3
    <3> QED BY <2>2, <2>3, <3>1, EnterFaultIsIdle
  <2>4. CASE s.ok
    <3>1. PICK o \in Sent(s.drive, s.lost, Both("mode")) :
            IF o.ok THEN Keep(o) /\ fault' = {} /\ state' = "STARTING" ELSE FaultWith(o, {"CAN"})
      BY <2>1, <2>4
    <3>2. s.drive \in Drv /\ s.lost \in 0..MaxLost /\ Both("mode") \in Drv
      BY <2>2, BareFrame DEF Outcome, Commands
    <3>3. o \in Outcome /\ After(o, s.lost)
      BY <3>2, SentOutcome, SentAfter
    <3>4. After(o, lost) /\ lost \in Nat
      BY <2>2, <3>3, IdleFacts DEF After
    <3>5. CASE o.ok
      <4>1. state' \notin Stopped /\ fault' = {} /\ lost' \in Nat /\ lost <= lost'
        BY <3>1, <3>4, <3>5 DEF Keep, After, Stopped
      <4> QED BY <4>1, AwakeIsAllowed
    <3>6. CASE ~o.ok
      <4>1. FaultWith(o, {"CAN"}) /\ o.lost > 0
        BY <3>1, <3>4, <3>6 DEF After
      <4> QED BY <3>3, <4>1, FaultIsIdle
    <3> QED BY <3>5, <3>6
  <2> QED BY <2>3, <2>4
<1> QED BY <1>1, <1>2

\* The shutdown begins in a running gimbal: its frames are the first that may fail.
LEMMA BeginReturnIdle ==
  ASSUME IInv, IdleInv, state \notin Stopped, NEW fb, NEW c \in Progress, After(c.sent, lost),
         NEW bits, "CAN" \notin bits, NEW m,
         fb.pos \in [Axis -> Int], startup.pitch \in Int, BeginReturn(fb, c, bits, m)
  PROVE  IdleInv'
<1> DEFINE t == [a \in Axis |-> IF a = "yaw" THEN fb.pos[a] ELSE startup.pitch]
<1>1. c.sent \in Outcome /\ c.sent.drive \in Drv /\ c.sent.lost \in 0..MaxLost
  BY DEF Progress, Outcome
<1>2. CASE ~CanReturn(fb, t)
  <2>1. StopAtOnce(c.sent) /\ fault' = bits
    BY <1>2 DEF BeginReturn
  <2> QED BY <1>1, <2>1, StopIsIdle
<1>3. CASE CanReturn(fb, t)
  <2>1. PICK o \in Sent(c.sent.drive, c.sent.lost, Goto(t)) :
          IF o.ok THEN Go(o, "RETURNING", c) /\ fault' = bits ELSE FaultWith(o, bits \cup {"CAN"})
    BY <1>3 DEF BeginReturn
  <2>2. t \in [Axis -> Int]
    OBVIOUS
  <2> HIDE DEF t
  <2>3. Goto(t) \in Drv
    BY <2>2, GotoFrame
  <2>4. o \in Outcome /\ After(o, c.sent.lost)
    BY <1>1, <2>3, SentOutcome, SentAfter
  <2>5. After(o, lost) /\ lost \in Nat
    BY <2>4, IdleFacts DEF After
  <2>6. CASE o.ok
    <3>1. state' \notin Stopped /\ fault' = bits /\ lost' \in Nat /\ lost <= lost'
      BY <2>1, <2>5, <2>6 DEF Go, Keep, After, Stopped
    <3> QED BY <3>1, AwakeIsAllowed
  <2>7. CASE ~o.ok
    <3>1. FaultWith(o, bits \cup {"CAN"}) /\ o.lost > 0
      BY <2>1, <2>5, <2>7 DEF After
    <3> QED BY <2>4, <3>1, FaultIsIdle
  <2> QED BY <2>6, <2>7
<1> QED BY <1>2, <1>3

LEMMA StartedProgress ==
  ASSUME IInv PROVE Started \in Progress /\ Started.sent = Now /\ Started.active = calActive
BY IdleFacts DEF Started, Progress, IInv, CoreOK

LEMMA DisableIdle ==
  ASSUME IInv, IdleInv, NEW fb \in Feedback, Disable(fb) PROVE IdleInv'
<1>1. CASE state = "DISABLED" /\ state' = state /\ fault' = fault /\ \E o \in CalibrationStopped : Keep(o)
  BY <1>1, CalibrationStoppedIdle
<1>2. CASE StopAtOnce(Now) /\ fault' = fault
  BY <1>2, StopsIdle
<1>3. CASE state \in Returnable /\ BeginReturn(fb, Started, fault, moving)
  <2>1. state \notin Stopped /\ "CAN" \notin fault
    BY <1>3, IdleFacts DEF Returnable, Stopped
  <2>2. Started \in Progress /\ After(Started.sent, lost)
    BY StartedProgress, NowAfter
  <2>3. fb.pos \in [Axis -> Int] /\ startup.pitch \in Int
    BY FeedbackType DEF IInv, MotionOK
  <2> QED BY <1>3, <2>1, <2>2, <2>3, BeginReturnIdle
<1> QED BY <1>1, <1>2, <1>3 DEF Disable

LEMMA SetTargetIdle ==
  ASSUME IInv, IdleInv, NEW t \in Targets, NEW timed, SetTarget(t, timed) PROVE IdleInv'
<1>1. PICK o \in Sent(drive, lost, Goto(t)) :
        IF o.ok THEN Keep(o) /\ UNCHANGED <<state, fault>> ELSE EnterFault(o, "CAN")
  BY DEF SetTarget
<1>2. drive \in Drv /\ lost \in 0..MaxLost /\ Goto(t) \in Drv
  BY GotoFrame, SendTypes, PositionAssumption
<1>3. o \in Outcome /\ After(o, lost)
  BY <1>2, SentOutcome, SentAfter
<1>4. CASE o.ok
  <2>1. state' \notin Stopped /\ fault' = fault /\ lost' \in Nat /\ lost <= lost'
    BY <1>1, <1>3, <1>4 DEF Keep, After, Stopped, SetTarget
  <2> QED BY <2>1, AwakeIsAllowed
<1>5. CASE ~o.ok
  <2>1. EnterFault(o, "CAN")
    BY <1>1, <1>5
  <2> QED BY <1>3, <1>5, <2>1, EnterFaultIsIdle
<1> QED BY <1>4, <1>5

LEMMA CalibrateLimitIdle ==
  ASSUME IInv, IdleInv, NEW fb \in Feedback, NEW a \in Axis, NEW s \in Side,
         CalibrateLimit(fb, a, s)
  PROVE  IdleInv'
<1>1. \/ WakeFeedback
      \/ UNCHANGED <<state, calVars, canVars>> /\ fault' \in {fault, fault \ {"LIMIT_CONFIG"}}
      \/ \E o \in CalibrationStopped :
           IF o.ok THEN Keep(o) /\ fault' = fault \ {"LIMIT_CONFIG"} /\ UNCHANGED state
                   ELSE FaultWith(o, (fault \ {"LIMIT_CONFIG"}) \cup {"CAN"})
  BY Zenon DEF CalibrateLimit
<1>2. CASE WakeFeedback
  BY <1>2, WakeFeedbackIdle
<1>3. CASE UNCHANGED <<state, calVars, canVars>> /\ fault' \in {fault, fault \ {"LIMIT_CONFIG"}}
  BY <1>3, UntouchedIsIdle
<1>4. ASSUME NEW o \in CalibrationStopped,
             IF o.ok THEN Keep(o) /\ fault' = fault \ {"LIMIT_CONFIG"} /\ UNCHANGED state
                     ELSE FaultWith(o, (fault \ {"LIMIT_CONFIG"}) \cup {"CAN"})
      PROVE  IdleInv'
  <2>1. CASE o.ok
    BY <1>4, <2>1, CalibrationStoppedIdle
  <2>2. CASE ~o.ok
    <3>1. o \in Outcome /\ After(o, lost) /\ lost \in Nat
      BY CalibrationStoppedOutcome, CalibrationStoppedAfter, IInvTypes, IdleFacts
    <3>2. FaultWith(o, (fault \ {"LIMIT_CONFIG"}) \cup {"CAN"}) /\ o.lost > 0
      BY <1>4, <2>2, <3>1 DEF After
    <3> QED BY <3>1, <3>2, FaultIsIdle
  <2> QED BY <2>1, <2>2
<1> QED BY <1>1, <1>2, <1>3, <1>4

LEMMA SetLimitsIdle ==
  ASSUME IInv, IdleInv, NEW l, SetLimits(l) PROVE IdleInv'
<1>1. PICK o \in CalibrationStopped :
        IF o.ok THEN Keep(o) /\ fault' = fault \ {"LIMIT_CONFIG"} /\ UNCHANGED state
                ELSE EnterFault(o, "CAN")
  BY DEF SetLimits
<1>2. o \in Outcome /\ After(o, lost)
  BY CalibrationStoppedOutcome, CalibrationStoppedAfter, IInvTypes
<1>3. CASE o.ok
  BY <1>1, <1>3, CalibrationStoppedIdle
<1>4. CASE ~o.ok
  <2>1. EnterFault(o, "CAN")
    BY <1>1, <1>4
  <2> QED BY <1>2, <1>4, <2>1, EnterFaultIsIdle
<1> QED BY <1>3, <1>4

\* Frames sent after those of c.
LEMMA MoreAfter ==
  ASSUME IInv, NEW c \in Progress, After(c.sent, lost), NEW f \in Drv,
         NEW o \in Sent(c.sent.drive, c.sent.lost, f)
  PROVE  o \in Outcome /\ After(o, lost)
<1>1. c.sent.drive \in Drv /\ c.sent.lost \in 0..MaxLost /\ lost \in Nat
  BY IdleFacts DEF Progress, Outcome
<1>2. o \in Outcome /\ After(o, c.sent.lost)
  BY <1>1, SentOutcome, SentAfter
<1> QED BY <1>1, <1>2 DEF After

LEMMA RefreshedAfter ==
  ASSUME IInv, NEW late, NEW c \in Progress, After(c.sent, lost), NEW t \in [Axis -> Int],
         NEW o \in Refreshed(late, c, t)
  PROVE  o \in Outcome /\ After(o, lost)
<1>1. Goto(t) \in Drv
  BY GotoFrame
<1>2. CASE "refresh" \in late
  <2>1. o \in Sent(c.sent.drive, c.sent.lost, Goto(t))
    BY <1>2 DEF Refreshed
  <2> QED BY <1>1, <2>1, MoreAfter
<1>3. CASE "refresh" \notin late
  BY <1>3 DEF Refreshed, Progress
<1> QED BY <1>2, <1>3

LEMMA RunningStates ==
  /\ "STARTING" \notin Stopped /\ "HOMING" \notin Stopped /\ "ACTIVE" \notin Stopped
  /\ "RETURNING" \notin Stopped /\ "STOPPING" \notin Stopped
  /\ Both("enable") \in Drv /\ Goto(Home) \in Drv
BY BareFrame, GotoFrame, HomeType DEF Stopped, Commands

LEMMA PollStartingIdle ==
  ASSUME IInv, IdleInv, NEW late, NEW c \in Progress, After(c.sent, lost), PollStarting(late, c)
  PROVE  IdleInv'
<1>1. c.sent \in Outcome
  BY DEF Progress
<1>2. CASE Step(c.sent, "STARTING", c)
  BY <1>1, <1>2, StepIsIdle, RunningStates
<1>3. CASE \E o \in Sent(c.sent.drive, c.sent.lost, Both("enable")) : Step(o, "STARTING", c)
  <2>1. PICK o \in Sent(c.sent.drive, c.sent.lost, Both("enable")) : Step(o, "STARTING", c)
    BY <1>3
  <2>2. o \in Outcome /\ After(o, lost)
    BY <2>1, MoreAfter, RunningStates
  <2> QED BY <2>1, <2>2, StepIsIdle, RunningStates
<1>4. CASE \E o \in Sent(c.sent.drive, c.sent.lost, Goto(Home)) : Step(o, "HOMING", c)
  <2>1. PICK o \in Sent(c.sent.drive, c.sent.lost, Goto(Home)) : Step(o, "HOMING", c)
    BY <1>4
  <2>2. o \in Outcome /\ After(o, lost)
    BY <2>1, MoreAfter, RunningStates
  <2> QED BY <2>1, <2>2, StepIsIdle, RunningStates
<1> QED BY <1>2, <1>3, <1>4 DEF PollStarting

LEMMA PollHomingIdle ==
  ASSUME IInv, IdleInv, NEW fb, NEW late, NEW c \in Progress, After(c.sent, lost),
         PollHoming(fb, late, c)
  PROVE  IdleInv'
<1>1. PICK o \in Refreshed(late, c, Home) :
        \/ ~o.ok /\ EnterFault(o, "CAN")
        \/ o.ok /\ EnterFault(o, "HOME_TIMEOUT")
        \/ o.ok /\ fault' = fault /\ (Go(o, "ACTIVE", c) \/ Go(o, "HOMING", c))
  BY Zenon DEF PollHoming
<1>2. o \in Outcome /\ After(o, lost)
  BY HomeType, RefreshedAfter
<1>3. CASE EnterFault(o, "CAN") /\ ~o.ok
  BY <1>2, <1>3, EnterFaultIsIdle
<1>4. CASE EnterFault(o, "HOME_TIMEOUT")
  BY <1>2, <1>4, EnterFaultIsIdle
<1>5. CASE fault' = fault /\ (Go(o, "ACTIVE", c) \/ Go(o, "HOMING", c))
  <2>1. state' \notin Stopped /\ lost' \in Nat /\ lost <= lost'
    BY <1>2, <1>5, RunningStates DEF Go, Keep, After
  <2> QED BY <1>5, <2>1, AwakeIsAllowed
<1> QED BY <1>1, <1>3, <1>4, <1>5

LEMMA PollReturningIdle ==
  ASSUME IInv, IdleInv, NEW fb \in Feedback, NEW late, NEW c \in Progress, After(c.sent, lost),
         PollReturning(fb, late, c)
  PROVE  IdleInv'
<1>1. target \in [Axis -> Int] /\ fb.pos \in [Axis -> Int]
  BY FeedbackType DEF IInv, MotionOK
<1>2. PICK o \in Refreshed(late, c, target) :
        \/ ~o.ok /\ EnterFault(o, "CAN")
        \/ o.ok /\ \E p \in Sent(o.drive, o.lost, Goto(fb.pos)) : Step(p, "STOPPING", c)
        \/ EnterFault(o, "MOTION_TIMEOUT")
        \/ Step(o, "RETURNING", c)
  BY Zenon DEF PollReturning
<1>3. o \in Outcome /\ After(o, lost)
  BY <1>1, RefreshedAfter
<1>4. CASE EnterFault(o, "CAN") /\ ~o.ok
  BY <1>3, <1>4, EnterFaultIsIdle
<1>5. CASE \E p \in Sent(o.drive, o.lost, Goto(fb.pos)) : Step(p, "STOPPING", c)
  <2>1. PICK p \in Sent(o.drive, o.lost, Goto(fb.pos)) : Step(p, "STOPPING", c)
    BY <1>5
  <2>2. o.drive \in Drv /\ o.lost \in 0..MaxLost /\ Goto(fb.pos) \in Drv /\ lost \in Nat
    BY <1>1, <1>3, GotoFrame, IdleFacts DEF Outcome
  <2>3. p \in Outcome /\ After(p, o.lost)
    BY <2>1, <2>2, SentOutcome, SentAfter
  <2>4. After(p, lost)
    BY <1>3, <2>2, <2>3 DEF After
  <2> QED BY <2>1, <2>3, <2>4, StepIsIdle, RunningStates
<1>6. CASE EnterFault(o, "MOTION_TIMEOUT")
  BY <1>3, <1>6, EnterFaultIsIdle
<1>7. CASE Step(o, "RETURNING", c)
  BY <1>3, <1>7, StepIsIdle, RunningStates
<1> QED BY <1>2, <1>4, <1>5, <1>6, <1>7

\* The ramp ends with idle frames, and one that is lost is a fault.
LEMMA PollStoppingIdle ==
  ASSUME IInv, IdleInv, "CAN" \notin fault, NEW late, NEW c \in Progress, After(c.sent, lost),
         PollStopping(late, c)
  PROVE  IdleInv'
<1>1. c.sent \in Outcome /\ c.sent.lost \in 0..MaxLost /\ c.sent.drive \in Drv /\ lost \in Nat
  BY IdleFacts DEF Progress, Outcome
<1>2. CASE Step(c.sent, "STOPPING", c)
  BY <1>1, <1>2, StepIsIdle, RunningStates
<1>3. CASE \E i \in Idled(c.sent.drive, c.sent.lost) : Step(i, "DISABLED", c)
  <2>1. PICK i \in Idled(c.sent.drive, c.sent.lost) : Step(i, "DISABLED", c)
    BY <1>3
  <2>2. i \in Outcome /\ After(i, c.sent.lost) /\ (i.ok => i.drive = Both("idle"))
    BY <1>1, IdledOutcome, IdledAfter
  <2>3. After(i, lost)
    BY <1>1, <2>2 DEF After
  <2>4. CASE i.ok
    <3>1. drive' = Both("idle") /\ fault' = fault
      BY <2>1, <2>2, <2>4 DEF Step, Go, Keep
    <3>2. Drives({"idle"})'
      BY <3>1 DEF Drives, Both, Bare
    <3> QED BY <3>1, <3>2 DEF IdleInv, CanMeansLost, StoppedIsIdle
  <2>5. CASE ~i.ok
    <3>1. EnterFault(i, "CAN")
      BY <2>1, <2>5 DEF Step
    <3> QED BY <2>2, <2>3, <2>5, <3>1, EnterFaultIsIdle
  <2> QED BY <2>4, <2>5
<1>4. CASE \E o \in Sent(c.sent.drive, c.sent.lost, Goto(target)) : Step(o, "STOPPING", c)
  <2>1. PICK o \in Sent(c.sent.drive, c.sent.lost, Goto(target)) : Step(o, "STOPPING", c)
    BY <1>4
  <2>2. Goto(target) \in Drv
    BY GotoFrame DEF IInv, MotionOK
  <2>3. o \in Outcome /\ After(o, lost)
    BY <2>1, <2>2, MoreAfter
  <2> QED BY <2>1, <2>3, StepIsIdle, RunningStates
<1> QED BY <1>2, <1>3, <1>4 DEF PollStopping

LEMMA PollActiveIdle ==
  ASSUME IInv, IdleInv, state = "ACTIVE", NEW fb \in Feedback, NEW late, NEW c \in Progress,
         After(c.sent, lost), PollActive(fb, late, c)
  PROVE  IdleInv'
<1>1. target \in [Axis -> Int] /\ "CAN" \notin fault /\ state \notin Stopped
  BY RunningStates, IdleFacts DEF IInv, MotionOK
<1> DEFINE arrived == \A a \in Axis : Near(fb.pos[a], target[a])
<1>2. PICK o \in Refreshed(late, c, target) :
        \/ EnterFault(o, IF o.ok THEN "MOTION_TIMEOUT" ELSE "CAN")
        \/ \E now \in SUBSET fb.fresh :
             BeginReturn([fb EXCEPT !.fresh = now], [c EXCEPT !.sent = o],
                         fault \cup {"COMMAND_TIMEOUT"}, moving /\ ~arrived)
        \/ Step(o, "ACTIVE", c)
  BY Zenon DEF PollActive
<1>3. o \in Outcome /\ After(o, lost)
  BY <1>1, RefreshedAfter
<1>4. CASE EnterFault(o, IF o.ok THEN "MOTION_TIMEOUT" ELSE "CAN")
  <2>1. (IF o.ok THEN "MOTION_TIMEOUT" ELSE "CAN") = "CAN" => ~o.ok
    OBVIOUS
  <2> QED BY <1>3, <1>4, <2>1, EnterFaultIsIdle
<1>5. CASE \E now \in SUBSET fb.fresh :
             BeginReturn([fb EXCEPT !.fresh = now], [c EXCEPT !.sent = o],
                         fault \cup {"COMMAND_TIMEOUT"}, moving /\ ~arrived)
  <2>1. PICK now \in SUBSET fb.fresh :
          BeginReturn([fb EXCEPT !.fresh = now], [c EXCEPT !.sent = o],
                      fault \cup {"COMMAND_TIMEOUT"}, moving /\ ~arrived)
    BY <1>5
  <2> DEFINE after == [c EXCEPT !.sent = o]
             fbNow == [fb EXCEPT !.fresh = now]
             bits == fault \cup {"COMMAND_TIMEOUT"}
             m == (moving /\ ~arrived)
  <2>2. after \in Progress /\ after.sent = o
    BY <1>3 DEF Progress
  <2>3. fbNow.pos \in [Axis -> Int] /\ startup.pitch \in Int /\ "CAN" \notin bits
    BY <1>1, FeedbackType DEF IInv, MotionOK
  <2>4. BeginReturn(fbNow, after, bits, m) /\ After(after.sent, lost)
    BY <1>3, <2>1, <2>2
  <2> HIDE DEF after, fbNow, bits, m
  <2> QED BY <1>1, <2>2, <2>3, <2>4, BeginReturnIdle, Zenon
<1>6. CASE Step(o, "ACTIVE", c)
  BY <1>3, <1>6, StepIsIdle, RunningStates
<1> QED BY <1>2, <1>4, <1>5, <1>6

LEMMA PollMotionIdle ==
  ASSUME IInv, IdleInv, state \notin Stopped, NEW fb \in Feedback, NEW late, NEW c \in Progress,
         After(c.sent, lost), PollMotion(fb, late, c)
  PROVE  IdleInv'
<1>1. c.sent \in Outcome /\ "CAN" \notin fault
  BY IdleFacts DEF Progress
<1>2. CASE FaultWith(c.sent, fault \cup {IF a = "yaw" THEN "YAW_FEEDBACK" ELSE "PITCH_FEEDBACK"
                                           : a \in Axis \ fb.fresh})
  BY <1>1, <1>2, FaultIsIdle
<1>3. CASE EnterFault(c.sent, "LIMIT_EXCEEDED")
  BY <1>1, <1>3, EnterFaultIsIdle
<1>4. CASE PollStarting(late, c)
  BY <1>4, PollStartingIdle
<1>5. CASE PollHoming(fb, late, c)
  BY <1>5, PollHomingIdle
<1>6. CASE PollReturning(fb, late, c)
  BY <1>6, PollReturningIdle
<1>7. CASE PollStopping(late, c)
  BY <1>1, <1>7, PollStoppingIdle
<1>8. CASE state = "ACTIVE" /\ PollActive(fb, late, c)
  BY <1>8, PollActiveIdle
<1> QED BY <1>2, <1>3, <1>4, <1>5, <1>6, <1>7, <1>8 DEF PollMotion

LEMMA PollIdle ==
  ASSUME IInv, IdleInv, NEW fb \in Feedback, NEW late, Poll(fb, late) PROVE IdleInv'
<1>1. PICK c \in CalibrationPolled(late) :
        IF ~c.sent.ok THEN EnterFault(c.sent, "CAN")
        ELSE IF state \in Stopped THEN Step(c.sent, state, c) ELSE PollMotion(fb, late, c)
  BY DEF Poll
<1>2. /\ c \in Progress /\ c.sent \in Outcome /\ After(c.sent, lost)
      /\ ~calActive => c = Started
      /\ calActive /\ c.active = FALSE /\ c.sent.lost = lost => c.sent.drive = Both("idle")
  <2>1. c \in Progress /\ (~calActive => c = Started)
    BY <1>1, CalibrationPolledProgress, IInvTypes
  <2>2. c.sent \in Outcome
    BY <2>1 DEF Progress
  <2> QED BY <1>1, <2>1, <2>2, CalibrationPolledAfter
<1>3. CASE ~c.sent.ok
  <2>1. EnterFault(c.sent, "CAN")
    BY <1>1, <1>3
  <2> QED BY <1>2, <1>3, <2>1, EnterFaultIsIdle
<1>4. CASE c.sent.ok /\ state \in Stopped
  <2>1. /\ state' = state /\ fault' = fault /\ calActive' = c.active
        /\ drive' = c.sent.drive /\ lost' = c.sent.lost
    BY <1>1, <1>4 DEF Step, Go, Keep
  <2>2. lost' \in Nat /\ lost <= lost'
    BY <1>2, <2>1 DEF After
  <2>3. calActive /\ calActive' = FALSE /\ lost' = lost => Drives({"idle"})'
    BY <1>2, <2>1 DEF Drives, Both, Bare
  <2>4. ~calActive => drive' = drive /\ lost' = lost
    BY <1>2, <2>1 DEF Started, Now
  <2> QED BY <2>1, <2>2, <2>3, <2>4, StaysIdle
<1>5. CASE c.sent.ok /\ state \notin Stopped
  <2>1. PollMotion(fb, late, c)
    BY <1>1, <1>5
  <2> QED BY <1>2, <1>5, <2>1, PollMotionIdle
<1> QED BY <1>3, <1>4, <1>5

LEMMA StepIdle == IInv /\ IdleInv /\ [Next]_vars => IdleInv'
<1> SUFFICES ASSUME IInv, IdleInv, [Next]_vars PROVE IdleInv'
  OBVIOUS
<1>1. CASE EnableWithoutLimits
  BY <1>1, UntouchedIsIdle DEF EnableWithoutLimits
<1>2. CASE EmergencyStop
  BY <1>2, StopsIdle DEF EmergencyStop
<1>3. CASE ResetLimits
  BY <1>3, UntouchedIsIdle DEF ResetLimits
<1>4. CASE SetOrigin
  BY <1>4, StopsIdle DEF SetOrigin
<1>5. CASE \E fb \in Feedback, q \in Torques : Enable(fb, q)
  BY <1>5, EnableIdle
<1>6. CASE \E fb \in Feedback : Disable(fb)
  BY <1>6, DisableIdle
<1>7. CASE \E fb \in Feedback, a \in Axis, s \in Side : CalibrateLimit(fb, a, s)
  BY <1>7, CalibrateLimitIdle
<1>8. CASE \E fb \in Feedback : \E late \in SUBSET Delays : Poll(fb, late)
  BY <1>8, PollIdle
<1>9. CASE \E t \in Targets, timed \in BOOLEAN : SetTarget(t, timed)
  BY <1>9, SetTargetIdle
<1>10. CASE \E l \in LimitRequests : SetLimits(l)
  BY <1>10, SetLimitsIdle
<1>11. CASE UNCHANGED vars
  <2>1. UNCHANGED <<state, calVars, canVars>> /\ fault' = fault
    BY <1>11 DEF vars
  <2> QED BY <2>1, UntouchedIsIdle
<1> QED BY <1>1, <1>2, <1>3, <1>4, <1>5, <1>6, <1>7, <1>8, <1>9, <1>10, <1>11 DEF Next

LEMMA InitIdle == Init => IdleInv
BY DEF Init, IdleInv, CanMeansLost, StoppedIsIdle, Drives, Both, Bare

\* A gimbal that is stopped and does not calibrate has both drives idle, unless more
\* frames were lost than the one its CAN fault reports.
THEOREM StoppedStaysIdle == Spec => []StoppedIsIdle
<1>1. Init => IdleInv
  BY InitIdle
<1>2. IInv /\ IdleInv /\ [Next]_vars => IdleInv'
  BY StepIdle
<1>3. IdleInv => StoppedIsIdle
  BY DEF IdleInv
<1> QED BY <1>1, <1>2, <1>3, GimbalInvariant, PTL DEF Spec
=============================================================================
