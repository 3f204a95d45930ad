--------------------------- MODULE Perception_proof ---------------------------
(***************************************************************************)
(* Proofs about the programs that tell the robot where things are: the     *)
(* exported poses of the gimbal, the laser odometry, the direction of a    *)
(* speaker and the positions of detected objects. They share no state, and *)
(* each proof stands on its own.                                           *)
(***************************************************************************)
EXTENDS StateExports, LidarOdometry, SpeakerDirection, TargetLocalization, TLAPS

-----------------------------------------------------------------------------
(***************************************************************************)
(* The transform published by gimbal_camera_tf is never of an older pose   *)
(* than the two limits allow together. PoseIsFresh is not inductive: what  *)
(* the reader publishes is bounded by what the file holds, and that by     *)
(* what the bridge was answered. At each of these places a valid pose is   *)
(* at most MaxFeedback older than the stamp that goes with it.             *)
(***************************************************************************)
AnswerIsYoung ==
  bridge.answer.valid =>
    bridge.at = "writing" /\ bridge.answer.pose <= MaxFeedback + bridge.stamp

FileIsYoung == file.valid => file.pose <= MaxFeedback + file.stamp

ExportInv == ExportTypeOK /\ AnswerIsYoung /\ FileIsYoung /\ PoseIsFresh

-----------------------------------------------------------------------------

\* Ages never run backwards, grow by at most one, and two of them keep their distance.
LEMMA AgedType ==
  ASSUME NEW a \in Age
  PROVE  Aged(a) \in Age
BY ExportAssumption DEF Age, Old, Aged

LEMMA AgedKeepsDistance ==
  ASSUME NEW pose \in Age, NEW stamp \in Age, pose <= MaxFeedback + stamp
  PROVE  Aged(pose) <= MaxFeedback + Aged(stamp)
BY ExportAssumption DEF Age, Old, Aged

LEMMA OldIsAge == Old \in Age /\ 0 \in Age
BY ExportAssumption DEF Age, Old

-----------------------------------------------------------------------------

LEMMA ExportInitInv == ExportInit => ExportInv
BY OldIsAge, ExportAssumption
DEF ExportInit, ExportInv, ExportTypeOK, AnswerIsYoung, FileIsYoung, PoseIsFresh, NoAnswer

LEMMA ExportStepInv == ExportInv /\ [ExportStep]_exportVars => ExportInv'
<1> SUFFICES ASSUME ExportInv, [ExportStep]_exportVars
             PROVE  ExportInv'
  OBVIOUS
<1> USE DEF ExportInv
<1>1. CASE AskDaemon
  <2>1. ExportTypeOK'
    <3>1. bridge.seq + 1 \in 0..SequenceCap
      BY <1>1, ExportAssumption DEF AskDaemon, ExportTypeOK
    <3>2. Sample \in [at : {"asleep", "asking", "writing"}, seq : 0..SequenceCap, stamp : Age,
                      answer : [valid : BOOLEAN, pose : Age]]
      BY <3>1, OldIsAge DEF Sample, ExportTypeOK
    <3> QED BY <1>1, <3>2 DEF AskDaemon, ExportTypeOK
  <2>2. ~bridge'.answer.valid
    BY <1>1 DEF AskDaemon, Sample, ExportTypeOK, AnswerIsYoung
  <2> QED BY <1>1, <2>1, <2>2 DEF AskDaemon, AnswerIsYoung, FileIsYoung, PoseIsFresh
<1>2. CASE Answer
  <2>1. PICK a \in {StateFromResponse, NoAnswer} :
          bridge' = [bridge EXCEPT !.at = "writing", !.answer = a]
    BY <1>2 DEF Answer
  <2>2. a \in [valid : BOOLEAN, pose : Age]
    <3>1. NoAnswer \in [valid : BOOLEAN, pose : Age]
      BY OldIsAge DEF NoAnswer
    <3>2. StateFromResponse \in [valid : BOOLEAN, pose : Age]
      BY DEF StateFromResponse, ExportTypeOK
    <3> QED BY <3>1, <3>2
  <2>3. a.valid => a.pose <= MaxFeedback
    <3>1. CASE a = NoAnswer
      BY <3>1 DEF NoAnswer
    <3>2. CASE a = StateFromResponse
      <4>1. a.valid = (~gimbal.fault /\ gimbal.age <= MaxFeedback) /\ a.pose = gimbal.age
        BY <3>2 DEF StateFromResponse
      <4> QED BY <4>1
    <3> QED BY <3>1, <3>2
  <2>4. bridge.stamp \in Nat /\ bridge.stamp \in Age
    BY ExportAssumption DEF ExportTypeOK, Age, Old
  <2>5. bridge'.at = "writing" /\ bridge'.stamp = bridge.stamp /\ bridge'.answer = a
    BY <2>1 DEF ExportTypeOK
  <2>6. AnswerIsYoung'
    <3> SUFFICES ASSUME a.valid PROVE a.pose <= MaxFeedback + bridge.stamp
      BY <2>5 DEF AnswerIsYoung
    <3> QED BY <2>2, <2>3, <2>4, ExportAssumption DEF Age, Old
  <2>7. ExportTypeOK'
    BY <1>2, <2>1, <2>2 DEF Answer, ExportTypeOK
  <2> QED BY <1>2, <2>6, <2>7 DEF Answer, FileIsYoung, PoseIsFresh
<1>3. CASE Write
  BY <1>3, OldIsAge
  DEF Write, NoAnswer, ExportTypeOK, AnswerIsYoung, FileIsYoung, PoseIsFresh
<1>4. CASE BridgeRestarts
  BY <1>4, OldIsAge, ExportAssumption
  DEF BridgeRestarts, NoAnswer, ExportTypeOK, AnswerIsYoung, FileIsYoung, PoseIsFresh
<1>5. CASE OnTimer
  <2>1. ExportTypeOK' /\ AnswerIsYoung' /\ FileIsYoung'
    BY <1>5 DEF OnTimer, ExportTypeOK, AnswerIsYoung, FileIsYoung
  <2>2. CASE Publishes
    <3>1. camera'.pose = file.pose /\ file.stamp <= MaxState
          /\ file.pose <= MaxFeedback + file.stamp
      BY <1>5, <2>2 DEF OnTimer, Publishes, StateValid, FileIsYoung
    <3>2. file.pose \in Int /\ file.stamp \in Int
      BY ExportAssumption DEF ExportTypeOK, Age, Old
    <3>3. camera'.pose <= MaxState + MaxFeedback
      BY <3>1, <3>2, ExportAssumption
    <3> QED BY <2>1, <3>3 DEF PoseIsFresh
  <2>3. CASE ~Publishes
    BY <1>5, <2>1, <2>3 DEF OnTimer, PoseIsFresh, ExportTypeOK
  <2> QED BY <2>2, <2>3
<1>6. CASE NodeRestarts
  <2>1. ExportTypeOK'
    <3>1. 0 \in 0..SequenceCap
      BY ExportAssumption
    <3>2. camera' \in [seq : 0..SequenceCap, stamp : Age, pose : Age, now : BOOLEAN]
      BY <1>6, <3>1 DEF NodeRestarts, ExportTypeOK
    <3> QED BY <1>6, <3>2 DEF NodeRestarts, ExportTypeOK
  <2>2. ~camera'.now
    BY <1>6 DEF NodeRestarts, ExportTypeOK
  <2> QED BY <1>6, <2>1, <2>2 DEF NodeRestarts, AnswerIsYoung, FileIsYoung, PoseIsFresh
<1>7. CASE Feedback
  BY <1>7, OldIsAge DEF Feedback, ExportTypeOK, AnswerIsYoung, FileIsYoung, PoseIsFresh
<1>8. CASE TimePasses
  <2>1. ExportTypeOK'
    BY <1>8, AgedType DEF TimePasses, ExportTypeOK
  <2>2. AnswerIsYoung'
    BY <1>8, AgedKeepsDistance DEF TimePasses, ExportTypeOK, AnswerIsYoung
  <2>3. FileIsYoung'
    BY <1>8, AgedKeepsDistance DEF TimePasses, ExportTypeOK, FileIsYoung
  <2>4. PoseIsFresh'
    BY <1>8 DEF TimePasses, ExportTypeOK, PoseIsFresh
  <2> QED BY <2>1, <2>2, <2>3, <2>4
<1>9. CASE UNCHANGED exportVars
  BY <1>9 DEF exportVars, ExportTypeOK, AnswerIsYoung, FileIsYoung, PoseIsFresh
<1> QED
  BY <1>1, <1>2, <1>3, <1>4, <1>5, <1>6, <1>7, <1>8, <1>9 DEF ExportStep

LEMMA ExportsStayYoung == ExportSpec => []ExportInv
BY ExportInitInv, ExportStepInv, PTL DEF ExportSpec

\* The variables of the bridge, the file and the reader keep their types.
THEOREM ExportTypeCorrect == ExportSpec => []ExportTypeOK
BY ExportsStayYoung, PTL DEF ExportInv

\* gimbal_camera_tf publishes no transform of a pose older than maximum_state_age_s and
\* the maximum age of the feedback together, whatever the request, the file and restarts
\* of either program add (node.py, gimbal_tf_state_bridge.py).
THEOREM PublishedPoseIsFresh == ExportSpec => []PoseIsFresh
BY ExportsStayYoung, PTL DEF ExportInv

-----------------------------------------------------------------------------
(***************************************************************************)
(* The odometry counts the robot's motion once, and what a scan can lose   *)
(* is bounded.  What makes it true: unless a match with the reference has  *)
(* been rejected, every scan since the reference was taken to show a robot *)
(* that stands, so the last of them is no farther from the reference than  *)
(* what may go unseen in each (SlowSince).  Only after a rejected match    *)
(* may a robot that seems to stand be anywhere.                            *)
(***************************************************************************)
\* A robot is no farther than it has moved.
Reach == -robot.moves <= robot.at /\ robot.at <= robot.moves

Drift(n) == Unseen * n

\* The scans since the reference: one is due for the last period.
Scans == core.age - (IF scan.due THEN 1 ELSE 0)

SlowSince ==
  /\ core.started /\ scan.due => core.age >= 1
  /\ core.started /\ ~core.missed /\ core.age <= MaxReference =>
       AtMost(scan.at - core.ref, Drift(Scans))

OdometryInv == OdometryTypeOK /\ Reach /\ SlowSince

Cores == [started : BOOLEAN, ref : Stretch, age : 0..(MaxReference + 1), pose : Int,
          rejections : 0..2, reason : Reasons, missed : BOOLEAN]

-----------------------------------------------------------------------------

\* What may go unseen grows with each scan.
LEMMA DriftGrows ==
  /\ Drift(0) = 0
  /\ \A n \in Nat : Drift(n) \in Nat /\ Drift(n + 1) \in Nat /\ Drift(n + 1) = Drift(n) + Unseen
  /\ \A n \in Nat : n >= 1 => Drift(n) = Drift(n - 1) + Unseen /\ Drift(n - 1) \in Nat
<1>1. Unseen \in Nat
  BY OdometryAssumption
<1>2. \A n \in Nat : Unseen * n \in Nat /\ Unseen * (n + 1) = Unseen * n + Unseen
  BY <1>1
<1>3. Unseen * 0 = 0
  BY <1>1
<1>4. ASSUME NEW n \in Nat, n >= 1 PROVE Drift(n) = Drift(n - 1) + Unseen /\ Drift(n - 1) \in Nat
  <2>1. n - 1 \in Nat /\ (n - 1) + 1 = n
    BY <1>4
  <2>2. Unseen * ((n - 1) + 1) = Unseen * (n - 1) + Unseen /\ Unseen * (n - 1) \in Nat
    BY <1>2, <2>1
  <2> QED BY <2>1, <2>2 DEF Drift
<1>5. ASSUME NEW n \in Nat
      PROVE  Drift(n) \in Nat /\ Drift(n + 1) \in Nat /\ Drift(n + 1) = Drift(n) + Unseen
  <2>1. n + 1 \in Nat
    BY <1>5
  <2> QED BY <1>2, <2>1 DEF Drift
<1>6. Drift(0) = 0
  BY <1>3 DEF Drift
<1> QED BY <1>4, <1>5, <1>6

\* Bounds of distances may be widened and added up.
LEMMA Bounds ==
  /\ \A x, b, c \in Int : AtMost(x, b) /\ b <= c => AtMost(x, c)
  /\ \A x, y, b, c \in Int : AtMost(x, b) /\ AtMost(y, c) => AtMost(x + y, b + c)
  /\ \A b \in Nat : AtMost(0, b)
BY DEF AtMost

LEMMA StretchIsInt == Stretch \subseteq Int /\ 0 \in Stretch /\ 0 \in 0..(MaxReference + 1)
BY OdometryAssumption DEF Stretch

\* A core whose reference is this scan.
LEMMA ReferencedCore ==
  ASSUME OdometryTypeOK, NEW c \in Cores
  PROVE  /\ Referenced(c) \in Cores
         /\ Referenced(c).ref = robot.at
         /\ ~Referenced(c).missed
         /\ Referenced(c).pose = c.pose
         /\ Referenced(c).started = c.started
         /\ Referenced(c).age = 0
BY StretchIsInt DEF Referenced, Cores, OdometryTypeOK

LEMMA CoreIsCore == OdometryTypeOK => core \in Cores
BY DEF OdometryTypeOK, Cores

\* What is noted of a scan that is not rejected.
Noted(c, reason) == [c EXCEPT !.rejections = 0, !.reason = reason]

LEMMA NotedCore ==
  ASSUME NEW c \in Cores, NEW reason \in Reasons
  PROVE  /\ Noted(c, reason) \in Cores
         /\ Noted(c, reason).ref = c.ref
         /\ Noted(c, reason).pose = c.pose
         /\ Noted(c, reason).missed = c.missed
         /\ Noted(c, reason).age = c.age /\ Noted(c, reason).started = c.started
         /\ Noted(c, reason).reason = reason
<1>1. 0 \in 0..2
  OBVIOUS
<1> QED BY <1>1 DEF Noted, Cores

\* What an accepted match makes of the core: reference and pose move together, but for what
\* is in the deadband.
LEMMA AddedCore ==
  ASSUME OdometryTypeOK
  PROVE  /\ Added(core) \in Cores
         /\ Added(core).ref = robot.at /\ Added(core).age = 0
         /\ ~Added(core).missed
         /\ AtMost((Added(core).ref - Added(core).pose) - Behind, Deadband)
<1>1. core \in Cores /\ robot.at \in Int /\ core.ref \in Int /\ core.pose \in Int
  BY CoreIsCore, StretchIsInt DEF OdometryTypeOK
<1>2. Referenced(core) \in Cores /\ Referenced(core).ref = robot.at /\ Referenced(core).age = 0
      /\ ~Referenced(core).missed /\ Referenced(core).pose = core.pose
  BY <1>1, ReferencedCore
<1>3. Motion \in Int /\ Delta \in {0, Motion} /\ core.pose + Delta \in Int
  BY <1>1 DEF Motion, Delta
<1>4. Added(core) = [Referenced(core) EXCEPT !.pose = core.pose + Delta]
  BY <1>2 DEF Added
<1>5. Added(core) \in Cores /\ Added(core).ref = robot.at /\ ~Added(core).missed
      /\ Added(core).pose = core.pose + Delta /\ Added(core).age = 0
  BY <1>2, <1>3, <1>4 DEF Cores
<1>6. (robot.at - (core.pose + Delta)) - (core.ref - core.pose) = Motion - Delta
  BY <1>1, <1>3 DEF Motion
<1>7. AtMost(Motion - Delta, Deadband)
  <2>1. CASE AtMost(Motion, Deadband)
    <3>1. Delta = 0 /\ Motion - Delta = Motion
      BY <1>3, <2>1 DEF Delta
    <3> QED BY <2>1, <3>1
  <2>2. CASE ~AtMost(Motion, Deadband)
    <3>1. Delta = Motion /\ Motion - Delta = 0 /\ Deadband \in Nat
      BY <1>3, <2>2, OdometryAssumption DEF Delta
    <3> QED BY <3>1, Bounds
  <2> QED BY <2>1, <2>2
<1> QED BY <1>5, <1>6, <1>7 DEF Behind

-----------------------------------------------------------------------------
(* What each outcome of a scan leaves: a core of its type, a reference that  *)
(* is no farther than what went unseen unless a match is now missed, and     *)
(* motion counted once.                                                      *)

Lost == Behind' - Behind

\* What MotionCountsOnce says of a step.
Counted ==
  \/ Lost = 0
  \/ core'.reason = "ok" /\ AtMost(Lost, Deadband)
  \/ core'.reason = "static_geometry" /\ AtMost(Lost, Unseen)
  \/ core'.reason = "static" /\ (core.missed \/ AtMost(Lost, Drift(core.age)))
  \/ core'.reason = "rejected" /\ core.rejections = 2
  \/ core'.reason \in {"initializing", "initialized", "reference_reset"}

CoreIsSound ==
  /\ core' \in Cores
  /\ ~core'.missed => AtMost(robot.at - core'.ref, Drift(core'.age))
  /\ Counted

LEMMA NothingDrifts == \A p \in Int : AtMost(p - p, Drift(0)) /\ AtMost(0, Drift(0))
<1>1. Drift(0) = 0 /\ 0 \in Nat /\ AtMost(0, 0)
  BY DriftGrows, Bounds
<1>2. \A p \in Int : p - p = 0
  OBVIOUS
<1> QED BY <1>1, <1>2

LEMMA ReferencesAreSound ==
  ASSUME OdometryInv, Initialized \/ ReferenceReset
  PROVE  CoreIsSound
<1>1. core \in Cores /\ robot.at \in Int
  BY CoreIsCore, StretchIsInt DEF OdometryInv, OdometryTypeOK
<1>2. Referenced(core) \in Cores /\ Referenced(core).ref = robot.at /\ Referenced(core).age = 0
  BY <1>1, ReferencedCore DEF OdometryInv
<1>3. CASE Initialized
  <2>1. core' = [Referenced(core) EXCEPT !.started = TRUE, !.reason = "initialized"]
    BY <1>3 DEF Initialized
  <2>2. core' \in Cores /\ core'.ref = robot.at /\ core'.reason = "initialized" /\ core'.age = 0
    BY <1>2, <2>1 DEF Cores, Reasons
  <2> QED BY <1>1, <2>2, NothingDrifts DEF CoreIsSound, Counted
<1>4. CASE ReferenceReset
  <2>1. core' = [Referenced(core) EXCEPT !.reason = "reference_reset"]
    BY <1>4 DEF ReferenceReset
  <2>2. core' \in Cores /\ core'.ref = robot.at /\ core'.reason = "reference_reset" /\ core'.age = 0
    BY <1>2, <2>1 DEF Cores, Reasons
  <2> QED BY <1>1, <2>2, NothingDrifts DEF CoreIsSound, Counted
<1> QED BY <1>3, <1>4

\* A robot taken to stand keeps its reference and pose, or moves the reference to where it
\* is; then what was not seen is lost.
LEMMA StandingIsSound ==
  ASSUME OdometryInv, scan.due, NEW reason \in Reasons, Matchable, Stands(reason),
         \/ reason = "static_geometry" /\ AtMost(Motion, Unseen)
         \/ reason = "static" /\ SameScan
  PROVE  CoreIsSound
<1> DEFINE c == IF core.age >= Refresh THEN Referenced(core) ELSE core
<1>1. /\ core \in Cores
      /\ robot.at \in Int /\ core.ref \in Int /\ core.pose \in Int /\ scan.at \in Int
      /\ core.age \in Nat /\ core.age <= MaxReference /\ core.started /\ core.age >= 1
      /\ Unseen \in Nat
  <2>1. /\ robot.at \in Stretch /\ core.ref \in Stretch /\ core.pose \in Int /\ scan.at \in Stretch
        /\ core.age \in 0..(MaxReference + 1) /\ core \in Cores
    BY CoreIsCore DEF OdometryInv, OdometryTypeOK
  <2>2. core.age \in Nat /\ Unseen \in Nat
    BY <2>1, OdometryAssumption
  <2>3. core.started /\ core.age <= MaxReference /\ core.age >= 1
    BY DEF OdometryInv, Matchable, SlowSince
  <2> QED BY <2>1, <2>2, <2>3, StretchIsInt
<1>2. /\ c \in Cores /\ c.pose = core.pose
      /\ \/ c.ref = robot.at /\ c.age = 0
         \/ c = core
  BY <1>1, ReferencedCore DEF OdometryInv
<1>3. core' = Noted(c, reason)
  BY DEF Stands, Noted
<1> HIDE DEF c
<1>4. core' \in Cores /\ core'.pose = core.pose /\ core'.ref = c.ref /\ core'.age = c.age
      /\ core'.missed = c.missed /\ core'.reason = reason
  BY <1>2, <1>3, NotedCore
<1>5. /\ Drift(core.age) \in Nat /\ Drift(core.age - 1) \in Nat
      /\ Drift(core.age) = Drift(core.age - 1) + Unseen
  BY <1>1, DriftGrows
<1>6. ~core.missed \/ reason = "static_geometry" => AtMost(Motion, Drift(core.age))
  <2>0. Motion \in Int /\ Unseen \in Int /\ Drift(core.age) \in Int /\ Drift(core.age - 1) \in Int
        /\ Unseen <= Drift(core.age)
    BY <1>1, <1>5 DEF Motion
  <2>1. CASE AtMost(Motion, Unseen)
    BY <2>0, <2>1, Bounds
  <2>2. ASSUME SameScan, ~core.missed PROVE AtMost(Motion, Drift(core.age))
    <3>1. AtMost(scan.at - core.ref, Drift(core.age - 1))
      <4>1. Scans = core.age - 1
        BY DEF Scans
      <4> QED BY <1>1, <2>2, <4>1 DEF OdometryInv, SlowSince
    <3>2. scan.at - core.ref \in Int /\ robot.at - scan.at \in Int
          /\ (scan.at - core.ref) + (robot.at - scan.at) = Motion
      BY <1>1 DEF Motion
    <3>3. AtMost(robot.at - scan.at, Unseen)
      BY <2>2 DEF SameScan
    <3>4. AtMost((scan.at - core.ref) + (robot.at - scan.at), Drift(core.age - 1) + Unseen)
      BY <2>0, <3>1, <3>2, <3>3, Bounds
    <3> QED BY <1>5, <3>2, <3>4
  <2> QED BY <2>1, <2>2
<1>7. CASE c.ref = robot.at /\ c.age = 0
  <2>1. Lost = Motion
    BY <1>1, <1>4, <1>7 DEF Lost, Behind, Motion
  <2>2. Counted
    BY <1>4, <1>6, <2>1 DEF Counted
  <2> QED BY <1>1, <1>4, <1>7, <2>2, NothingDrifts DEF CoreIsSound
<1>8. CASE c = core
  <2>1. Lost = 0
    BY <1>1, <1>4, <1>8 DEF Lost, Behind
  <2>2. ~core.missed => AtMost(robot.at - core.ref, Drift(core.age))
    BY <1>6 DEF Motion
  <2> QED BY <1>4, <1>8, <2>1, <2>2 DEF CoreIsSound, Counted
<1> QED BY <1>2, <1>7, <1>8

LEMMA AcceptedIsSound ==
  ASSUME OdometryInv, Accepted
  PROVE  CoreIsSound
<1>1. Added(core) \in Cores /\ Added(core).ref = robot.at /\ ~Added(core).missed
      /\ Added(core).age = 0 /\ robot.at \in Int
      /\ AtMost((Added(core).ref - Added(core).pose) - Behind, Deadband)
  BY AddedCore, StretchIsInt DEF OdometryInv, OdometryTypeOK
<1>2. core' = Noted(Added(core), "ok") /\ "ok" \in Reasons
  BY DEF Accepted, Noted, Reasons
<1>3. core' \in Cores /\ core'.ref = robot.at /\ core'.pose = Added(core).pose
      /\ core'.age = 0 /\ core'.reason = "ok"
  BY <1>1, <1>2, NotedCore
<1>4. AtMost(Lost, Deadband)
  BY <1>1, <1>3 DEF Lost, Behind
<1> QED BY <1>1, <1>3, <1>4, NothingDrifts DEF CoreIsSound, Counted

LEMMA RejectedIsSound ==
  ASSUME OdometryInv, Rejected
  PROVE  CoreIsSound
<1>1. core \in Cores /\ robot.at \in Int /\ core.ref \in Int /\ core.pose \in Int
  BY CoreIsCore, StretchIsInt DEF OdometryInv, OdometryTypeOK
<1>2. CASE core.rejections = 2
  <2>1. Referenced(core) \in Cores /\ Referenced(core).ref = robot.at /\ Referenced(core).age = 0
    BY <1>1, ReferencedCore DEF OdometryInv
  <2>2. core' = Noted(Referenced(core), "rejected") /\ "rejected" \in Reasons
    BY <1>2 DEF Rejected, Noted, Reasons
  <2>3. core' \in Cores /\ core'.ref = robot.at /\ core'.reason = "rejected" /\ core'.age = 0
    BY <2>1, <2>2, NotedCore
  <2> QED BY <1>1, <1>2, <2>3, NothingDrifts DEF CoreIsSound, Counted
<1>3. CASE core.rejections # 2
  <2>1. core.rejections + 1 \in 0..2
    BY <1>1, <1>3 DEF Cores
  <2>2. core' = [core EXCEPT !.rejections = core.rejections + 1, !.reason = "rejected",
                             !.missed = TRUE]
    BY <1>3 DEF Rejected
  <2>3. core' \in Cores /\ core'.missed /\ core'.ref = core.ref /\ core'.pose = core.pose
    BY <1>1, <2>1, <2>2 DEF Cores, Reasons
  <2>4. Lost = 0
    BY <1>1, <2>3 DEF Lost, Behind
  <2> QED BY <2>3, <2>4 DEF CoreIsSound, Counted
<1> QED BY <1>2, <1>3

LEMMA ScanIsSound ==
  ASSUME OdometryInv, OnScan
  PROVE  CoreIsSound
<1>1. "static" \in Reasons /\ "static_geometry" \in Reasons /\ scan.due
  BY DEF Reasons, OnScan
<1>2. CASE Static
  <2>1. Matchable /\ SameScan /\ Stands("static")
    BY <1>2 DEF Static
  <2> QED BY <1>1, <2>1, StandingIsSound
<1>3. CASE StaticGeometry
  <2>1. Matchable /\ AtMost(Motion, Unseen) /\ Stands("static_geometry")
    BY <1>3 DEF StaticGeometry
  <2> QED BY <1>1, <2>1, StandingIsSound
<1> QED BY <1>2, <1>3, ReferencesAreSound, AcceptedIsSound, RejectedIsSound DEF OnScan

-----------------------------------------------------------------------------

LEMMA OdometryInitInv == OdometryInit => OdometryInv
<1>1. Core0 \in Cores
  BY StretchIsInt DEF Core0, Cores, Reasons
<1> QED
  BY <1>1, StretchIsInt, OdometryAssumption
  DEF OdometryInit, OdometryInv, OdometryTypeOK, Reach, SlowSince, Cores, Core0

LEMMA OdometryStepInv == OdometryInv /\ [OdometryStep]_odometryVars => OdometryInv'
<1> SUFFICES ASSUME OdometryInv, [OdometryStep]_odometryVars
             PROVE  OdometryInv'
  OBVIOUS
<1>1. CASE OnScan
  <2>1. core' \in Cores /\ (~core'.missed => AtMost(robot.at - core'.ref, Drift(core'.age)))
    BY <1>1, ScanIsSound DEF CoreIsSound
  <2>2. scan' = [at |-> robot.at, due |-> FALSE] /\ robot' = robot
    BY <1>1 DEF OnScan
  <2>3. scan'.at = robot.at /\ ~scan'.due /\ scan' \in [at : Stretch, due : BOOLEAN]
    BY <2>2 DEF OdometryInv, OdometryTypeOK
  <2>4. OdometryTypeOK'
    BY <2>1, <2>2, <2>3 DEF OdometryInv, OdometryTypeOK, Cores
  <2>5. Scans' = core'.age
    <3>1. core'.age \in Nat
      BY <2>1, OdometryAssumption DEF Cores
    <3> QED BY <2>3, <3>1 DEF Scans
  <2>6. SlowSince'
    <3>1. ~core'.missed => AtMost(scan'.at - core'.ref, Drift(Scans'))
      BY <2>1, <2>3, <2>5
    <3> QED BY <2>3, <3>1 DEF SlowSince, AtMost, Drift
  <2> QED BY <2>2, <2>4, <2>6 DEF OdometryInv, Reach
<1>2. CASE OdometryRestarts
  <2>1. core' = Core0 /\ scan' = [scan EXCEPT !.due = TRUE] /\ robot' = robot
    BY <1>2 DEF OdometryRestarts
  <2>2. Core0 \in Cores /\ ~Core0.started
    BY StretchIsInt DEF Core0, Cores, Reasons
  <2>3. OdometryTypeOK'
    BY <2>1, <2>2 DEF OdometryInv, OdometryTypeOK, Cores
  <2> QED BY <2>1, <2>2, <2>3 DEF OdometryInv, Reach, SlowSince
<1>3. CASE RobotMoves
  <2>1. PICK step \in {-1, 0, 1} :
          /\ step # 0 => robot.moves < MaxMoves
          /\ robot' = [at |-> robot.at + step,
                       moves |-> robot.moves + (IF step = 0 THEN 0 ELSE 1)]
    BY <1>3 DEF RobotMoves
  <2>2. robot.at \in Int /\ robot.moves \in 0..MaxMoves /\ MaxMoves \in Nat
    BY StretchIsInt, OdometryAssumption DEF OdometryInv, OdometryTypeOK
  <2>3. Reach' /\ robot'.moves \in 0..MaxMoves /\ robot'.at \in Int
    BY <2>1, <2>2 DEF OdometryInv, Reach
  <2>4. robot' \in [at : Stretch, moves : 0..MaxMoves]
    BY <2>1, <2>2, <2>3 DEF Reach, Stretch
  <2>5. core.age \in 0..(MaxReference + 1) /\ MaxReference \in Nat
    BY OdometryAssumption DEF OdometryInv, OdometryTypeOK
  <2>6. PICK age \in 0..(MaxReference + 1) :
          /\ core' = [core EXCEPT !.age = age]
          /\ core.started => age = core.age + 1 \/ (age = core.age /\ age > MaxReference)
    <3>1. CASE core.age > MaxReference \/ ~core.started
      BY <1>3, <2>5, <3>1 DEF RobotMoves
    <3>2. CASE ~(core.age > MaxReference \/ ~core.started)
      <4>1. core' = [core EXCEPT !.age = core.age + 1]
        BY <1>3, <3>2 DEF RobotMoves
      <4>2. core.age + 1 \in 0..(MaxReference + 1)
        BY <2>5, <3>2
      <4> QED BY <4>1, <4>2
    <3> QED BY <3>1, <3>2
  <2>7. core' \in Cores /\ core'.ref = core.ref /\ core'.started = core.started
        /\ core'.missed = core.missed /\ core'.age = age
    BY <2>6, CoreIsCore DEF OdometryInv, Cores
  <2>8. scan' \in [at : Stretch, due : BOOLEAN] /\ scan'.at = scan.at /\ scan'.due
    BY <1>3 DEF RobotMoves, OdometryInv, OdometryTypeOK
  <2>9. OdometryTypeOK'
    BY <2>4, <2>7, <2>8 DEF OdometryTypeOK, Cores
  <2>10. SlowSince'
    <3>1. core'.started => core'.age >= 1
      BY <2>5, <2>6, <2>7
    <3>2. ASSUME core.started, ~core.missed, age <= MaxReference
          PROVE  AtMost(scan.at - core.ref, Drift(age - 1))
      <4>1. age = core.age + 1 /\ age - 1 = core.age /\ core.age \in Nat /\ core.age <= MaxReference
        BY <2>5, <2>6, <3>2
      <4>2. AtMost(scan.at - core.ref, Drift(Scans)) /\ (scan.due => core.age >= 1)
        BY <3>2, <4>1 DEF OdometryInv, SlowSince
      <4>3. Drift(core.age) \in Nat /\ scan.at \in Int /\ core.ref \in Int /\ Unseen \in Nat
        BY <4>1, DriftGrows, StretchIsInt, OdometryAssumption DEF OdometryInv, OdometryTypeOK
      <4>4. CASE scan.due
        <5>1. Drift(core.age) = Drift(core.age - 1) + Unseen /\ Drift(core.age - 1) \in Nat
              /\ Scans = core.age - 1
          BY <4>1, <4>2, <4>4, DriftGrows DEF Scans
        <5>2. AtMost(scan.at - core.ref, Drift(core.age - 1))
          BY <4>2, <5>1
        <5> QED BY <4>1, <4>3, <5>1, <5>2 DEF AtMost
      <4>5. CASE ~scan.due
        <5>1. Scans = core.age
          BY <4>1, <4>5 DEF Scans
        <5> QED BY <4>1, <4>2, <5>1
      <4> QED BY <4>4, <4>5
    <3>3. Scans' = age - 1
      BY <2>7, <2>8 DEF Scans
    <3> QED BY <2>7, <2>8, <3>1, <3>2, <3>3 DEF SlowSince, AtMost, Drift
  <2> QED BY <2>3, <2>9, <2>10 DEF OdometryInv
<1>4. CASE UNCHANGED odometryVars
  BY <1>4 DEF odometryVars, OdometryInv, OdometryTypeOK, Reach, SlowSince, Scans, AtMost, Drift
<1> QED BY <1>1, <1>2, <1>3, <1>4 DEF OdometryStep

LEMMA OdometryStaysReferenced == OdometrySpec => []OdometryInv
BY OdometryInitInv, OdometryStepInv, PTL DEF OdometrySpec

-----------------------------------------------------------------------------

LEMMA StepCounts == OdometryInv /\ [OdometryStep]_odometryVars => Counted
<1> SUFFICES ASSUME OdometryInv, [OdometryStep]_odometryVars
             PROVE  Counted
  OBVIOUS
<1>0. core.ref \in Int /\ core.pose \in Int
  BY StretchIsInt DEF OdometryInv, OdometryTypeOK
<1>1. CASE OnScan
  BY <1>1, ScanIsSound DEF CoreIsSound
<1>2. CASE OdometryRestarts
  BY <1>2 DEF OdometryRestarts, Core0, Counted
<1>3. CASE RobotMoves
  <2>1. core'.ref = core.ref /\ core'.pose = core.pose
    BY <1>3 DEF RobotMoves, OdometryInv, OdometryTypeOK
  <2> QED BY <1>0, <2>1 DEF Counted, Lost, Behind
<1>4. CASE UNCHANGED odometryVars
  BY <1>0, <1>4 DEF odometryVars, Counted, Lost, Behind
<1> QED BY <1>1, <1>2, <1>3, <1>4 DEF OdometryStep

\* The variables of the odometry keep their types, for any limits.
THEOREM OdometryTypeCorrect == OdometrySpec => []OdometryTypeOK
BY OdometryStaysReferenced, PTL DEF OdometryInv

\* LaserOdometryCore.update adds no motion to the pose twice, and loses no more of it than
\* the deadband in a match, what may go unseen in each scan since the reference when the
\* robot is taken to stand, and all since the reference only after rejected matches, a gap
\* or a restart: for any thresholds, limits of speed and sequence of scans.
THEOREM MotionIsCountedOnce == OdometrySpec => MotionCountsOnce
<1>1. OdometryInv /\ [OdometryStep]_odometryVars =>
        [LET lost == Behind' - Behind IN
           \/ lost = 0
           \/ core'.reason = "ok" /\ AtMost(lost, Deadband)
           \/ core'.reason = "static_geometry" /\ AtMost(lost, Unseen)
           \/ core'.reason = "static" /\ (core.missed \/ AtMost(lost, Unseen * core.age))
           \/ core'.reason = "rejected" /\ core.rejections = 2
           \/ core'.reason \in {"initializing", "initialized", "reference_reset"}
        ]_odometryVars
  BY StepCounts DEF Counted, Lost, Drift
<1> QED
  BY <1>1, OdometryStaysReferenced, PTL DEF OdometrySpec, MotionCountsOnce

-----------------------------------------------------------------------------
(***************************************************************************)
(* The direction of a turn is that of its words, for any windows, history  *)
(* and delay of the recognition. The tracker forgets samples only when it  *)
(* adds one, and the two facts that survive it are that it keeps nothing   *)
(* it has not read, and everything of the last History.                    *)
(***************************************************************************)
KeepsOnlyRead == tracker.samples \subseteq tracker.read

KeepsTheRecent == \A s \in tracker.read : s.stamp >= moment - History => s \in tracker.samples

DirectionInv == DirectionTypeOK /\ KeepsOnlyRead /\ KeepsTheRecent

Spans == {0, WakeWindow} \cup ShortWords..LongWords

Turns == [at : {"quiet", "speaking", "recognizing", "told"}, from : 0..MaxMoment,
          to : 0..MaxMoment, wake : 0..MaxMoment, end : 0..MaxMoment,
          span : Spans, used : SUBSET Samples]

-----------------------------------------------------------------------------

LEMMA MomentsAreInt == /\ Moments \subseteq 0..MaxMoment /\ Moments \subseteq Int
                       /\ 0 \in 0..MaxMoment /\ 1 \in Moments /\ 0..MaxMoment \subseteq Int
                       /\ Spans \subseteq Nat /\ WakeWindow \in Spans /\ 0 \in Spans
                       /\ History \in Nat
BY DirectionAssumption DEF Moments, Spans

LEMMA NoWordsIsTurn == NoWords \in Turns
BY MomentsAreInt DEF NoWords, Turns

LEMMA UtteranceIsSpan ==
  ASSUME DirectionTypeOK
  PROVE  UtteranceWindow \in Spans
<1>1. words.to \in Int /\ words.from \in Int
  BY DEF DirectionTypeOK
<1>2. words.to - words.from \in Int
  BY <1>1
<1> DEFINE length == words.to - words.from
<1>3. UtteranceWindow = IF length < ShortWords THEN ShortWords
                        ELSE IF length > LongWords THEN LongWords ELSE length
  BY DEF UtteranceWindow
<1> HIDE DEF length
<1>4. UtteranceWindow \in ShortWords..LongWords
  BY <1>2, <1>3, DirectionAssumption DEF length
<1> QED BY <1>4 DEF Spans

\* A window as far back as the history reaches: what is kept of it is what was read.
LEMMA WindowIsKept ==
  ASSUME DirectionInv, NEW end \in 0..MaxMoment, NEW span \in Spans,
         moment - end + span <= History
  PROVE  Usable(end, span) = UsableOf(InWindow(tracker.read, end, span))
<1>1. moment \in Int /\ end \in Int /\ span \in Int /\ History \in Int
  BY MomentsAreInt DEF DirectionInv, DirectionTypeOK
<1>2. ASSUME NEW s \in tracker.read, s.stamp + span >= end
      PROVE  s \in tracker.samples
  <2>1. s.stamp \in Int
    BY <1>2, MomentsAreInt DEF DirectionInv, DirectionTypeOK, Samples
  <2>2. s.stamp >= moment - History
    BY <1>1, <1>2, <2>1
  <2> QED BY <1>2, <2>2 DEF DirectionInv, KeepsTheRecent
<1>3. InWindow(tracker.samples, end, span) = InWindow(tracker.read, end, span)
  BY <1>2 DEF InWindow, DirectionInv, KeepsOnlyRead
<1> QED BY <1>3 DEF Usable

\* What a turn is told.
LEMMA TellsOneWindow ==
  ASSUME DirectionTypeOK, Estimates, words' # NoWords
  PROVE  \E end \in 0..MaxMoment, span \in Spans : Told(end, span)
<1>1. words.wake \in 0..MaxMoment /\ words.to \in 0..MaxMoment
  BY DEF DirectionTypeOK
<1>2. UtteranceWindow \in Spans /\ WakeWindow \in Spans
  BY UtteranceIsSpan, MomentsAreInt
<1>3. Told(words.wake, WakeWindow) \/ Told(words.to, UtteranceWindow)
  BY DEF Estimates
<1> QED BY <1>1, <1>2, <1>3

-----------------------------------------------------------------------------

LEMMA DirectionInitInv == DirectionInit => DirectionInv
<1> SUFFICES ASSUME DirectionInit PROVE DirectionInv
  OBVIOUS
<1>1. words \in Turns
  BY NoWordsIsTurn DEF DirectionInit
<1> QED
  BY <1>1, MomentsAreInt
  DEF DirectionInit, DirectionInv, DirectionTypeOK, KeepsOnlyRead, KeepsTheRecent, Turns, Spans

LEMMA DirectionStepInv == DirectionInv /\ [DirectionStep]_directionVars => DirectionInv'
<1> SUFFICES ASSUME DirectionInv, [DirectionStep]_directionVars
             PROVE  DirectionInv'
  OBVIOUS
<1>0. DirectionTypeOK <=> /\ moment \in Moments
                          /\ angleFile \in Samples \cup {NoAngle}
                          /\ tracker \in [last : 0..MaxMoment, samples : SUBSET Samples,
                                          read : SUBSET Samples]
                          /\ words \in Turns
  BY DEF DirectionTypeOK, Turns, Spans
<1>1. CASE ReadsAngle
  <2>1. PICK usable \in BOOLEAN : angleFile' = [stamp |-> moment, usable |-> usable]
    BY <1>1 DEF ReadsAngle
  <2>2. angleFile' \in Samples
    BY <2>1, <1>0 DEF Samples, DirectionInv
  <2> QED BY <1>1, <2>2
      DEF ReadsAngle, DirectionInv, DirectionTypeOK, KeepsOnlyRead, KeepsTheRecent
<1>2. CASE ReaderRestarts
  BY <1>2 DEF ReaderRestarts, DirectionInv, DirectionTypeOK, KeepsOnlyRead, KeepsTheRecent
<1>3. CASE PollsFile
  <2>1. angleFile \in Samples /\ angleFile.stamp \in 0..MaxMoment
    BY <1>3, <1>0, MomentsAreInt DEF PollsFile, DirectionInv, Samples
  <2>2. tracker' = [last |-> angleFile.stamp,
                    samples |-> {s \in tracker.samples \cup {angleFile} : s.stamp >= Cutoff},
                    read |-> tracker.read \cup {angleFile}]
        /\ moment' = moment
    BY <1>3 DEF PollsFile, SampleAdded
  <2>3. tracker'.samples = {s \in tracker.samples \cup {angleFile} : s.stamp >= Cutoff}
        /\ tracker'.read = tracker.read \cup {angleFile}
    BY <2>2
  <2>4. tracker' \in [last : 0..MaxMoment, samples : SUBSET Samples, read : SUBSET Samples]
    BY <2>1, <2>2, <1>0 DEF DirectionInv
  <2>5. KeepsOnlyRead' /\ KeepsTheRecent'
    BY <2>2, <2>3 DEF Cutoff, DirectionInv, KeepsOnlyRead, KeepsTheRecent
  <2> QED BY <1>3, <2>4, <2>5 DEF PollsFile, DirectionInv, DirectionTypeOK
<1>4. CASE WordsBegin
  <2>1. words' = [NoWords EXCEPT !.at = "speaking", !.from = moment] /\ moment \in 0..MaxMoment
    BY <1>4, MomentsAreInt DEF WordsBegin, DirectionInv, DirectionTypeOK
  <2>2. words' \in Turns
    BY <2>1, NoWordsIsTurn DEF Turns
  <2> QED BY <1>4, <2>2
      DEF WordsBegin, DirectionInv, DirectionTypeOK, KeepsOnlyRead, KeepsTheRecent, Turns, Spans
<1>5. CASE WordsEnd
  <2>1. PICK wake \in words.from..moment :
          words' = [words EXCEPT !.at = "recognizing", !.to = moment, !.wake = wake]
    BY <1>5 DEF WordsEnd
  <2>2. wake \in 0..MaxMoment /\ moment \in 0..MaxMoment
    BY <2>1, DirectionAssumption DEF DirectionInv, DirectionTypeOK, Moments
  <2>3. words' \in Turns
    BY <2>1, <2>2, <1>0 DEF DirectionInv, Turns
  <2> QED BY <1>5, <2>3
      DEF WordsEnd, DirectionInv, DirectionTypeOK, KeepsOnlyRead, KeepsTheRecent, Turns, Spans
<1>6. CASE Estimates
  <2>1. words' \in Turns
    <3>1. CASE words' = NoWords
      BY <3>1, NoWordsIsTurn
    <3>2. CASE words' # NoWords
      <4>1. PICK end \in 0..MaxMoment, span \in Spans : Told(end, span)
        BY <1>6, <3>2, TellsOneWindow DEF DirectionInv
      <4>2. Usable(end, span) \subseteq Samples
        BY <1>0 DEF Usable, UsableOf, InWindow, DirectionInv
      <4>3. words' = [words EXCEPT !.at = "told", !.end = end, !.span = span,
                                   !.used = Usable(end, span)]
        BY <4>1 DEF Told
      <4> QED BY <4>2, <4>3, <1>0 DEF DirectionInv, Turns
    <3> QED BY <3>1, <3>2
  <2> QED BY <1>6, <2>1
      DEF Estimates, DirectionInv, DirectionTypeOK, KeepsOnlyRead, KeepsTheRecent, Turns, Spans
<1>7. CASE MomentPasses
  <2>1. moment' = moment + 1 /\ moment' \in Moments /\ moment \in Int
    BY <1>7, DirectionAssumption DEF MomentPasses, DirectionInv, DirectionTypeOK, Moments
  <2>2. tracker' = tracker /\ \A s \in tracker.read : s.stamp \in Int
    BY <1>7, MomentsAreInt DEF MomentPasses, DirectionInv, DirectionTypeOK, Samples
  <2>3. KeepsTheRecent'
    BY <2>1, <2>2, MomentsAreInt DEF DirectionInv, KeepsTheRecent
  <2> QED BY <1>7, <2>1, <2>3 DEF MomentPasses, DirectionInv, DirectionTypeOK, KeepsOnlyRead
<1>8. CASE UNCHANGED directionVars
  BY <1>8 DEF directionVars, DirectionInv, DirectionTypeOK, KeepsOnlyRead, KeepsTheRecent
<1> QED BY <1>1, <1>2, <1>3, <1>4, <1>5, <1>6, <1>7, <1>8 DEF DirectionStep

LEMMA TrackerStaysComplete == DirectionSpec => []DirectionInv
BY DirectionInitInv, DirectionStepInv, PTL DEF DirectionSpec

-----------------------------------------------------------------------------

OfTheWords ==
  (words.at = "recognizing" /\ words'.at = "told" /\ moment - words'.end + words'.span <= History)
    => words'.used = UsableOf(InWindow(tracker.read, words'.end, words'.span))

LEMMA StepIsOfTheWords == DirectionInv /\ [DirectionStep]_directionVars => OfTheWords
<1> SUFFICES ASSUME DirectionInv, [DirectionStep]_directionVars,
                    words.at = "recognizing", words'.at = "told",
                    moment - words'.end + words'.span <= History
             PROVE  words'.used = UsableOf(InWindow(tracker.read, words'.end, words'.span))
  BY DEF OfTheWords
<1>1. CASE Estimates
  <2>1. words' # NoWords
    BY DEF NoWords
  <2>2. PICK end \in 0..MaxMoment, span \in Spans : Told(end, span)
    BY <1>1, <2>1, TellsOneWindow DEF DirectionInv
  <2>3. words'.end = end /\ words'.span = span /\ words'.used = Usable(end, span)
    BY <2>2 DEF Told, DirectionInv, DirectionTypeOK
  <2> QED BY <2>3, WindowIsKept
<1>2. CASE ~Estimates
  <2>1. words' = words \/ words'.at \in {"speaking", "recognizing"}
    BY <1>2 DEF DirectionStep, directionVars, ReadsAngle, ReaderRestarts, PollsFile, WordsBegin,
                WordsEnd, MomentPasses, NoWords, DirectionInv, DirectionTypeOK
  <2> QED BY <2>1
<1> QED BY <1>1, <1>2

\* The variables of the reader, the tracker and the turn keep their types.
THEOREM DirectionTypeCorrect == DirectionSpec => []DirectionTypeOK
BY TrackerStaysComplete, PTL DEF DirectionInv

\* log_doa_shadow is told the direction of the samples read in the window of its words,
\* all of them and no other, however long the recognition took within the history and
\* however many samples came in since (acoustic_direction.py, voice_chat_demo.py).
THEOREM DirectionStaysOfTheWords == DirectionSpec => DirectionIsOfTheWords
<1>1. DirectionInv /\ [DirectionStep]_directionVars => [OfTheWords]_directionVars
  BY StepIsOfTheWords
<1> QED
  BY <1>1, TrackerStaysComplete, PTL DEF DirectionSpec, DirectionIsOfTheWords, OfTheWords

-----------------------------------------------------------------------------
(***************************************************************************)
(* What the localizer publishes is sound, for any limits and any order of  *)
(* its callbacks. The results it waits for are newer than the one it has   *)
(* localized last, since the detector numbers upward; and the time since   *)
(* which the map was available is not before it was missed.                *)
(***************************************************************************)
\* What waits is newer than what was localized last, which is what was published last.
PendingIsNew ==
  /\ localizer.last = targets.result
  /\ localizer.last <= result.number /\ localizer.pending <= result.number
  /\ localizer.pending # 0 => localizer.last < localizer.pending

SinceIsAfterMiss ==
  /\ targets.missed <= clock
  /\ localizer.since # Never => targets.missed <= localizer.since

LocalizationInv == LocalizationTypeOK /\ PendingIsNew /\ SinceIsAfterMiss

Localizers == [pending : Numbers, last : Numbers, info : Instants, valid : BOOLEAN,
               told : Instants, since : Instants]

Published == [result : Numbers, depth : Instants, valid : BOOLEAN, missed : Instants]

-----------------------------------------------------------------------------

LEMMA InstantsAreNat == /\ Instants \subseteq Nat /\ Numbers \subseteq Nat /\ Never \in Instants
                        /\ 0 \in Numbers /\ 1 \in Instants \ {Never} /\ Settling \in Nat
BY LocalizationAssumption DEF Instants, Numbers, Never

LEMMA NothingPublished == NoTargets \in Published /\ Localizer0 \in Localizers
BY InstantsAreNat DEF NoTargets, Localizer0, Published, Localizers

\* What one localization publishes.
LEMMA LocalizePublishes ==
  ASSUME LocalizationInv, Localize, localizer.pending # 0
  PROVE  /\ localizer' \in Localizers /\ targets' \in Published
         /\ localizer'.pending = 0 /\ localizer'.last = localizer.pending
         /\ localizer'.since = ValidSince
         /\ targets'.result = localizer.pending
         /\ targets'.valid => Settled /\ Within(MaxData, targets'.depth)
         /\ targets'.missed = (IF MapAvailable THEN targets.missed ELSE clock)
<1>1. PICK stamp \in 0..clock :
        targets' = [result |-> localizer.pending, depth |-> stamp,
                    valid |-> (Settled /\ Within(MaxData, stamp)),
                    missed |-> IF MapAvailable THEN targets.missed ELSE clock]
  BY DEF Localize
<1>2. clock \in Instants /\ localizer \in Localizers /\ targets \in Published
  BY DEF LocalizationInv, LocalizationTypeOK, Localizers, Published
<1>3. stamp \in Instants
  BY <1>2, LocalizationAssumption DEF Instants
<1>4. ValidSince \in Instants
  BY <1>2, InstantsAreNat DEF ValidSince, Localizers
<1>5. localizer' \in Localizers /\ localizer'.pending = 0
      /\ localizer'.last = localizer.pending /\ localizer'.since = ValidSince
  BY <1>2, <1>4, InstantsAreNat DEF Localize, Localizers
<1> DEFINE missed == IF MapAvailable THEN targets.missed ELSE clock
           valid == Settled /\ Within(MaxData, stamp)
<1>6. missed \in Instants /\ valid \in BOOLEAN
  BY <1>2 DEF Published
<1>7. targets' = [result |-> localizer.pending, depth |-> stamp, valid |-> valid,
                  missed |-> missed]
  BY <1>1
<1> HIDE DEF missed, valid
<1>8. targets' \in Published /\ targets'.result = localizer.pending /\ targets'.depth = stamp
      /\ targets'.valid = valid /\ targets'.missed = missed
  BY <1>2, <1>3, <1>6, <1>7 DEF Published, Localizers
<1>9. targets'.valid => Settled /\ Within(MaxData, targets'.depth)
  BY <1>8 DEF valid
<1> QED BY <1>5, <1>8, <1>9 DEF missed

\* The map has been available since no sooner than it was missed.
LEMMA ValidSinceIsAfterMiss ==
  ASSUME LocalizationInv, MapAvailable
  PROVE  ValidSince \in Nat /\ targets.missed <= ValidSince
BY InstantsAreNat
DEF ValidSince, LocalizationInv, LocalizationTypeOK, SinceIsAfterMiss

-----------------------------------------------------------------------------

LEMMA LocalizationInitInv == LocalizationInit => LocalizationInv
<1> SUFFICES ASSUME LocalizationInit PROVE LocalizationInv
  OBVIOUS
<1>1. LocalizationTypeOK
  BY InstantsAreNat, NothingPublished
  DEF LocalizationInit, LocalizationTypeOK, Localizers, Published
<1> QED
  BY <1>1
  DEF LocalizationInit, LocalizationInv, PendingIsNew, SinceIsAfterMiss, Localizer0, NoTargets,
      Never

LEMMA LocalizationStepInv == LocalizationInv /\ [LocalizationStep]_localizationVars => LocalizationInv'
<1> SUFFICES ASSUME LocalizationInv, [LocalizationStep]_localizationVars
             PROVE  LocalizationInv'
  OBVIOUS
<1>0. LocalizationTypeOK <=> /\ clock \in Instants \ {Never}
                             /\ result \in [number : Numbers, at : Instants, online : BOOLEAN]
                             /\ localizer \in Localizers
                             /\ transform \in Instants
                             /\ targets \in Published
  BY DEF LocalizationTypeOK, Localizers, Published
<1>1. CASE Detects
  <2>1. PICK online \in BOOLEAN :
          result' = [number |-> result.number + 1, at |-> clock, online |-> online]
    BY <1>1 DEF Detects
  <2>2. result.number \in Nat /\ result'.number = result.number + 1
        /\ result'.number \in Numbers /\ localizer.last \in Nat /\ localizer.pending \in Nat
    BY <1>1, <2>1, <1>0, LocalizationAssumption DEF Detects, LocalizationInv, Numbers, Localizers
  <2>3. LocalizationTypeOK'
    BY <1>1, <2>1, <2>2, <1>0 DEF Detects, LocalizationInv, LocalizationTypeOK
  <2>4. PendingIsNew'
    BY <1>1, <2>2 DEF Detects, LocalizationInv, PendingIsNew
  <2> QED BY <1>1, <2>3, <2>4 DEF Detects, LocalizationInv, SinceIsAfterMiss
<1>2. CASE DetectorRestarts
  BY <1>2 DEF DetectorRestarts, LocalizationInv, LocalizationTypeOK, PendingIsNew, SinceIsAfterMiss
<1>3. CASE OnCameraInfo
  BY <1>3 DEF OnCameraInfo, LocalizationInv, LocalizationTypeOK, PendingIsNew, SinceIsAfterMiss
<1>4. CASE OnGimbalTfStatus
  <2>1. PICK valid \in BOOLEAN : localizer' = [localizer EXCEPT !.valid = valid, !.told = clock]
    BY <1>4 DEF OnGimbalTfStatus
  <2>2. localizer' \in Localizers /\ localizer'.last = localizer.last
        /\ localizer'.pending = localizer.pending /\ localizer'.since = localizer.since
    BY <2>1, <1>0 DEF LocalizationInv, Localizers
  <2> QED BY <1>4, <2>2
      DEF OnGimbalTfStatus, LocalizationInv, LocalizationTypeOK, PendingIsNew, SinceIsAfterMiss,
          Localizers
<1>5. CASE ProcessDetections
  <2>1. localizer' = [localizer EXCEPT !.pending = result.number]
        /\ result.number \notin {localizer.last, localizer.pending}
    BY <1>5 DEF ProcessDetections, Known
  <2>2. localizer' \in Localizers /\ localizer'.last = localizer.last
        /\ localizer'.pending = result.number /\ localizer'.since = localizer.since
    BY <2>1, <1>0 DEF LocalizationInv, Localizers
  <2>3. result.number \in Nat /\ localizer.last \in Nat
    BY <1>0, InstantsAreNat DEF LocalizationInv, Localizers
  <2>4. localizer.last < result.number
    BY <2>1, <2>3 DEF LocalizationInv, PendingIsNew
  <2> QED BY <1>5, <2>2, <2>3, <2>4
      DEF ProcessDetections, LocalizationInv, LocalizationTypeOK, PendingIsNew, SinceIsAfterMiss,
          Localizers
<1>6. CASE OnDepth
  <2>1. CASE Localize
    <3>1. /\ localizer' \in Localizers /\ targets' \in Published
          /\ localizer'.pending = 0 /\ localizer'.last = localizer.pending
          /\ localizer'.since = ValidSince /\ targets'.result = localizer.pending
          /\ targets'.missed = (IF MapAvailable THEN targets.missed ELSE clock)
      BY <1>6, <2>1, LocalizePublishes DEF OnDepth
    <3>2. PendingIsNew'
      BY <1>6, <3>1, <1>0, InstantsAreNat DEF OnDepth, LocalizationInv, PendingIsNew, Localizers
    <3>3. SinceIsAfterMiss'
      <4>1. clock' = clock /\ clock \in Nat
        BY <1>6, InstantsAreNat, <1>0 DEF OnDepth, LocalizationInv
      <4>2. CASE MapAvailable
        BY <3>1, <4>1, <4>2, ValidSinceIsAfterMiss DEF LocalizationInv, SinceIsAfterMiss
      <4>3. CASE ~MapAvailable
        BY <3>1, <4>1, <4>3 DEF ValidSince, SinceIsAfterMiss
      <4> QED BY <4>2, <4>3
    <3> QED BY <1>6, <3>1, <3>2, <3>3
        DEF OnDepth, LocalizationInv, LocalizationTypeOK, Localizers, Published
  <2>2. CASE localizer' = [localizer EXCEPT !.pending = 0] /\ targets' = targets
    <3>1. localizer' \in Localizers /\ localizer'.last = localizer.last
          /\ localizer'.pending = 0 /\ localizer'.since = localizer.since
      BY <2>2, <1>0, InstantsAreNat DEF LocalizationInv, Localizers
    <3>2. result.number \in Nat
      BY <1>0, InstantsAreNat DEF LocalizationInv
    <3> QED BY <1>6, <2>2, <3>1, <3>2
        DEF OnDepth, LocalizationInv, LocalizationTypeOK, PendingIsNew, SinceIsAfterMiss,
            Localizers
  <2> QED BY <1>6, <2>1, <2>2 DEF OnDepth
<1>7. CASE LocalizerRestarts
  <2>1. clock \in Nat /\ result.number \in Nat
    BY <1>0, InstantsAreNat DEF LocalizationInv
  <2>2. LocalizationTypeOK'
    BY <1>7, NothingPublished
    DEF LocalizerRestarts, LocalizationInv, LocalizationTypeOK, Localizers, Published
  <2> QED BY <1>7, <2>1, <2>2
      DEF LocalizerRestarts, LocalizationInv, PendingIsNew, SinceIsAfterMiss, Localizer0,
          NoTargets, Never
<1>8. CASE TransformArrives
  BY <1>8 DEF TransformArrives, LocalizationInv, LocalizationTypeOK, PendingIsNew, SinceIsAfterMiss
<1>9. CASE ClockAdvances
  <2>1. clock' = clock + 1 /\ clock' \in Instants \ {Never} /\ clock \in Nat
        /\ targets.missed \in Nat
    BY <1>9, <1>0, LocalizationAssumption
    DEF ClockAdvances, LocalizationInv, Instants, Never, Published
  <2>2. SinceIsAfterMiss'
    BY <1>9, <2>1 DEF ClockAdvances, LocalizationInv, SinceIsAfterMiss
  <2> QED BY <1>9, <2>1, <2>2 DEF ClockAdvances, LocalizationInv, LocalizationTypeOK, PendingIsNew
<1>10. CASE UNCHANGED localizationVars
  BY <1>10
  DEF localizationVars, LocalizationInv, LocalizationTypeOK, PendingIsNew, SinceIsAfterMiss
<1> QED
  BY <1>1, <1>2, <1>3, <1>4, <1>5, <1>6, <1>7, <1>8, <1>9, <1>10 DEF LocalizationStep

LEMMA LocalizerStaysNew == LocalizationSpec => []LocalizationInv
BY LocalizationInitInv, LocalizationStepInv, PTL DEF LocalizationSpec

-----------------------------------------------------------------------------

PublishesSound == targets' # targets => targets' = NoTargets \/ Sound

LEMMA StepIsSound == LocalizationInv /\ [LocalizationStep]_localizationVars => PublishesSound
<1> SUFFICES ASSUME LocalizationInv, [LocalizationStep]_localizationVars,
                    targets' # targets, targets' # NoTargets
             PROVE  Sound
  BY DEF PublishesSound
<1>1. OnDepth /\ Localize /\ localizer.pending # 0
  BY DEF LocalizationStep, localizationVars, Detects, DetectorRestarts, OnCameraInfo,
         OnGimbalTfStatus, ProcessDetections, OnDepth, LocalizerRestarts, TransformArrives,
         ClockAdvances
<1>2. /\ targets' \in Published
      /\ targets'.result = localizer.pending
      /\ targets'.valid => Settled /\ Within(MaxData, targets'.depth)
      /\ targets'.missed = (IF MapAvailable THEN targets.missed ELSE clock)
  BY <1>1, LocalizePublishes
<1>3. targets'.result > targets.result
  BY <1>1, <1>2, InstantsAreNat
  DEF LocalizationInv, LocalizationTypeOK, PendingIsNew
<1>4. ASSUME targets'.valid
      PROVE  /\ Within(MaxData, targets'.depth) /\ Within(MaxStatus, localizer.told)
             /\ localizer.valid /\ Within(MaxTransform, transform)
             /\ clock - targets'.missed >= Settling
  <2>1. MapAvailable /\ clock - ValidSince >= Settling /\ Within(MaxData, targets'.depth)
    BY <1>2, <1>4 DEF Settled
  <2>2. ValidSince \in Nat /\ targets.missed <= ValidSince /\ targets'.missed = targets.missed
    BY <1>2, <2>1, ValidSinceIsAfterMiss
  <2>3. clock \in Nat /\ targets.missed \in Nat /\ Settling \in Nat
    BY InstantsAreNat DEF LocalizationInv, LocalizationTypeOK
  <2>4. clock - targets'.missed >= Settling
    BY <2>1, <2>2, <2>3
  <2> QED BY <2>1, <2>4 DEF MapAvailable, GimbalReady
<1> QED BY <1>3, <1>4 DEF Sound

\* The variables of detector and localizer keep their types, for any limits.
THEOREM LocalizationTypeCorrect == LocalizationSpec => []LocalizationTypeOK
BY LocalizerStaysNew, PTL DEF LocalizationInv

\* The localizer never publishes one result of the detector twice, and calls places in the
\* map valid only on a recent image, gimbal status and transform, and once the transform
\* has been there for the settling time (target_localizer.py).
THEOREM TargetsStaySound == LocalizationSpec => TargetsAreSound
<1>1. LocalizationInv /\ [LocalizationStep]_localizationVars => [PublishesSound]_localizationVars
  BY StepIsSound
<1> QED
  BY <1>1, LocalizerStaysNew, PTL DEF LocalizationSpec, TargetsAreSound, PublishesSound
=============================================================================
