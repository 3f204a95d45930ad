----------------------------- MODULE StateExports -----------------------------
(***************************************************************************)
(* State handed on through a file: gimbal_tf_state_bridge.py asks the      *)
(* gimbal daemon for its telemetry and writes a JSON file,                 *)
(* gimbal_camera_tf (node.py) in the ROS container reads it and publishes  *)
(* the camera's transform. chassis_state_bridge.py writes the file of the  *)
(* chassis in the same way.                                                *)
(*                                                                         *)
(* A file says whether what it holds is valid, and when it was asked for.  *)
(* Times are ages in ticks that stop at the first value past every limit.  *)
(***************************************************************************)
EXTENDS Integers

CONSTANTS
  MaxFeedback,  \* --maximum-feedback-age-ms
  MaxState,     \* maximum_state_age_s
  Timeout,      \* --timeout of a request
  SequenceCap   \* bound: samples of one run of a bridge

ASSUME ExportAssumption ==
  MaxFeedback \in Nat /\ MaxState \in Nat /\ Timeout \in Nat \ {0} /\ SequenceCap \in Nat \ {0}

VARIABLES
  gimbal,  \* what is true: whether it is faulted, the age of the drives' feedback
  bridge,  \* the request of a bridge: its number, the age of sampled_at, the answer
  file,    \* the state file
  camera   \* gimbal_camera_tf: last_sequence, the age of the last stamp and of its pose

exportVars == <<gimbal, bridge, file, camera>>

Old == MaxFeedback + MaxState + Timeout + 1
Age == 0..Old
NoAnswer == [valid |-> FALSE, pose |-> Old]

ExportTypeOK ==
  /\ gimbal \in [fault : BOOLEAN, age : Age]
  /\ bridge \in [at : {"asleep", "asking", "writing"}, seq : 0..SequenceCap, stamp : Age,
                 answer : [valid : BOOLEAN, pose : Age]]
  /\ file \in [seq : 0..SequenceCap, stamp : Age, valid : BOOLEAN, pose : Age]
  /\ camera \in [seq : 0..SequenceCap, stamp : Age, pose : Age, now : BOOLEAN]

ExportInit ==
  /\ gimbal = [fault |-> FALSE, age |-> Old]
  /\ bridge = [at |-> "asleep", seq |-> 0, stamp |-> Old, answer |-> NoAnswer]
  /\ file = [seq |-> 0, stamp |-> Old, valid |-> FALSE, pose |-> Old]
  /\ camera = [seq |-> 0, stamp |-> Old, pose |-> Old, now |-> FALSE]

-----------------------------------------------------------------------------
(* The bridge *)

\* main, one round: the sample is numbered and stamped before it is asked for.
Sample == [bridge EXCEPT !.at = "asking", !.seq = @ + 1, !.stamp = 0]

AskDaemon == bridge.at = "asleep" /\ bridge.seq < SequenceCap /\ bridge' = Sample
       /\ UNCHANGED <<gimbal, file, camera>>

\* Faulty: the age of the feedback does not count.
StateOfAnyAge == [valid |-> ~gimbal.fault, pose |-> gimbal.age]

\* state_from_response: what the daemon answered, at the moment it did.
StateFromResponse ==
  [valid |-> ~gimbal.fault /\ gimbal.age <= MaxFeedback, pose |-> gimbal.age]

\* request_status returns, or fails; a failure is exported as an invalid state.
Answer ==
  /\ bridge.at = "asking"
  /\ \E a \in {StateFromResponse, NoAnswer} :
       bridge' = [bridge EXCEPT !.at = "writing", !.answer = a]
  /\ UNCHANGED <<gimbal, file, camera>>

\* atomic_write: readers see the old file or the new one.
Write ==
  /\ bridge.at = "writing"
  /\ file' = [seq |-> bridge.seq, stamp |-> bridge.stamp, valid |-> bridge.answer.valid,
              pose |-> bridge.answer.pose]
  /\ bridge' = [bridge EXCEPT !.at = "asleep", !.stamp = Old, !.answer = NoAnswer]
  /\ UNCHANGED <<gimbal, camera>>

\* Killed and started again, the bridge counts from one; the file stays.
BridgeRestarts ==
  /\ bridge' = [at |-> "asleep", seq |-> 0, stamp |-> Old, answer |-> NoAnswer]
  /\ UNCHANGED <<gimbal, file, camera>>

-----------------------------------------------------------------------------
(* gimbal_camera_tf *)

\* state_validity
StateValid == file.stamp <= MaxState /\ file.valid

\* _update: a valid sample it has not published yet is published with its own stamp.
Publishes == StateValid /\ file.seq # camera.seq
OnTimer ==
  /\ camera' = IF Publishes
                 THEN [seq |-> file.seq, stamp |-> file.stamp, pose |-> file.pose, now |-> TRUE]
                 ELSE [camera EXCEPT !.now = FALSE]
  /\ UNCHANGED <<gimbal, bridge, file>>

NodeRestarts ==
  /\ camera' = [camera EXCEPT !.seq = 0, !.now = FALSE]
  /\ UNCHANGED <<gimbal, bridge, file>>

-----------------------------------------------------------------------------
(* The gimbal and time *)

Feedback ==
  /\ gimbal' \in [fault : BOOLEAN, age : {0, gimbal.age}]
  /\ UNCHANGED <<bridge, file, camera>>

Aged(age) == IF age < Old THEN age + 1 ELSE Old

\* A request ends within its timeout.
TimePasses ==
  /\ bridge.at = "asking" => bridge.stamp < Timeout
  /\ gimbal' = [gimbal EXCEPT !.age = Aged(@)]
  /\ bridge' = [bridge EXCEPT !.stamp = Aged(@), !.answer.pose = Aged(@)]
  /\ file' = [file EXCEPT !.stamp = Aged(@), !.pose = Aged(@)]
  /\ camera' = [camera EXCEPT !.stamp = Aged(@), !.pose = Aged(@), !.now = FALSE]

ExportStep ==
  \/ AskDaemon \/ Answer \/ Write \/ BridgeRestarts
  \/ OnTimer \/ NodeRestarts \/ Feedback \/ TimePasses

ExportSpec == ExportInit /\ [][ExportStep]_exportVars

-----------------------------------------------------------------------------
(* Properties *)

\* A transform is never of an older pose than the two limits allow together, whatever
\* the request, the file and the reader add.
PoseIsFresh == camera.now => camera.pose <= MaxState + MaxFeedback
=============================================================================
