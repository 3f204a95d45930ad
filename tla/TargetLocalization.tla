-------------------------- MODULE TargetLocalization --------------------------
(***************************************************************************)
(* The detector (yolo-detector.py) and the localizer                       *)
(* (target_localizer.py). The detector runs its network over the viewer's  *)
(* newest frame, again and again, and keeps its last result. The localizer *)
(* is one thread of ROS callbacks: it polls that result, waits for one     *)
(* depth image, and publishes where the things found are in the map, which *)
(* is what SemanticMap ingests.                                            *)
(*                                                                         *)
(* Images, boxes and places are left out. A result is known by its number, *)
(* which stands for its updated_at. Times are those of one clock, and zero *)
(* is never.                                                               *)
(***************************************************************************)
EXTENDS Naturals

CONSTANTS
  MaxResult,     \* the age at which the detector calls its result stale
  MaxInfo,       \* the age of the camera's calibration localize accepts
  MaxStatus,     \* maximum_tf_status_age_s
  MaxTransform,  \* maximum_transform_age_s
  MaxData,       \* maximum_data_age_s
  Settling,      \* minimum_map_tf_stable_s
  MaxResults,    \* bound: results of the detector
  MaxClock       \* bound: the last instant

ASSUME LocalizationAssumption ==
  /\ MaxResult \in Nat /\ MaxInfo \in Nat /\ MaxStatus \in Nat /\ MaxTransform \in Nat
  /\ MaxData \in Nat /\ Settling \in Nat /\ MaxResults \in Nat /\ MaxClock \in Nat \ {0}

VARIABLES
  clock,
  result,     \* Detector.result: its number, when it was made, and whether it is one
  localizer,  \* pending_detection, last_detection_update, when the calibration came, the
              \* gimbal's status and when it came, and map_tf_valid_since
  transform,  \* the stamp of the newest transform from the camera to the map
  targets     \* what this process published last: the result, the stamp of the depth
              \* image, whether the places in the map are said to be valid; and when it
              \* last found no transform to the map

localizationVars == <<clock, result, localizer, transform, targets>>

Never == 0
Instants == 0..MaxClock
Numbers == 0..MaxResults
NoTargets == [result |-> 0, depth |-> Never, valid |-> FALSE, missed |-> Never]
Localizer0 == [pending |-> 0, last |-> 0, info |-> Never, valid |-> FALSE, told |-> Never,
               since |-> Never]

LocalizationTypeOK ==
  /\ clock \in Instants \ {Never}
  /\ result \in [number : Numbers, at : Instants, online : BOOLEAN]
  /\ localizer \in [pending : Numbers, last : Numbers, info : Instants, valid : BOOLEAN,
                    told : Instants, since : Instants]
  /\ transform \in Instants
  /\ targets \in [result : Numbers, depth : Instants, valid : BOOLEAN, missed : Instants]

LocalizationInit ==
  /\ clock = 1
  /\ result = [number |-> 0, at |-> Never, online |-> FALSE]
  /\ localizer = Localizer0
  /\ transform = Never
  /\ targets = NoTargets

Within(age, stamp) == stamp # Never /\ clock - stamp <= age

-----------------------------------------------------------------------------
(* The detector *)

\* run_forever: run_once fetches a frame and replaces the result; when anything in it
\* fails, the result says so.
Detects ==
  /\ result.number < MaxResults
  /\ \E online \in BOOLEAN :
       result' = [number |-> result.number + 1, at |-> clock, online |-> online]
  /\ UNCHANGED <<clock, localizer, transform, targets>>

\* snapshot: a result that is too old is not given away as one.
Online == result.online /\ Within(MaxResult, result.at)

DetectorRestarts ==
  /\ result' = [result EXCEPT !.online = FALSE]
  /\ UNCHANGED <<clock, localizer, transform, targets>>

-----------------------------------------------------------------------------
(* The localizer *)

OnCameraInfo ==
  /\ localizer' = [localizer EXCEPT !.info = clock]
  /\ UNCHANGED <<clock, result, transform, targets>>

OnGimbalTfStatus ==
  /\ \E valid \in BOOLEAN : localizer' = [localizer EXCEPT !.valid = valid, !.told = clock]
  /\ UNCHANGED <<clock, result, transform, targets>>

\* Faulty: the result localized last is forgotten.
Waiting == result.number = localizer.pending

\* Is the result the one localized last, or the one that waits for its depth image?
Known == result.number \in {localizer.last, localizer.pending}

\* process_detections: a new result takes the place of one that still waits. While one
\* waits, and only then, the depth images are subscribed to.
ProcessDetections ==
  /\ Online /\ ~Known
  /\ localizer' = [localizer EXCEPT !.pending = result.number]
  /\ UNCHANGED <<clock, result, transform, targets>>

\* gimbal_tf_ready
GimbalReady == localizer.valid /\ Within(MaxStatus, localizer.told)

\* lookup_transforms and transform_is_fresh, for the map
MapAvailable == GimbalReady /\ Within(MaxTransform, transform)

\* map_tf_valid_since
ValidSince ==
  IF ~MapAvailable THEN Never
  ELSE IF localizer.since = Never THEN clock ELSE localizer.since

\* map_position_valid, but for the age of the image
Settled == MapAvailable /\ clock - ValidSince >= Settling

Localize ==
  /\ Within(MaxInfo, localizer.info)
  /\ localizer' = [localizer EXCEPT !.pending = 0, !.last = localizer.pending, !.since = ValidSince]
  /\ \E stamp \in 0..clock :
       targets' = [result |-> localizer.pending, depth |-> stamp,
                   valid |-> Settled /\ Within(MaxData, stamp),
                   missed |-> IF MapAvailable THEN targets.missed ELSE clock]

\* on_depth, for an image that may have been under way for a while: without a calibration
\* that can be used the result is dropped, and asked for again by the next poll.
OnDepth ==
  /\ localizer.pending # 0
  /\ Localize \/ (localizer' = [localizer EXCEPT !.pending = 0] /\ UNCHANGED targets)
  /\ UNCHANGED <<clock, result, transform>>

LocalizerRestarts ==
  /\ localizer' = Localizer0 /\ targets' = NoTargets
  /\ UNCHANGED <<clock, result, transform>>

-----------------------------------------------------------------------------
(* The other nodes and time *)

TransformArrives ==
  /\ transform' = clock
  /\ UNCHANGED <<clock, result, localizer, targets>>

ClockAdvances ==
  /\ clock < MaxClock /\ clock' = clock + 1
  /\ UNCHANGED <<result, localizer, transform, targets>>

LocalizationStep ==
  \/ Detects \/ DetectorRestarts
  \/ OnCameraInfo \/ OnGimbalTfStatus \/ ProcessDetections \/ OnDepth \/ LocalizerRestarts
  \/ TransformArrives \/ ClockAdvances

LocalizationSpec == LocalizationInit /\ [][LocalizationStep]_localizationVars

-----------------------------------------------------------------------------
(* Properties *)

\* What is published is of a result this process has not published before, so that no
\* single sighting confirms a landmark twice; and places in the map are called valid only
\* with a recent depth image, a gimbal known to be where its status says, a recent
\* transform, and no localization within the settling time that found none
\* (target_localizer.py:302-388).
Sound ==
  /\ targets'.result > targets.result
  /\ targets'.valid =>
       /\ Within(MaxData, targets'.depth) /\ Within(MaxStatus, localizer.told)
       /\ localizer.valid /\ Within(MaxTransform, transform)
       /\ targets'.missed = Never \/ clock - targets'.missed >= Settling
TargetsAreSound == [][targets' # targets => targets' = NoTargets \/ Sound]_localizationVars
=============================================================================
