------------------------------ MODULE VoiceTurn ------------------------------
(***************************************************************************)
(* The voice assistant (voice_chat_demo.py) as its service runs it: voice  *)
(* detection, wake word, recognition, a reply, speech.  One thread does a  *)
(* turn after the other; beside it run the player of the speech, the       *)
(* capture bridge of the ROS container (camera_capture_bridge.py), which   *)
(* exchanges three files with it, and the expression service of the screen *)
(* (expression_bridge.py).                                                 *)
(*                                                                         *)
(* A turn is a plan of steps chosen from what was said.  Audio is a        *)
(* sequence of blocks that are loud, low (between the two thresholds) or   *)
(* quiet.  The gimbal's own protocol is GimbalVoice.tla.                   *)
(***************************************************************************)
EXTENDS Naturals, Sequences

CONSTANTS
  Trigger,    \* trigger_blocks
  MinVoiced,  \* minimum_voiced_blocks
  Silence,    \* silence_blocks
  MaxBlocks,  \* max_blocks
  PreRoll,    \* length of pre_roll
  Attempts,   \* attempts of record_wav_with_vad_retry
  Tokens      \* request tokens: times in nanoseconds

NoToken == "none"

ASSUME VoiceTurnAssumption ==
  /\ Trigger \in Nat \ {0} /\ MinVoiced \in Nat /\ MinVoiced >= Trigger
  /\ Silence \in Nat \ {0} /\ PreRoll \in Nat /\ PreRoll >= Trigger
  /\ MaxBlocks \in Nat /\ MaxBlocks > PreRoll
  /\ Attempts \in Nat \ {0} /\ NoToken \notin Tokens

VARIABLES
  turn,   \* the steps the turn still has to do, the first one, and the microphone tries
  vad,    \* the counters of record_wav_with_vad
  room,   \* what plays: the network voice, the local one, a player nobody waits for
  face,   \* ExpressionBridge, and the voice's entry at the screen
  photo   \* the files of the capture bridge, its callback, and the request waited for

voiceVars == <<turn, vad, room, face, photo>>

Faces == {"none", "listening", "thinking", "wake", "speaking", "gimbal", "look", "error"}
TurnSteps == {"listen", "kws", "stt", "wake", "speaking", "gimbal", "look", "thinking", "turn",
          "keep", "scan", "photo", "decide", "speak", "idle", "quit", "failed"}

NoSpeech == [started |-> FALSE, candidate |-> 0, voiced |-> 0, silent |-> 0, captured |-> 0,
             ended |-> FALSE]
AnyToken == Tokens \cup {NoToken}
NoPhoto == [token |-> NoToken, waits |-> FALSE, request |-> NoToken, ready |-> NoToken,
            picture |-> NoToken, bridge |-> NoToken, stage |-> "waits", got |-> FALSE]

VoiceTypeOK ==
  /\ turn \in [todo : Seq(TurnSteps), tries : 1..Attempts]
  /\ vad \in [started : BOOLEAN, candidate : 0..Trigger, voiced : 0..MaxBlocks,
              silent : 0..Silence, captured : 0..MaxBlocks, ended : BOOLEAN]
  /\ room \in [voice : {"off", "net", "local"}, left : BOOLEAN, overran : BOOLEAN]
  /\ face \in [cur : Faces \ {"error"}, keep : BOOLEAN, screen : Faces, lost : BOOLEAN]
  /\ photo \in [token : AnyToken, waits : BOOLEAN, request : AnyToken, ready : AnyToken,
                picture : AnyToken, bridge : AnyToken,
                stage : {"waits", "read", "written", "removed"}, got : BOOLEAN]

\* main: the face is cleared by force before the first turn.
VoiceInit ==
  /\ turn = [todo |-> <<"listen">>, tries |-> 1]
  /\ vad = NoSpeech
  /\ room = [voice |-> "off", left |-> FALSE, overran |-> FALSE]
  /\ face = [cur |-> "none", keep |-> FALSE, screen |-> "none", lost |-> FALSE]
  /\ photo = NoPhoto

AtStep(step) == turn.todo # <<>> /\ Head(turn.todo) = step
Doing(steps) == turn' = [turn EXCEPT !.todo = steps]
NextStep == Doing(Tail(turn.todo))

\* run_turn: an exception shows the error and ends the program; otherwise the face
\* goes idle and, after the cooldown, the next turn begins.
Raise == Doing(<<"failed">>)
Return == Doing(<<"idle">>)

-----------------------------------------------------------------------------
(* The face: ExpressionBridge *)

\* _request: answered; refused or not reached; done, but answered after 0.2 s.
FaceRequest(next, shown) ==
  \/ face' = [face EXCEPT !.cur = next, !.screen = shown, !.lost = FALSE]
  \/ face' = face
  \/ face' = [face EXCEPT !.screen = shown, !.lost = TRUE]

\* show: nothing is sent for the state already shown.
FaceShow(state) == IF face.cur = state THEN UNCHANGED face ELSE FaceRequest(state, state)

\* show("error", duration_ms=2000): a timed state is not remembered.
FaceError == FaceRequest("none", "error")

\* idle: a kept result stays; nothing is sent when nothing is known to be shown.
FaceIdle ==
  LET done == [face EXCEPT !.keep = FALSE] IN
    IF face.keep \/ face.cur = "none" THEN face' = done
    ELSE face' \in { [done EXCEPT !.cur = "none", !.screen = "none", !.lost = FALSE], done,
                    [done EXCEPT !.screen = "none", !.lost = TRUE] }

\* keep_current
FaceKeep == face' = [face EXCEPT !.keep = face.cur # "none"]

\* The two seconds of the error are over.
FaceExpires ==
  /\ face.screen = "error"
  /\ face' = [face EXCEPT !.screen = "none"]
  /\ UNCHANGED <<turn, vad, room, photo>>

-----------------------------------------------------------------------------
(* The microphone: record_wav_with_vad *)

Listening == AtStep("listen") /\ ~vad.ended
Capped(n, limit) == IF n < limit THEN n + 1 ELSE n

\* Before speech the last blocks are kept; a run of loud ones starts it.
WaitForSpeech(block) ==
  /\ Listening /\ ~vad.started
  /\ LET run == IF block = "loud" THEN vad.candidate + 1 ELSE 0
         kept == [vad EXCEPT !.candidate = run, !.captured = Capped(@, PreRoll)]
     IN IF run < Trigger THEN vad' = kept /\ UNCHANGED face
        ELSE vad' = [kept EXCEPT !.started = TRUE, !.voiced = run] /\ FaceShow("listening")
  /\ UNCHANGED <<turn, room, photo>>

\* In speech: enough silence ends it, or the length.  A short noise is forgotten.
InSpeech(block) ==
  /\ Listening /\ vad.started
  /\ LET heard == [vad EXCEPT !.captured = @ + 1,
                     !.silent = IF block = "quiet" THEN @ + 1 ELSE 0,
                     !.voiced = IF block = "quiet" THEN @ ELSE @ + 1]
     IN vad' = IF heard.silent >= Silence /\ heard.voiced < MinVoiced THEN NoSpeech
               ELSE [heard EXCEPT !.ended = heard.silent >= Silence \/ heard.captured >= MaxBlocks]
  /\ UNCHANGED <<turn, room, face, photo>>

\* arecord is terminated, or killed, before the file is written.
Recorded ==
  /\ AtStep("listen") /\ vad.ended
  /\ vad' = NoSpeech
  /\ Doing(<<"kws">>)
  /\ UNCHANGED <<room, face, photo>>

\* record_wav_with_vad_retry: a broken recording is tried again, from the start.
MicrophoneBreaks ==
  /\ Listening
  /\ vad' = NoSpeech
  /\ IF turn.tries < Attempts THEN turn' = [turn EXCEPT !.tries = @ + 1] ELSE Raise
  /\ UNCHANGED <<room, face, photo>>

-----------------------------------------------------------------------------
(* What was said: _run_turn *)

\* detect_wake_word_audio_with_timing: without the wake word there is no recognition.
SpotKeyword ==
  /\ AtStep("kws")
  /\ \/ FaceShow("thinking") /\ Doing(<<"stt">>)
     \/ FaceIdle /\ Return
     \/ Raise /\ UNCHANGED face
  /\ UNCHANGED <<vad, room, photo>>

\* A turn towards the speaker, when there is an estimate of the direction.
Toward == {<<>>, <<"turn">>}
\* The face looks only for words that ask to look (should_use_camera).
Looks == {<<>>, <<"look">>}

Reply == <<"speaking", "speak", "idle">>

\* What follows from the text (extract_wake_command, is_surroundings_request,
\* should_use_camera): nothing, the wake word alone, a gimbal command, "look at me",
\* a question about targets, about the surroundings, about the picture, or talk.
PlansFor ==
  { <<"idle">>, <<"quit">>, <<"wake">> \o Reply,
    <<"gimbal", "speak", "keep", "idle">>, <<"gimbal", "speak", "turn", "keep", "idle">>,
    <<"look", "scan", "decide">> \o Reply, <<"scan", "thinking", "decide">> \o Reply }
  \cup { t \o <<"speak", "idle">> : t \in Toward }
  \cup { t \o look \o <<"look">> \o Reply : t \in Toward, look \in Looks }
  \cup { t \o <<"look", "photo", "decide">> \o Reply : t \in Toward }
  \cup { t \o <<"thinking", "decide">> \o Reply : t \in Toward }

\* transcribe_audio, and the plan of the turn.
Transcribe ==
  /\ AtStep("stt")
  /\ (\E p \in PlansFor : Doing(p)) \/ Raise
  /\ UNCHANGED <<vad, room, face, photo>>

ShowStep ==
  /\ \E s \in {"wake", "speaking", "gimbal", "look", "thinking"} : AtStep(s) /\ FaceShow(s)
  /\ NextStep
  /\ UNCHANGED <<vad, room, photo>>

\* execute_look_at_me: blocks, and reports a failure in words.
TurnToSpeaker == AtStep("turn") /\ NextStep /\ UNCHANGED <<vad, room, face, photo>>

KeepStep == AtStep("keep") /\ FaceKeep /\ NextStep /\ UNCHANGED <<vad, room, photo>>

\* QwenChatPolicy.decide_from_user: reading the picture may raise.
Decide ==
  /\ AtStep("decide")
  /\ NextStep \/ Raise
  /\ UNCHANGED <<vad, room, face, photo>>

\* run_turn's finally; then the next turn, or the end of the program.
EndTurn ==
  /\ AtStep("idle") \/ AtStep("quit")
  /\ FaceIdle
  /\ turn' = [todo |-> IF AtStep("idle") THEN <<"listen">> ELSE <<>>, tries |-> 1]
  /\ photo' = [photo EXCEPT !.got = FALSE]
  /\ UNCHANGED <<vad, room>>

FailTurn ==
  /\ AtStep("failed")
  /\ FaceError /\ Doing(<<>>)
  /\ UNCHANGED <<vad, room, photo>>

\* systemd starts the program again.  Its players are gone, the files are not; the
\* face is cleared by force, which may fail as well.
Restart ==
  /\ turn.todo = <<>>
  /\ turn' = [todo |-> <<"listen">>, tries |-> 1]
  /\ room' = [voice |-> "off", left |-> FALSE, overran |-> FALSE]
  /\ face' \in { [cur |-> "none", keep |-> FALSE, screen |-> "none", lost |-> FALSE],
                 [cur |-> "none", keep |-> FALSE, screen |-> face.screen,
                  lost |-> face.screen # "none"] }
  /\ photo' = [photo EXCEPT !.got = FALSE]
  /\ UNCHANGED vad

-----------------------------------------------------------------------------
(* Speech: speak *)

\* stream_edge_tts starts a player.
Speak ==
  /\ AtStep("speak") /\ room.voice = "off"
  /\ room' = [room EXCEPT !.voice = "net"]
  /\ UNCHANGED <<turn, vad, face, photo>>

\* Faulty: the turn goes on as soon as the last chunk is written.
NotWaitedFor == room' = [room EXCEPT !.voice = "off", !.left = TRUE] /\ NextStep

\* The player is waited for.
Played == room' = [room EXCEPT !.voice = "off"] /\ NextStep

SpeechEnds ==
  /\ AtStep("speak") /\ room.voice = "net"
  /\ \/ Played
     \/ room' = [room EXCEPT !.voice = "local"] /\ UNCHANGED turn   \* the network failed
  /\ UNCHANGED <<vad, face, photo>>

\* After 30 seconds nobody waits for the player any more: it counts as failed, plays
\* on, and the local voice says the same.
SpeechOverruns ==
  /\ AtStep("speak") /\ room.voice = "net"
  /\ room' = [voice |-> "local", left |-> TRUE, overran |-> TRUE]
  /\ UNCHANGED <<turn, vad, face, photo>>

\* speak_with_pyttsx3, espeak-ng, or neither.
LocalSpeechEnds ==
  /\ AtStep("speak") /\ room.voice = "local"
  /\ room' = [room EXCEPT !.voice = "off"]
  /\ NextStep
  /\ UNCHANGED <<vad, face, photo>>

LeftPlayerEnds ==
  /\ room.left
  /\ room' = [room EXCEPT !.left = FALSE, !.overran = FALSE]
  /\ UNCHANGED <<turn, vad, face, photo>>

-----------------------------------------------------------------------------
(* Pictures: request_camera_image and camera_capture_bridge.py *)

\* The old answer is removed before the request is written.  Its token is a time, so
\* never one that is still around.
RequestPhoto ==
  /\ AtStep("photo") \/ AtStep("scan")
  /\ ~photo.waits
  /\ \E t \in Tokens \ {photo.token, photo.bridge, photo.picture} :
       photo' = [photo EXCEPT !.token = t, !.request = t, !.ready = NoToken,
                              !.waits = TRUE, !.got = FALSE]
  /\ UNCHANGED <<turn, vad, room, face>>

\* Faulty: whatever answer is there will do.
AnyAnswer == photo.ready # NoToken

OwnAnswer == photo.ready = photo.token

\* The question is answered with the picture; a scan goes on to its next view, or
\* puts its views together.
PhotoArrives ==
  /\ photo.waits /\ OwnAnswer
  /\ photo' = [photo EXCEPT !.waits = FALSE, !.got = TRUE]
  /\ NextStep \/ (AtStep("scan") /\ UNCHANGED turn)
  /\ UNCHANGED <<vad, room, face>>

\* After six seconds: the question is answered without a picture, the scan goes on
\* without the view, or it has none and ends in a reply of its own.
PhotoTimesOut ==
  /\ photo.waits
  /\ photo' = [photo EXCEPT !.waits = FALSE]
  /\ NextStep \/ (AtStep("scan") /\ (UNCHANGED turn \/ Doing(<<"speak", "idle">>)))
  /\ UNCHANGED <<vad, room, face>>

Bridge == UNCHANGED <<turn, vad, room, face>>

\* process_request, in the order of its calls.  It writes the newest frame it has.
BridgeReads ==
  /\ photo.stage = "waits" /\ photo.request # NoToken
  /\ photo' = [photo EXCEPT !.bridge = photo.request, !.stage = "read"]
  /\ Bridge

BridgeWrites ==
  /\ photo.stage = "read"
  /\ photo' = [photo EXCEPT !.picture = photo.bridge, !.stage = "written"]
  /\ Bridge

\* Whosever request the file holds by now, it is removed.
BridgeRemoves ==
  /\ photo.stage = "written"
  /\ photo' = [photo EXCEPT !.request = NoToken, !.stage = "removed"]
  /\ Bridge

BridgeAnswers ==
  /\ photo.stage = "removed"
  /\ photo' = [photo EXCEPT !.ready = photo.bridge, !.bridge = NoToken, !.stage = "waits"]
  /\ Bridge

\* A frame that is not rgb8.
BridgeRefuses ==
  /\ photo.stage = "read"
  /\ photo' = [photo EXCEPT !.request = NoToken, !.bridge = NoToken, !.stage = "waits"]
  /\ Bridge

-----------------------------------------------------------------------------

Blocks == {"loud", "low", "quiet"}

VoiceStep ==
  \/ \E b \in Blocks : WaitForSpeech(b)
  \/ \E b \in Blocks : InSpeech(b)
  \/ Recorded \/ MicrophoneBreaks \/ SpotKeyword \/ Transcribe
  \/ ShowStep \/ TurnToSpeaker \/ KeepStep \/ Decide \/ EndTurn \/ FailTurn \/ Restart
  \/ Speak \/ SpeechEnds \/ SpeechOverruns \/ LocalSpeechEnds \/ LeftPlayerEnds
  \/ RequestPhoto \/ PhotoArrives \/ PhotoTimesOut
  \/ BridgeReads \/ BridgeWrites \/ BridgeRemoves \/ BridgeAnswers \/ BridgeRefuses
  \/ FaceExpires

VoiceSpec == VoiceInit /\ [][VoiceStep]_voiceVars

-----------------------------------------------------------------------------
(* Properties *)

\* The microphone is never open while the assistant speaks, except over a player that
\* ran for more than the 30 seconds it is waited for.
HearsNoPlayback == AtStep("listen") => room.voice = "off" /\ (room.left => room.overran)

\* The picture a question is answered with was written for that question's request.
PhotoIsOfThisRequest == photo.got => photo.picture = photo.token
=============================================================================
