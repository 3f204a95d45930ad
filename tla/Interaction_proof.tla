------------------------- MODULE Interaction_proof --------------------------
(***************************************************************************)
(* Proofs about the programs people meet: a turn of the voice assistant,   *)
(* the chat page with the agent and the tasks it starts, and the           *)
(* controller of the touch screen.  They share no state, and each proof    *)
(* stands on its own.                                                      *)
(***************************************************************************)
EXTENDS VoiceTurn, ChatControl, ScreenController, SequenceTheorems, FiniteSetTheorems, TLAPS

-----------------------------------------------------------------------------
(* A spoken turn: VoiceTurn *)

(***************************************************************************)
(* The microphone hears nothing of the assistant because a voice plays in  *)
(* its own step only (InItsStep).  An answer is of the request that waits  *)
(* for it because the bridge handles one request at a time and the token   *)
(* of a request is new: whatever the bridge still has in hand then bears   *)
(* another token, and once the request itself is answered there is nothing *)
(* left that could write over its picture (AnswerIsWithItsPicture).        *)
(***************************************************************************)
SpeechIsBounded ==
  /\ ~vad.started => vad.candidate < Trigger /\ vad.candidate <= vad.captured
                     /\ vad.captured <= PreRoll /\ vad.silent = 0
  /\ vad.started /\ ~vad.ended => vad.captured < MaxBlocks /\ vad.silent < Silence
  /\ vad.started => vad.voiced <= vad.captured

InItsStep ==
  /\ room.voice # "off" => AtStep("speak")
  /\ room.left => room.overran
  /\ photo.waits => AtStep("photo") \/ AtStep("scan")

AnswerIsWithItsPicture ==
  /\ photo.request \in {NoToken, photo.token}
  /\ photo.waits => photo.token # NoToken
  /\ photo.stage = "waits" <=> photo.bridge = NoToken
  /\ photo.stage \in {"written", "removed"} => photo.picture = photo.bridge
  /\ photo.stage = "removed" /\ photo.bridge = photo.token => photo.request = NoToken
  /\ photo.ready # NoToken /\ photo.ready = photo.token =>
       photo.request = NoToken /\ photo.stage = "waits" /\ photo.picture = photo.token
  /\ photo.got => photo.ready # NoToken /\ photo.ready = photo.token

VoiceTurnInv == VoiceTypeOK /\ SpeechIsBounded /\ InItsStep /\ AnswerIsWithItsPicture

LEMMA NothingIsHeard == VoiceTurnInv => HearsNoPlayback
BY DEF VoiceTurnInv, InItsStep, HearsNoPlayback, AtStep

LEMMA PicturesFit == VoiceTurnInv => PhotoIsOfThisRequest
BY DEF VoiceTurnInv, AnswerIsWithItsPicture, PhotoIsOfThisRequest

-----------------------------------------------------------------------------
(* The parts of the state *)

Turns == [todo : Seq(TurnSteps), tries : 1..Attempts]
Speeches == [started : BOOLEAN, candidate : 0..Trigger, voiced : 0..MaxBlocks,
             silent : 0..Silence, captured : 0..MaxBlocks, ended : BOOLEAN]
Rooms == [voice : {"off", "net", "local"}, left : BOOLEAN, overran : BOOLEAN]
PictureShown == [cur : Faces \ {"error"}, keep : BOOLEAN, screen : Faces, lost : BOOLEAN]
Photos == [token : AnyToken, waits : BOOLEAN, request : AnyToken, ready : AnyToken,
           picture : AnyToken, bridge : AnyToken,
           stage : {"waits", "read", "written", "removed"}, got : BOOLEAN]

LEMMA VoiceTypes ==
  VoiceTypeOK <=> /\ turn \in Turns /\ vad \in Speeches /\ room \in Rooms
                  /\ face \in PictureShown /\ photo \in Photos
BY DEF VoiceTypeOK, Turns, Speeches, Rooms, PictureShown, Photos

LEMMA NoSpeechIsBounded ==
  /\ NoSpeech \in Speeches /\ ~NoSpeech.started
  /\ NoSpeech.candidate = 0 /\ NoSpeech.captured = 0 /\ NoSpeech.silent = 0
<1> DEFINE no == FALSE
<1>1. NoSpeech = [started |-> no, candidate |-> 0, voiced |-> 0, silent |-> 0, captured |-> 0,
                  ended |-> no] /\ no \in BOOLEAN /\ ~no
  BY DEF NoSpeech
<1> HIDE DEF no
<1>2. 0 \in 0..Trigger /\ 0 \in 0..MaxBlocks /\ 0 \in 0..Silence
  BY VoiceTurnAssumption
<1> QED  BY <1>1, <1>2 DEF Speeches

\* The step that is done is the first one, and the rest follows.
LEMMA StepsFollow ==
  ASSUME turn \in Turns, NEW step, AtStep(step)
  PROVE  Tail(turn.todo) \in Seq(TurnSteps)
BY DEF Turns, AtStep

LEMMA PlanGoesOn ==
  ASSUME turn \in Turns, NEW steps \in Seq(TurnSteps), Doing(steps)
  PROVE  turn' \in Turns /\ turn'.todo = steps
BY DEF Turns, Doing

LEMMA ShortPlans ==
  /\ <<"listen">> \in Seq(TurnSteps) /\ <<"kws">> \in Seq(TurnSteps) /\ <<"stt">> \in Seq(TurnSteps)
  /\ <<"failed">> \in Seq(TurnSteps) /\ <<"idle">> \in Seq(TurnSteps) /\ <<>> \in Seq(TurnSteps)
  /\ <<"speak", "idle">> \in Seq(TurnSteps)
BY DEF TurnSteps

LEMMA PlansAreSteps == PlansFor \subseteq Seq(TurnSteps)
<1>1. Reply \in Seq(TurnSteps) /\ <<"speak", "idle">> \in Seq(TurnSteps)
  BY DEF Reply, TurnSteps
<1>2. /\ <<"idle">> \in Seq(TurnSteps) /\ <<"quit">> \in Seq(TurnSteps) /\ <<"wake">> \in Seq(TurnSteps)
      /\ <<"gimbal", "speak", "keep", "idle">> \in Seq(TurnSteps)
      /\ <<"gimbal", "speak", "turn", "keep", "idle">> \in Seq(TurnSteps)
  BY DEF TurnSteps
<1>3. /\ <<"look", "scan", "decide">> \in Seq(TurnSteps)
      /\ <<"scan", "thinking", "decide">> \in Seq(TurnSteps)
      /\ <<"look", "photo", "decide">> \in Seq(TurnSteps)
      /\ <<"thinking", "decide">> \in Seq(TurnSteps) /\ <<"look">> \in Seq(TurnSteps)
      /\ <<"turn">> \in Seq(TurnSteps) /\ <<>> \in Seq(TurnSteps)
  BY DEF TurnSteps
<1>4. Toward \subseteq Seq(TurnSteps) /\ Looks \subseteq Seq(TurnSteps)
  BY <1>3 DEF Toward, Looks
<1>5. \A a, b \in Seq(TurnSteps) : a \o b \in Seq(TurnSteps)
  BY ConcatProperties
<1> DEFINE fixed == { <<"idle">>, <<"quit">>, <<"wake">> \o Reply,
    <<"gimbal", "speak", "keep", "idle">>, <<"gimbal", "speak", "turn", "keep", "idle">>,
    <<"look", "scan", "decide">> \o Reply, <<"scan", "thinking", "decide">> \o Reply }
<1> DEFINE turns == { t \o <<"speak", "idle">> : t \in Toward }
<1> DEFINE looks == { t \o look \o <<"look">> \o Reply : t \in Toward, look \in Looks }
<1> DEFINE pictures == { t \o <<"look", "photo", "decide">> \o Reply : t \in Toward }
<1> DEFINE talks == { t \o <<"thinking", "decide">> \o Reply : t \in Toward }
<1>11. PlansFor = fixed \cup turns \cup looks \cup pictures \cup talks
  BY DEF PlansFor
<1> SUFFICES ASSUME NEW p \in PlansFor PROVE p \in Seq(TurnSteps)
  OBVIOUS
<1>6. CASE p \in fixed
  <2>1. <<"wake">> \o Reply \in Seq(TurnSteps) /\ <<"look", "scan", "decide">> \o Reply \in Seq(TurnSteps)
        /\ <<"scan", "thinking", "decide">> \o Reply \in Seq(TurnSteps)
    BY <1>1, <1>2, <1>3, <1>5
  <2> QED  BY <1>2, <1>6, <2>1
<1>7. CASE p \in turns
  <2>1. PICK t \in Toward : p = t \o <<"speak", "idle">>
    BY <1>7
  <2> QED  BY <2>1, <1>1, <1>4, <1>5
<1>8. CASE p \in looks
  <2>1. PICK t \in Toward, look \in Looks : p = t \o look \o <<"look">> \o Reply
    BY <1>8
  <2>2. t \o look \in Seq(TurnSteps)
    BY <1>4, <1>5
  <2>3. (t \o look) \o <<"look">> \in Seq(TurnSteps)
    BY <2>2, <1>3, <1>5
  <2> QED  BY <2>1, <2>3, <1>1, <1>5
<1>9. CASE p \in pictures
  <2>1. PICK t \in Toward : p = t \o <<"look", "photo", "decide">> \o Reply
    BY <1>9
  <2>2. t \o <<"look", "photo", "decide">> \in Seq(TurnSteps)
    BY <1>3, <1>4, <1>5
  <2> QED  BY <2>1, <2>2, <1>1, <1>5
<1>10. CASE p \in talks
  <2>1. PICK t \in Toward : p = t \o <<"thinking", "decide">> \o Reply
    BY <1>10
  <2>2. t \o <<"thinking", "decide">> \in Seq(TurnSteps)
    BY <1>3, <1>4, <1>5
  <2> QED  BY <2>1, <2>2, <1>1, <1>5
<1> HIDE DEF fixed, turns, looks, pictures, talks
<1> QED  BY <1>6, <1>7, <1>8, <1>9, <1>10, <1>11

-----------------------------------------------------------------------------
(* The face *)

LEMMA FaceMoves ==
  ASSUME face \in PictureShown, NEW next \in Faces \ {"error"}, NEW shown \in Faces,
         FaceRequest(next, shown)
  PROVE  face' \in PictureShown
<1> DEFINE no == FALSE
<1> DEFINE yes == TRUE
<1>1. \/ face' = [face EXCEPT !.cur = next, !.screen = shown, !.lost = no]
      \/ face' = face
      \/ face' = [face EXCEPT !.screen = shown, !.lost = yes]
  BY DEF FaceRequest
<1>2. no \in BOOLEAN /\ yes \in BOOLEAN
  OBVIOUS
<1> HIDE DEF no, yes
<1> QED  BY <1>1, <1>2 DEF PictureShown

LEMMA FaceShows ==
  ASSUME face \in PictureShown, NEW state \in Faces \ {"error"}, FaceShow(state)
  PROVE  face' \in PictureShown
<1>1. face' = face \/ FaceRequest(state, state)
  BY DEF FaceShow
<1> QED  BY <1>1, FaceMoves

LEMMA FaceGoesIdle ==
  ASSUME face \in PictureShown, FaceIdle
  PROVE  face' \in PictureShown
<1> DEFINE no == FALSE
<1> DEFINE yes == TRUE
<1> DEFINE done == [face EXCEPT !.keep = no]
<1>1. face' \in {done, [done EXCEPT !.cur = "none", !.screen = "none", !.lost = no],
                 [done EXCEPT !.screen = "none", !.lost = yes]}
  BY DEF FaceIdle
<1>2. no \in BOOLEAN /\ yes \in BOOLEAN /\ "none" \in Faces \ {"error"}
  BY DEF Faces
<1> HIDE DEF no, yes
<1>3. done \in PictureShown
  BY <1>2 DEF PictureShown
<1> HIDE DEF done
<1> QED  BY <1>1, <1>2, <1>3 DEF PictureShown

LEMMA FaceKeeps ==
  ASSUME face \in PictureShown, FaceKeep
  PROVE  face' \in PictureShown
<1> DEFINE kept == face.cur # "none"
<1>1. kept \in BOOLEAN /\ face' = [face EXCEPT !.keep = kept]
  BY DEF FaceKeep
<1> HIDE DEF kept
<1> QED  BY <1>1 DEF PictureShown

-----------------------------------------------------------------------------
(* Steps that leave the files alone *)

\* The files keep, or the turn only forgets that it has a picture.
LEMMA PhotoRests ==
  ASSUME photo \in Photos, AnswerIsWithItsPicture,
         UNCHANGED photo \/ photo' = [photo EXCEPT !.got = FALSE]
  PROVE  photo' \in Photos /\ AnswerIsWithItsPicture' /\ photo'.waits = photo.waits
<1>1. CASE UNCHANGED photo
  BY <1>1 DEF AnswerIsWithItsPicture
<1>2. CASE photo' = [photo EXCEPT !.got = FALSE]
  <2> DEFINE no == FALSE
  <2>1. photo' = [photo EXCEPT !.got = no] /\ no \in BOOLEAN /\ ~no
    BY <1>2
  <2> HIDE DEF no
  <2>2. /\ photo' \in Photos /\ ~photo'.got /\ photo'.token = photo.token
        /\ photo'.waits = photo.waits /\ photo'.request = photo.request
        /\ photo'.ready = photo.ready /\ photo'.picture = photo.picture
        /\ photo'.bridge = photo.bridge /\ photo'.stage = photo.stage
    BY <2>1 DEF Photos
  <2> QED  BY <2>2 DEF AnswerIsWithItsPicture
<1> QED  BY <1>1, <1>2

\* A step of the turn outside of speech.
LEMMA SilentStep ==
  ASSUME VoiceTurnInv, NEW step, AtStep(step), step \notin {"speak", "photo", "scan"}, UNCHANGED room,
         turn' \in Turns, face' \in PictureShown, vad' \in Speeches, SpeechIsBounded',
         UNCHANGED photo \/ photo' = [photo EXCEPT !.got = FALSE]
  PROVE  VoiceTurnInv'
<1>1. room.voice = "off" /\ (room.left => room.overran) /\ ~photo.waits
  BY DEF VoiceTurnInv, InItsStep, AtStep
<1>3. photo' \in Photos /\ AnswerIsWithItsPicture' /\ photo'.waits = photo.waits
  BY PhotoRests, VoiceTypes DEF VoiceTurnInv
<1>2. InItsStep'
  BY <1>1, <1>3 DEF InItsStep
<1>4. room' \in Rooms
  BY VoiceTypes DEF VoiceTurnInv
<1>5. VoiceTypeOK'
  BY <1>3, <1>4 DEF VoiceTypeOK, Turns, Speeches, Rooms, PictureShown, Photos
<1> QED  BY <1>2, <1>3, <1>5 DEF VoiceTurnInv

\* The counters of the microphone rest.
LEMMA SilentTurn ==
  ASSUME VoiceTurnInv, NEW step, AtStep(step), step \notin {"speak", "photo", "scan"}, UNCHANGED <<room, vad>>,
         turn' \in Turns, face' \in PictureShown,
         UNCHANGED photo \/ photo' = [photo EXCEPT !.got = FALSE]
  PROVE  VoiceTurnInv'
<1>1. vad' \in Speeches /\ SpeechIsBounded'
  BY VoiceTypes DEF VoiceTurnInv, SpeechIsBounded
<1> QED  BY <1>1, SilentStep

LEMMA VoiceParts ==
  ASSUME VoiceTurnInv
  PROVE  /\ turn \in Turns /\ vad \in Speeches /\ room \in Rooms /\ face \in PictureShown
         /\ photo \in Photos /\ SpeechIsBounded /\ InItsStep /\ AnswerIsWithItsPicture
         /\ turn.todo \in Seq(TurnSteps)
BY VoiceTypes DEF VoiceTurnInv, Turns

-----------------------------------------------------------------------------
(* The microphone *)

\* A speech that has not begun.
LEMMA NoSpeechFits ==
  ASSUME vad' = NoSpeech
  PROVE  vad' \in Speeches /\ SpeechIsBounded'
BY NoSpeechIsBounded, VoiceTurnAssumption DEF SpeechIsBounded

LEMMA WaitsForSpeech ==
  ASSUME VoiceTurnInv, NEW block, WaitForSpeech(block)
  PROVE  VoiceTurnInv'
<1> DEFINE run == IF block = "loud" THEN vad.candidate + 1 ELSE 0
<1> DEFINE length == Capped(vad.captured, PreRoll)
<1> DEFINE kept == [vad EXCEPT !.candidate = run, !.captured = length]
<1> DEFINE yes == TRUE
<1>1. AtStep("listen") /\ ~vad.started /\ UNCHANGED <<turn, room, photo>>
  BY DEF WaitForSpeech, Listening
<1>2. \/ run < Trigger /\ vad' = kept /\ UNCHANGED face
      \/ ~(run < Trigger) /\ vad' = [kept EXCEPT !.started = yes, !.voiced = run]
         /\ FaceShow("listening")
  BY DEF WaitForSpeech
<1>3. vad.candidate \in Nat /\ vad.candidate < Trigger /\ vad.candidate <= vad.captured
      /\ vad.captured \in Nat /\ vad.captured <= PreRoll /\ vad \in Speeches /\ vad.silent = 0
  BY <1>1, VoiceParts DEF SpeechIsBounded, Speeches
<1>4. run \in 0..Trigger /\ length \in Nat /\ length <= PreRoll /\ run <= length
      /\ length \in 0..MaxBlocks /\ length < MaxBlocks /\ run \in 0..MaxBlocks
  BY <1>3, VoiceTurnAssumption DEF Capped
<1>5. yes \in BOOLEAN /\ yes = TRUE
  OBVIOUS
<1> HIDE DEF run, length, yes
<1>6. kept \in Speeches /\ ~kept.started /\ kept.candidate = run /\ kept.captured = length
      /\ kept.silent = vad.silent /\ kept.ended = vad.ended
  BY <1>1, <1>3, <1>4 DEF Speeches
<1> HIDE DEF kept
<1>7. CASE run < Trigger /\ vad' = kept /\ UNCHANGED face
  <2>1. vad' \in Speeches /\ SpeechIsBounded'
    BY <1>3, <1>4, <1>6, <1>7 DEF SpeechIsBounded
  <2>2. turn' \in Turns /\ face' \in PictureShown
    BY <1>1, <1>7, VoiceParts
  <2> QED  BY <1>1, <2>1, <2>2, SilentStep
<1>8. CASE ~(run < Trigger) /\ vad' = [kept EXCEPT !.started = yes, !.voiced = run]
           /\ FaceShow("listening")
  <2>1. /\ vad' \in Speeches /\ vad'.started /\ vad'.voiced = run /\ vad'.captured = length
        /\ vad'.silent = vad.silent
    BY <1>4, <1>5, <1>6, <1>8 DEF Speeches
  <2>3. SpeechIsBounded'
    BY <1>3, <1>4, <2>1, VoiceTurnAssumption DEF SpeechIsBounded
  <2>4. turn' \in Turns /\ face' \in PictureShown
    BY <1>1, <1>8, VoiceParts, FaceShows DEF Faces
  <2> QED  BY <1>1, <2>1, <2>3, <2>4, SilentStep
<1> QED  BY <1>2, <1>7, <1>8

LEMMA HearsSpeech ==
  ASSUME VoiceTurnInv, NEW block, InSpeech(block)
  PROVE  VoiceTurnInv'
<1> DEFINE silent == IF block = "quiet" THEN vad.silent + 1 ELSE 0
<1> DEFINE voiced == IF block = "quiet" THEN vad.voiced ELSE vad.voiced + 1
<1> DEFINE length == vad.captured + 1
<1> DEFINE heard == [vad EXCEPT !.captured = length, !.silent = silent, !.voiced = voiced]
<1> DEFINE ends == silent >= Silence \/ length >= MaxBlocks
<1>1. AtStep("listen") /\ vad.started /\ ~vad.ended /\ UNCHANGED <<turn, room, face, photo>>
  BY DEF InSpeech, Listening
<1>2. vad \in Speeches /\ vad.captured \in Nat /\ vad.captured < MaxBlocks /\ vad.silent \in Nat
      /\ vad.silent < Silence /\ vad.voiced \in Nat /\ vad.voiced <= vad.captured
  BY <1>1, VoiceParts DEF SpeechIsBounded, Speeches
<1>3. silent \in 0..Silence /\ length \in 0..MaxBlocks /\ voiced \in 0..MaxBlocks
      /\ voiced <= length /\ silent \in Nat /\ length \in Nat
  BY <1>2, VoiceTurnAssumption
<1>4. heard.silent = silent /\ heard.voiced = voiced /\ heard.captured = length
  BY <1>2 DEF Speeches
<1>5. vad' = IF silent >= Silence /\ voiced < MinVoiced THEN NoSpeech
             ELSE [heard EXCEPT !.ended = ends]
  BY <1>4 DEF InSpeech
<1>6. ends \in BOOLEAN /\ (~ends => silent < Silence /\ length < MaxBlocks)
  BY <1>3, VoiceTurnAssumption
<1> HIDE DEF silent, voiced, length, ends
<1>7. heard \in Speeches /\ heard.started
  BY <1>1, <1>2, <1>3 DEF Speeches
<1> HIDE DEF heard
<1>8. CASE vad' = NoSpeech
  <2>1. vad' \in Speeches /\ SpeechIsBounded'
    BY <1>8, NoSpeechFits
  <2> QED  BY <1>1, <2>1, VoiceParts, SilentStep
<1>9. CASE vad' = [heard EXCEPT !.ended = ends]
  <2>1. /\ vad' \in Speeches /\ vad'.started /\ vad'.voiced = voiced /\ vad'.captured = length
        /\ vad'.silent = silent /\ vad'.ended = ends
    BY <1>4, <1>6, <1>7, <1>9 DEF Speeches
  <2>2. SpeechIsBounded'
    BY <1>3, <1>6, <2>1 DEF SpeechIsBounded
  <2> QED  BY <1>1, <2>1, <2>2, VoiceParts, SilentStep
<1> QED  BY <1>5, <1>8, <1>9

LEMMA RecordingEnds == VoiceTurnInv /\ (Recorded \/ MicrophoneBreaks) => VoiceTurnInv'
<1> SUFFICES ASSUME VoiceTurnInv, Recorded \/ MicrophoneBreaks PROVE VoiceTurnInv'
  OBVIOUS
<1>1. AtStep("listen") /\ vad' = NoSpeech /\ UNCHANGED <<room, face, photo>>
  BY DEF Recorded, MicrophoneBreaks, Listening
<1>2. turn' \in Turns
  <2>1. CASE turn.tries < Attempts /\ turn' = [turn EXCEPT !.tries = @ + 1]
    <3>1. turn.tries + 1 \in 1..Attempts
      BY <2>1, VoiceParts, VoiceTurnAssumption DEF Turns
    <3> QED  BY <2>1, <3>1, VoiceParts DEF Turns
  <2>2. CASE Doing(<<"kws">>)
    BY <2>2, ShortPlans, VoiceParts, PlanGoesOn
  <2>3. CASE Raise
    BY <2>3, ShortPlans, VoiceParts, PlanGoesOn DEF Raise
  <2> QED  BY <2>1, <2>2, <2>3 DEF Recorded, MicrophoneBreaks
<1>3. vad' \in Speeches /\ SpeechIsBounded'
  BY <1>1, NoSpeechFits
<1> QED  BY <1>1, <1>2, <1>3, VoiceParts, SilentStep

-----------------------------------------------------------------------------
(* What was said *)

LEMMA KeywordSpotted == VoiceTurnInv /\ SpotKeyword => VoiceTurnInv'
<1> SUFFICES ASSUME VoiceTurnInv, SpotKeyword PROVE VoiceTurnInv'
  OBVIOUS
<1>1. AtStep("kws") /\ UNCHANGED <<room, vad, photo>>
  BY DEF SpotKeyword
<1>2. turn' \in Turns
  BY ShortPlans, VoiceParts, PlanGoesOn DEF SpotKeyword, Raise, Return
<1>3. face' \in PictureShown
  <2>1. "thinking" \in Faces \ {"error"}
    BY DEF Faces
  <2> QED  BY <2>1, VoiceParts, FaceShows, FaceGoesIdle DEF SpotKeyword
<1> QED  BY <1>1, <1>2, <1>3, SilentTurn

LEMMA SpeechRead == VoiceTurnInv /\ Transcribe => VoiceTurnInv'
<1> SUFFICES ASSUME VoiceTurnInv, Transcribe PROVE VoiceTurnInv'
  OBVIOUS
<1>1. AtStep("stt") /\ UNCHANGED <<room, vad, face, photo>>
  BY DEF Transcribe
<1>2. PICK p \in PlansFor \cup {<<"failed">>} : Doing(p)
  BY DEF Transcribe, Raise
<1>3. turn' \in Turns
  BY <1>2, PlansAreSteps, ShortPlans, VoiceParts, PlanGoesOn
<1> QED  BY <1>1, <1>3, VoiceParts, SilentTurn

\* The steps that show, turn and keep.
LEMMA PlainSteps ==
  VoiceTurnInv /\ (ShowStep \/ TurnToSpeaker \/ KeepStep \/ Decide) => VoiceTurnInv'
<1> SUFFICES ASSUME VoiceTurnInv, ShowStep \/ TurnToSpeaker \/ KeepStep \/ Decide
             PROVE  VoiceTurnInv'
  OBVIOUS
<1>1. UNCHANGED <<room, vad, photo>>
  BY DEF ShowStep, TurnToSpeaker, KeepStep, Decide
<1>2. PICK step : AtStep(step) /\ step \notin {"speak", "photo", "scan"}
  <2>1. CASE ShowStep
    BY <2>1 DEF ShowStep
  <2>2. CASE TurnToSpeaker
    BY <2>2 DEF TurnToSpeaker
  <2>3. CASE KeepStep
    BY <2>3 DEF KeepStep
  <2>4. CASE Decide
    BY <2>4 DEF Decide
  <2> QED  BY <2>1, <2>2, <2>3, <2>4
<1>3. NextStep \/ Raise
  BY DEF ShowStep, TurnToSpeaker, KeepStep, Decide
<1>4. turn' \in Turns
  <2>1. Tail(turn.todo) \in Seq(TurnSteps) /\ <<"failed">> \in Seq(TurnSteps)
    BY <1>2, StepsFollow, VoiceParts, ShortPlans
  <2> QED  BY <1>3, <2>1, VoiceParts, PlanGoesOn DEF NextStep, Raise
<1>5. face' \in PictureShown
  <2>1. {"wake", "speaking", "gimbal", "look", "thinking"} \subseteq Faces \ {"error"}
    BY DEF Faces
  <2>2. CASE ShowStep
    <3>1. PICK s \in {"wake", "speaking", "gimbal", "look", "thinking"} : FaceShow(s)
      BY <2>2 DEF ShowStep
    <3> QED  BY <2>1, <3>1, VoiceParts, FaceShows
  <2>3. CASE KeepStep
    BY <2>3, VoiceParts, FaceKeeps DEF KeepStep
  <2>4. CASE UNCHANGED face
    BY <2>4, VoiceParts
  <2> QED  BY <2>2, <2>3, <2>4 DEF TurnToSpeaker, Decide
<1> QED  BY <1>1, <1>2, <1>4, <1>5, SilentTurn

\* A turn as it begins.
LEMMA TurnBegins ==
  ASSUME NEW steps \in Seq(TurnSteps), turn' = [todo |-> steps, tries |-> 1]
  PROVE  turn' \in Turns
<1>1. 1 \in 1..Attempts
  BY VoiceTurnAssumption
<1> QED  BY <1>1 DEF Turns

LEMMA TurnEnds == VoiceTurnInv /\ EndTurn => VoiceTurnInv'
<1> SUFFICES ASSUME VoiceTurnInv, EndTurn PROVE VoiceTurnInv'
  OBVIOUS
<1>1. PICK step \in {"idle", "quit"} : AtStep(step)
  BY DEF EndTurn
<1>2. UNCHANGED <<room, vad>> /\ photo' = [photo EXCEPT !.got = FALSE]
  BY DEF EndTurn
<1>3. turn' \in Turns
  BY ShortPlans, TurnBegins DEF EndTurn
<1>4. face' \in PictureShown
  BY VoiceParts, FaceGoesIdle DEF EndTurn
<1>5. step \notin {"speak", "photo", "scan"}
  BY <1>1
<1> QED  BY <1>1, <1>2, <1>3, <1>4, <1>5, SilentTurn

LEMMA TurnFails == VoiceTurnInv /\ FailTurn => VoiceTurnInv'
<1> SUFFICES ASSUME VoiceTurnInv, FailTurn PROVE VoiceTurnInv'
  OBVIOUS
<1>1. AtStep("failed") /\ UNCHANGED <<room, vad, photo>> /\ Doing(<<>>) /\ FaceRequest("none", "error")
  BY DEF FailTurn, FaceError
<1>2. turn' \in Turns
  BY <1>1, ShortPlans, VoiceParts, PlanGoesOn
<1>3. "none" \in Faces \ {"error"} /\ "error" \in Faces
  BY DEF Faces
<1>4. face' \in PictureShown
  BY <1>1, <1>3, VoiceParts, FaceMoves
<1> QED  BY <1>1, <1>2, <1>4, SilentTurn

LEMMA AssistantRestarts == VoiceTurnInv /\ Restart => VoiceTurnInv'
<1> SUFFICES ASSUME VoiceTurnInv, Restart PROVE VoiceTurnInv'
  OBVIOUS
<1> DEFINE no == FALSE
<1> DEFINE stale == face.screen # "none"
<1>1. turn' = [todo |-> <<"listen">>, tries |-> 1] /\ UNCHANGED vad
      /\ room' = [voice |-> "off", left |-> no, overran |-> no]
      /\ face' \in {[cur |-> "none", keep |-> no, screen |-> "none", lost |-> no],
                    [cur |-> "none", keep |-> no, screen |-> face.screen, lost |-> stale]}
      /\ photo' = [photo EXCEPT !.got = FALSE]
  BY DEF Restart
<1>2. no \in BOOLEAN /\ ~no /\ stale \in BOOLEAN /\ "none" \in Faces \ {"error"}
      /\ face.screen \in Faces
  BY VoiceParts DEF Faces, PictureShown
<1> HIDE DEF no, stale
<1>3. turn' \in Turns
  BY <1>1, ShortPlans, TurnBegins
<1>4. face' \in PictureShown
  BY <1>1, <1>2 DEF PictureShown
<1>6. photo' \in Photos /\ AnswerIsWithItsPicture' /\ ~photo'.waits
  <2>1. ~photo.waits
    BY VoiceParts DEF InItsStep, AtStep, Restart
  <2> QED  BY <1>1, <2>1, VoiceParts, PhotoRests
<1>5. room' \in Rooms /\ InItsStep'
  BY <1>1, <1>2, <1>6 DEF Rooms, InItsStep
<1>7. vad' \in Speeches /\ SpeechIsBounded'
  BY <1>1, VoiceParts DEF SpeechIsBounded
<1>8. VoiceTypeOK'
  BY <1>3, <1>4, <1>5, <1>6, <1>7 DEF VoiceTypeOK, Turns, Speeches, Rooms, PictureShown, Photos
<1> QED  BY <1>5, <1>6, <1>7, <1>8 DEF VoiceTurnInv

-----------------------------------------------------------------------------
(* Speech *)

\* The step of a voice: the rest of the state keeps.
LEMMA VoiceStepKeeps ==
  ASSUME VoiceTurnInv, UNCHANGED <<vad, face, photo>>, turn' \in Turns, room' \in Rooms, InItsStep'
  PROVE  VoiceTurnInv'
<1>1. SpeechIsBounded' /\ AnswerIsWithItsPicture'
  BY VoiceParts DEF SpeechIsBounded, AnswerIsWithItsPicture
<1>2. VoiceTypeOK'
  BY VoiceParts DEF VoiceTypeOK, Turns, Speeches, Rooms, PictureShown, Photos
<1> QED  BY <1>1, <1>2 DEF VoiceTurnInv

LEMMA VoiceEnds ==
  VoiceTurnInv /\ (SpeechEnds \/ LocalSpeechEnds) => VoiceTurnInv'
<1> SUFFICES ASSUME VoiceTurnInv, SpeechEnds \/ LocalSpeechEnds PROVE VoiceTurnInv'
  OBVIOUS
<1>1. AtStep("speak") /\ UNCHANGED <<vad, face, photo>>
  BY DEF SpeechEnds, LocalSpeechEnds
<1>2. (room.left => room.overran) /\ ~photo.waits
  BY <1>1, VoiceParts DEF InItsStep, AtStep
<1>3. CASE room' = [room EXCEPT !.voice = "off"] /\ NextStep
  <2>1. room' \in Rooms /\ room'.voice = "off" /\ room'.left = room.left /\ room'.overran = room.overran
    BY <1>3, VoiceParts DEF Rooms
  <2>2. Tail(turn.todo) \in Seq(TurnSteps)
    BY <1>1, StepsFollow, VoiceParts
  <2>3. turn' \in Turns
    BY <1>3, <2>2, VoiceParts, PlanGoesOn DEF NextStep
  <2>4. InItsStep'
    BY <1>1, <1>2, <2>1 DEF InItsStep
  <2> QED  BY <1>1, <2>1, <2>3, <2>4, VoiceStepKeeps
<1>4. CASE room' = [room EXCEPT !.voice = "local"] /\ UNCHANGED turn
  <2>1. room' \in Rooms /\ room'.left = room.left /\ room'.overran = room.overran
    BY <1>4, VoiceParts DEF Rooms
  <2>2. InItsStep'
    BY <1>1, <1>2, <1>4, <2>1 DEF InItsStep, AtStep
  <2> QED  BY <1>1, <1>4, <2>1, <2>2, VoiceParts, VoiceStepKeeps
<1> QED  BY <1>3, <1>4 DEF SpeechEnds, LocalSpeechEnds, Played

LEMMA VoiceSpeaks ==
  VoiceTurnInv /\ (Speak \/ SpeechOverruns \/ LeftPlayerEnds) => VoiceTurnInv'
<1> SUFFICES ASSUME VoiceTurnInv, Speak \/ SpeechOverruns \/ LeftPlayerEnds PROVE VoiceTurnInv'
  OBVIOUS
<1>1. UNCHANGED <<turn, vad, face, photo>>
  BY DEF Speak, SpeechOverruns, LeftPlayerEnds
<1>2. /\ (room.left => room.overran) /\ (room.voice # "off" => AtStep("speak"))
      /\ (photo.waits => AtStep("photo") \/ AtStep("scan"))
  BY VoiceParts DEF InItsStep
<1>3. CASE Speak
  <2>1. room' \in Rooms /\ room'.left = room.left /\ room'.overran = room.overran
    BY <1>3, VoiceParts DEF Rooms, Speak
  <2>2. InItsStep'
    BY <1>1, <1>2, <1>3, <2>1 DEF InItsStep, AtStep, Speak
  <2> QED  BY <1>1, <2>1, <2>2, VoiceParts, VoiceStepKeeps
<1>4. CASE SpeechOverruns
  <2> DEFINE yes == TRUE
  <2>1. room' = [voice |-> "local", left |-> yes, overran |-> yes] /\ yes \in BOOLEAN
    BY <1>4 DEF SpeechOverruns
  <2> HIDE DEF yes
  <2>2. room' \in Rooms /\ (room'.left => room'.overran)
    BY <2>1 DEF Rooms
  <2>3. InItsStep'
    BY <1>1, <1>2, <1>4, <2>2 DEF InItsStep, AtStep, SpeechOverruns
  <2> QED  BY <1>1, <2>2, <2>3, VoiceParts, VoiceStepKeeps
<1>5. CASE LeftPlayerEnds
  <2> DEFINE no == FALSE
  <2>1. room' = [room EXCEPT !.left = no, !.overran = no] /\ no \in BOOLEAN
    BY <1>5 DEF LeftPlayerEnds
  <2> HIDE DEF no
  <2>2. room' \in Rooms /\ (room'.left => room'.overran) /\ room'.voice = room.voice
    BY <2>1, VoiceParts DEF Rooms
  <2>3. InItsStep'
    BY <1>1, <1>2, <2>2 DEF InItsStep, AtStep
  <2> QED  BY <1>1, <2>2, <2>3, VoiceParts, VoiceStepKeeps
<1> QED  BY <1>3, <1>4, <1>5

-----------------------------------------------------------------------------
(* Pictures *)

\* A step of the files.
LEMMA FilesStep ==
  ASSUME VoiceTurnInv, UNCHANGED <<vad, room, face>>, turn' \in Turns, InItsStep',
         photo' \in Photos, AnswerIsWithItsPicture'
  PROVE  VoiceTurnInv'
<1>1. SpeechIsBounded'
  BY VoiceParts DEF SpeechIsBounded
<1>2. VoiceTypeOK'
  BY VoiceParts DEF VoiceTypeOK, Turns, Speeches, Rooms, PictureShown, Photos
<1> QED  BY <1>1, <1>2 DEF VoiceTurnInv

LEMMA FilesOnly ==
  ASSUME VoiceTurnInv, UNCHANGED <<turn, vad, room, face>>, photo' \in Photos, AnswerIsWithItsPicture',
         photo'.waits => photo.waits \/ AtStep("photo") \/ AtStep("scan")
  PROVE  VoiceTurnInv'
<1>1. InItsStep' /\ turn' \in Turns
  BY VoiceParts DEF InItsStep, AtStep
<1> QED  BY <1>1, FilesStep

LEMMA PhotoFields ==
  ASSUME photo \in Photos
  PROVE  /\ photo.token \in AnyToken /\ photo.request \in AnyToken /\ photo.ready \in AnyToken
         /\ photo.picture \in AnyToken /\ photo.bridge \in AnyToken /\ NoToken \in AnyToken
         /\ Tokens \subseteq AnyToken /\ NoToken \notin Tokens
BY VoiceTurnAssumption DEF Photos, AnyToken

LEMMA PhotoAsked == VoiceTurnInv /\ RequestPhoto => VoiceTurnInv'
<1> SUFFICES ASSUME VoiceTurnInv, RequestPhoto PROVE VoiceTurnInv'
  OBVIOUS
<1> DEFINE no == FALSE
<1> DEFINE yes == TRUE
<1>1. UNCHANGED <<turn, vad, room, face>>
  BY DEF RequestPhoto
<1>2. PICK t \in Tokens \ {photo.token, photo.bridge, photo.picture} :
        photo' = [photo EXCEPT !.token = t, !.request = t, !.ready = NoToken, !.waits = yes, !.got = no]
  BY DEF RequestPhoto
<1>3. yes \in BOOLEAN /\ no \in BOOLEAN /\ ~no
  OBVIOUS
<1> HIDE DEF no, yes
<1>4. t \in AnyToken /\ NoToken \in AnyToken /\ t # NoToken
  BY PhotoFields, VoiceParts
<1>5. /\ photo' \in Photos /\ photo'.token = t /\ photo'.request = t /\ photo'.ready = NoToken
      /\ ~photo'.got /\ photo'.picture = photo.picture /\ photo'.bridge = photo.bridge
      /\ photo'.stage = photo.stage
  BY <1>2, <1>3, <1>4, VoiceParts DEF Photos
<1>6. AnswerIsWithItsPicture'
  BY <1>2, <1>4, <1>5, VoiceParts DEF AnswerIsWithItsPicture
<1>7. AtStep("photo") \/ AtStep("scan")
  BY DEF RequestPhoto
<1> QED  BY <1>1, <1>5, <1>6, <1>7, FilesOnly

\* The turn goes on with its plan, views once more, or says that it has no view; no
\* voice plays before it, and none after.
LEMMA PhotoEnds == VoiceTurnInv /\ (PhotoArrives \/ PhotoTimesOut) => VoiceTurnInv'
<1> SUFFICES ASSUME VoiceTurnInv, PhotoArrives \/ PhotoTimesOut PROVE VoiceTurnInv'
  OBVIOUS
<1> DEFINE no == FALSE
<1> DEFINE yes == TRUE
<1>1. photo.waits /\ UNCHANGED <<vad, room, face>>
  BY DEF PhotoArrives, PhotoTimesOut
<1>2. \/ photo' = [photo EXCEPT !.waits = no, !.got = yes] /\ OwnAnswer
      \/ photo' = [photo EXCEPT !.waits = no]
  BY DEF PhotoArrives, PhotoTimesOut
<1>3. AtStep("photo") \/ AtStep("scan")
  BY <1>1, VoiceParts DEF InItsStep
<1>4. room.voice = "off" /\ (room.left => room.overran)
  BY <1>3, VoiceParts DEF InItsStep, AtStep
<1>5. turn' \in Turns
  <2>1. Tail(turn.todo) \in Seq(TurnSteps)
    BY <1>3, StepsFollow, VoiceParts
  <2>2. NextStep \/ UNCHANGED turn \/ Doing(<<"speak", "idle">>)
    BY DEF PhotoArrives, PhotoTimesOut
  <2> QED  BY <2>1, <2>2, ShortPlans, VoiceParts, PlanGoesOn DEF NextStep
<1>6. no \in BOOLEAN /\ yes \in BOOLEAN /\ ~no
  OBVIOUS
<1> HIDE DEF no, yes
<1>7. /\ photo' \in Photos /\ ~photo'.waits /\ photo'.token = photo.token
      /\ photo'.request = photo.request /\ photo'.ready = photo.ready
      /\ photo'.picture = photo.picture /\ photo'.bridge = photo.bridge
      /\ photo'.stage = photo.stage /\ (photo'.got => photo.got \/ OwnAnswer)
  BY <1>2, <1>6, VoiceParts DEF Photos
<1>8. AnswerIsWithItsPicture'
  BY <1>1, <1>7, VoiceParts DEF AnswerIsWithItsPicture, OwnAnswer
<1>9. InItsStep'
  BY <1>1, <1>4, <1>7 DEF InItsStep
<1> QED  BY <1>1, <1>5, <1>7, <1>8, <1>9, FilesStep

LEMMA BridgeSteps ==
  VoiceTurnInv /\ (BridgeReads \/ BridgeWrites \/ BridgeRemoves \/ BridgeAnswers \/ BridgeRefuses)
    => VoiceTurnInv'
<1> SUFFICES ASSUME VoiceTurnInv,
               BridgeReads \/ BridgeWrites \/ BridgeRemoves \/ BridgeAnswers \/ BridgeRefuses
             PROVE  VoiceTurnInv'
  OBVIOUS
<1>1. UNCHANGED <<turn, vad, room, face>>
  BY DEF BridgeReads, BridgeWrites, BridgeRemoves, BridgeAnswers, BridgeRefuses, Bridge
<1>2. photo \in Photos /\ AnswerIsWithItsPicture /\ NoToken \in AnyToken
  BY VoiceParts, PhotoFields
<1>3. photo' \in Photos /\ AnswerIsWithItsPicture' /\ photo'.waits = photo.waits
  <2>1. CASE BridgeReads
    <3>1. photo.stage = "waits" /\ photo.request # NoToken
          /\ photo' = [photo EXCEPT !.bridge = photo.request, !.stage = "read"]
      BY <2>1 DEF BridgeReads
    <3>2. /\ photo' \in Photos /\ photo'.token = photo.token /\ photo'.waits = photo.waits
          /\ photo'.request = photo.request /\ photo'.ready = photo.ready
          /\ photo'.picture = photo.picture /\ photo'.bridge = photo.request
          /\ photo'.stage = "read" /\ photo'.got = photo.got
      BY <1>2, <3>1 DEF Photos
    <3> QED  BY <1>2, <3>1, <3>2 DEF AnswerIsWithItsPicture
  <2>2. CASE BridgeWrites
    <3>1. photo.stage = "read" /\ photo' = [photo EXCEPT !.picture = photo.bridge, !.stage = "written"]
      BY <2>2 DEF BridgeWrites
    <3>2. /\ photo' \in Photos /\ photo'.token = photo.token /\ photo'.waits = photo.waits
          /\ photo'.request = photo.request /\ photo'.ready = photo.ready
          /\ photo'.picture = photo.bridge /\ photo'.bridge = photo.bridge
          /\ photo'.stage = "written" /\ photo'.got = photo.got
      BY <1>2, <3>1 DEF Photos
    <3> QED  BY <1>2, <3>1, <3>2 DEF AnswerIsWithItsPicture
  <2>3. CASE BridgeRemoves
    <3>1. photo.stage = "written" /\ photo' = [photo EXCEPT !.request = NoToken, !.stage = "removed"]
      BY <2>3 DEF BridgeRemoves
    <3>2. /\ photo' \in Photos /\ photo'.token = photo.token /\ photo'.waits = photo.waits
          /\ photo'.request = NoToken /\ photo'.ready = photo.ready
          /\ photo'.picture = photo.picture /\ photo'.bridge = photo.bridge
          /\ photo'.stage = "removed" /\ photo'.got = photo.got
      BY <1>2, <3>1 DEF Photos
    <3> QED  BY <1>2, <3>1, <3>2 DEF AnswerIsWithItsPicture
  <2>4. CASE BridgeAnswers
    <3>1. photo.stage = "removed"
          /\ photo' = [photo EXCEPT !.ready = photo.bridge, !.bridge = NoToken, !.stage = "waits"]
      BY <2>4 DEF BridgeAnswers
    <3>2. /\ photo' \in Photos /\ photo'.token = photo.token /\ photo'.waits = photo.waits
          /\ photo'.request = photo.request /\ photo'.ready = photo.bridge
          /\ photo'.picture = photo.picture /\ photo'.bridge = NoToken
          /\ photo'.stage = "waits" /\ photo'.got = photo.got
      BY <1>2, <3>1 DEF Photos
    <3> QED  BY <1>2, <3>1, <3>2 DEF AnswerIsWithItsPicture
  <2>5. CASE BridgeRefuses
    <3>1. photo.stage = "read"
          /\ photo' = [photo EXCEPT !.request = NoToken, !.bridge = NoToken, !.stage = "waits"]
      BY <2>5 DEF BridgeRefuses
    <3>2. /\ photo' \in Photos /\ photo'.token = photo.token /\ photo'.waits = photo.waits
          /\ photo'.request = NoToken /\ photo'.ready = photo.ready
          /\ photo'.picture = photo.picture /\ photo'.bridge = NoToken
          /\ photo'.stage = "waits" /\ photo'.got = photo.got
      BY <1>2, <3>1 DEF Photos
    <3> QED  BY <1>2, <3>1, <3>2 DEF AnswerIsWithItsPicture
  <2> QED  BY <2>1, <2>2, <2>3, <2>4, <2>5
<1> QED  BY <1>1, <1>3, FilesOnly

LEMMA ErrorFades == VoiceTurnInv /\ FaceExpires => VoiceTurnInv'
<1> SUFFICES ASSUME VoiceTurnInv, FaceExpires PROVE VoiceTurnInv'
  OBVIOUS
<1>1. "none" \in Faces
  BY DEF Faces
<1>2. face' \in PictureShown /\ UNCHANGED <<turn, vad, room, photo>>
  BY <1>1, VoiceParts DEF FaceExpires, PictureShown
<1>3. SpeechIsBounded' /\ InItsStep' /\ AnswerIsWithItsPicture'
  BY <1>2, VoiceParts DEF SpeechIsBounded, InItsStep, AnswerIsWithItsPicture, AtStep
<1>4. VoiceTypeOK'
  BY <1>2, VoiceParts DEF VoiceTypeOK, Turns, Speeches, Rooms, PictureShown, Photos
<1> QED  BY <1>3, <1>4 DEF VoiceTurnInv

LEMMA VoiceInitInv == VoiceInit => VoiceTurnInv
<1> SUFFICES ASSUME VoiceInit PROVE VoiceTurnInv
  OBVIOUS
<1> DEFINE no == FALSE
<1>1. /\ turn = [todo |-> <<"listen">>, tries |-> 1] /\ vad = NoSpeech
      /\ room = [voice |-> "off", left |-> no, overran |-> no]
      /\ face = [cur |-> "none", keep |-> no, screen |-> "none", lost |-> no]
      /\ photo = [token |-> NoToken, waits |-> no, request |-> NoToken, ready |-> NoToken,
                  picture |-> NoToken, bridge |-> NoToken, stage |-> "waits", got |-> no]
  BY DEF VoiceInit, NoPhoto
<1>2. no \in BOOLEAN /\ ~no /\ "none" \in Faces \ {"error"} /\ NoToken \in AnyToken
      /\ 1 \in 1..Attempts
  BY VoiceTurnAssumption DEF Faces, AnyToken
<1> HIDE DEF no
<1>3. turn \in Turns
  BY <1>1, <1>2, ShortPlans DEF Turns
<1>4. room \in Rooms /\ face \in PictureShown /\ photo \in Photos
  BY <1>1, <1>2 DEF Rooms, PictureShown, Photos
<1>5. vad \in Speeches /\ SpeechIsBounded
  BY <1>1, NoSpeechIsBounded, VoiceTurnAssumption DEF SpeechIsBounded
<1>6. InItsStep /\ AnswerIsWithItsPicture
  BY <1>1, <1>2 DEF InItsStep, AnswerIsWithItsPicture
<1> QED  BY <1>3, <1>4, <1>5, <1>6, VoiceTypes DEF VoiceTurnInv

LEMMA VoiceNextInv == VoiceTurnInv /\ [VoiceStep]_voiceVars => VoiceTurnInv'
<1> SUFFICES ASSUME VoiceTurnInv, [VoiceStep]_voiceVars PROVE VoiceTurnInv'
  OBVIOUS
<1>1. ASSUME NEW b \in Blocks, WaitForSpeech(b) \/ InSpeech(b) PROVE VoiceTurnInv'
  BY <1>1, WaitsForSpeech, HearsSpeech
<1>2. CASE Recorded \/ MicrophoneBreaks
  BY <1>2, RecordingEnds
<1>3. CASE SpotKeyword \/ Transcribe
  BY <1>3, KeywordSpotted, SpeechRead
<1>4. CASE ShowStep \/ TurnToSpeaker \/ KeepStep \/ Decide
  BY <1>4, PlainSteps
<1>5. CASE EndTurn \/ FailTurn \/ Restart
  BY <1>5, TurnEnds, TurnFails, AssistantRestarts
<1>6. CASE Speak \/ SpeechEnds \/ SpeechOverruns \/ LocalSpeechEnds \/ LeftPlayerEnds
  BY <1>6, VoiceSpeaks, VoiceEnds
<1>7. CASE RequestPhoto \/ PhotoArrives \/ PhotoTimesOut
  BY <1>7, PhotoAsked, PhotoEnds
<1>8. CASE BridgeReads \/ BridgeWrites \/ BridgeRemoves \/ BridgeAnswers \/ BridgeRefuses
  BY <1>8, BridgeSteps
<1>9. CASE FaceExpires
  BY <1>9, ErrorFades
<1>10. CASE UNCHANGED voiceVars
  BY <1>10 DEF voiceVars, VoiceTurnInv, VoiceTypeOK, SpeechIsBounded, InItsStep,
               AnswerIsWithItsPicture, AtStep
<1> QED  BY <1>1, <1>2, <1>3, <1>4, <1>5, <1>6, <1>7, <1>8, <1>9, <1>10 DEF VoiceStep

-----------------------------------------------------------------------------
(* The theorems about a turn *)

\* The counters of voice detection keep their bounds, the plan of a turn is made of its
\* steps, a voice plays and a picture is waited for in their own steps, and what lies in
\* the files of the bridge belongs to the requests as described above.
THEOREM VoiceTurnInvariant == VoiceSpec => []VoiceTurnInv
<1> QED  BY VoiceInitInv, VoiceNextInv, PTL DEF VoiceSpec

\* The microphone never hears the assistant's own voice, unless the player overran the
\* 30 seconds it is waited for (run_turn, stream_edge_tts).
THEOREM NothingPlayedIsHeard == VoiceSpec => []HearsNoPlayback
<1> QED  BY VoiceTurnInvariant, NothingIsHeard, PTL

\* A question about what the camera sees is answered with a picture taken for it, also
\* after requests that timed out (request_camera_image, process_request).
THEOREM PicturesAreAnswers == VoiceSpec => []PhotoIsOfThisRequest
<1> QED  BY VoiceTurnInvariant, PicturesFit, PTL

-----------------------------------------------------------------------------
(* The chat and its tasks: ChatControl, RobotTasks *)

(***************************************************************************)
(* What keeps the robot from going on between tasks: a velocity that is    *)
(* not zero stands only while a call that publishes, or a stop, is under   *)
(* way, or once a program has been told to end (MovesAreCalls).  So every  *)
(* way out of such a call must pass a stop, and a call that publishes      *)
(* nothing, as a goal of Nav2, must begin at rest.                         *)
(***************************************************************************)
RunsWhatItTook == Busy => chat.at = "run"

Moving ==
  \/ Busy /\ Head(ex.todo) \in {"drive", "swing", "settle", "halt"}
  \/ Rotates /\ ex.at = "run"

\* The ends after which the last velocity may stand.
Excused ==
  \/ ex.end \in {"raised", "signalled", "killed"}
  \/ ex.end = "blind" /\ chat.at # "ended"

MovesAreCalls == said => Moving \/ chat.at = "stopping" \/ (~Busy /\ Excused)

ChatInv == ChatTypeOK /\ RunsWhatItTook /\ MovesAreCalls

-----------------------------------------------------------------------------
(* The executor *)

Executions == [todo : Seq(Calls), at : Places, end : Ends]
Navs == [asked : Goals, drives : Goals]

\* A plan the executor may have.
Doable(calls) == calls \in Seq(Calls) /\ Len(calls) <= 3

LEMMA TaskTypes ==
  TasksTypeOK <=> /\ ex \in Executions /\ Len(ex.todo) <= 3
                  /\ said \in BOOLEAN /\ nav \in Navs
BY DEF TasksTypeOK, Executions, Navs

LEMMA DoablePlans ==
  /\ Doable(<<>>) /\ Doable(<<"halt">>) /\ Doable(<<"camera">>) /\ Doable(<<"rotate">>)
  /\ Doable(<<"nav">>) /\ Doable(<<"drive">>) /\ Doable(<<"rotateOrStep">>)
  /\ Doable(<<"nav", "settle">>) /\ Doable(<<"nav", "settle", "rotate">>)
  /\ \A call \in Calls : \A p \in Steps(call) : Doable(p)
<1>1. Doable(<<>>) /\ Doable(<<"halt">>) /\ Doable(<<"camera">>) /\ Doable(<<"rotate">>)
  BY DEF Doable, Calls
<1>2. Doable(<<"nav">>) /\ Doable(<<"drive">>) /\ Doable(<<"rotateOrStep">>)
  BY DEF Doable, Calls
<1>3. Doable(<<"nav", "settle">>) /\ Doable(<<"nav", "settle", "rotate">>)
  BY DEF Doable, Calls
<1>4. ASSUME NEW call \in Calls, NEW p \in Steps(call) PROVE Doable(p)
  <2>1. "halt" \in Calls
    BY DEF Calls
  <2>2. Doable(<<call, "halt">>) /\ Doable(<<call, call, "halt">>)
    BY <2>1 DEF Doable
  <2> QED  BY <1>4, <2>2 DEF Steps
<1> QED  BY <1>1, <1>2, <1>3, <1>4

\* What a task comes to can be done.
LEMMA TasksAreDoable ==
  ASSUME NEW task \in Tasks, NEW p \in Plans(task)
  PROVE  Doable(p)
<1>1. "drive" \in Calls
  BY DEF Calls
<1>2. p \in {<<>>, <<"halt">>, <<"camera">>, <<"rotate">>, <<"nav">>, <<"drive">>,
             <<"rotateOrStep">>, <<"nav", "settle">>, <<"nav", "settle", "rotate">>} \cup Steps("drive")
  <2>1. Plans(task) \in {{<<>>}, {<<"halt">>}, {<<"camera">>},
                         {<<"rotate">>, <<"nav">>, <<"drive">>}, {<<"nav">>} \cup Steps("drive"),
                         {<<"rotateOrStep">>},
                         {<<>>, <<"camera">>, <<"nav", "settle">>, <<"nav", "settle", "rotate">>}}
    BY DEF Plans
  <2> QED  BY <2>1
<1> QED  BY <1>1, <1>2, DoablePlans

LEMMA ReplansFit ==
  ASSUME NEW calls, Doable(calls), NEW end \in Ends, Replan(calls, end)
  PROVE  /\ ex' \in Executions /\ Len(ex'.todo) <= 3
         /\ ex'.todo = calls /\ ex'.end = end /\ ex'.at = "begin"
<1>1. "begin" \in Places
  BY DEF Places
<1>2. ex' \in Executions /\ ex'.todo = calls /\ ex'.end = end /\ ex'.at = "begin"
  BY <1>1 DEF Executions, Replan, Doable
<1> QED  BY <1>2 DEF Doable

LEMMA PlansFit ==
  ASSUME TasksTypeOK, NEW calls, Doable(calls), Plan(calls)
  PROVE  ex' \in Executions /\ Len(ex'.todo) <= 3 /\ ex'.todo = calls /\ ex'.end = ex.end
<1>1. ex.end \in Ends
  BY TaskTypes DEF Executions
<1> QED  BY <1>1, ReplansFit DEF Plan

LEMMA TasksGoOn ==
  ASSUME TasksTypeOK, Busy
  PROVE  Doable(Tail(ex.todo))
<1>1. ex.todo \in Seq(Calls) /\ ex.todo # <<>> /\ Len(ex.todo) <= 3
  BY TaskTypes DEF Busy, Executions
<1>2. Tail(ex.todo) \in Seq(Calls) /\ Len(Tail(ex.todo)) = Len(ex.todo) - 1 /\ Len(ex.todo) \in Nat
  BY <1>1
<1> QED  BY <1>1, <1>2 DEF Doable

\* How the executor goes on after a call, or in it.
LEMMA ExecutorGoesOn ==
  ASSUME TasksTypeOK, Busy, NEW place \in Places,
         Done \/ Failed \/ Goto(place) \/ UNCHANGED ex \/ Replan(<<>>, "blind")
  PROVE  ex' \in Executions /\ Len(ex'.todo) <= 3
<1>1. CASE Done
  BY <1>1, TasksGoOn, PlansFit DEF Done
<1>2. CASE Failed
  <2>1. CASE Replan(<<>>, "failed")
    BY <2>1, DoablePlans, ReplansFit DEF Ends
  <2>2. CASE \E p \in Steps("swing") : Plan(p)
    <3>1. PICK p \in Steps("swing") : Plan(p)
      BY <2>2
    <3>2. "swing" \in Calls
      BY DEF Calls
    <3>3. Doable(p)
      BY <3>2, DoablePlans
    <3> QED  BY <3>1, <3>3, PlansFit
  <2> QED  BY <1>2, <2>1, <2>2 DEF Failed
<1>3. CASE Goto(place)
  BY <1>3, TaskTypes DEF Goto, Executions
<1>4. CASE UNCHANGED ex
  BY <1>4, TaskTypes
<1>5. CASE Replan(<<>>, "blind")
  BY <1>5, DoablePlans, ReplansFit DEF Ends
<1> QED  BY <1>1, <1>2, <1>3, <1>4, <1>5

LEMMA PublishedIsSaid ==
  ASSUME said \in BOOLEAN, NEW v, Silent \/ Publish(v)
  PROVE  said' \in BOOLEAN
BY DEF Silent, Publish

LEMMA AbandonedGoals == TasksTypeOK => Abandoned \in Navs
<1> SUFFICES ASSUME TasksTypeOK PROVE Abandoned \in Navs
  OBVIOUS
<1>1. nav.asked \in Goals /\ nav.drives \in Goals
  BY TaskTypes DEF Navs
<1>2. Lost(nav.asked) \in Goals /\ Lost(nav.drives) \in Goals
  BY <1>1 DEF Lost, Goals
<1> QED  BY <1>2 DEF Abandoned, Navs

LEMMA ExecutorTypes == TasksTypeOK /\ Executor => TasksTypeOK' /\ Busy
<1> SUFFICES ASSUME TasksTypeOK, Executor PROVE TasksTypeOK' /\ Busy
  OBVIOUS
<1>1. Busy
  BY DEF Executor, At, Rotates, Halt, Capture, Drive, BeginRotate, Rotate, Settle, SettleBlind,
         SettleRotates, SendGoal, GoalUnanswered, GoalAnswered, GoalEnded, GoalTimeout,
         CancelUnanswered
<1>2. \E place \in Places :
        Done \/ Failed \/ Goto(place) \/ UNCHANGED ex \/ Replan(<<>>, "blind")
  <2>1. CASE Halt \/ Capture \/ Drive \/ SettleBlind \/ GoalUnanswered \/ GoalEnded \/ CancelUnanswered
    <3>1. "run" \in Places
      BY DEF Places
    <3> QED  BY <2>1, <3>1 DEF Halt, Capture, Drive, SettleBlind, GoalUnanswered, GoalEnded,
                               CancelUnanswered
  <2>2. CASE BeginRotate \/ Rotate
    <3>1. "run" \in Places
      BY DEF Places
    <3> QED  BY <2>2, <3>1 DEF BeginRotate, Rotate
  <2>3. CASE Settle
    <3>1. "inner" \in Places
      BY DEF Places
    <3> QED  BY <2>3, <3>1 DEF Settle
  <2>4. CASE SettleRotates
    <3>1. "begin" \in Places
      BY DEF Places
    <3> QED  BY <2>4, <3>1 DEF SettleRotates
  <2>5. CASE SendGoal
    <3>1. "sent" \in Places
      BY DEF Places
    <3> QED  BY <2>5, <3>1 DEF SendGoal
  <2>6. CASE GoalAnswered
    <3>1. "result" \in Places
      BY DEF Places
    <3> QED  BY <2>6, <3>1 DEF GoalAnswered
  <2>7. CASE GoalTimeout
    <3>1. "cancel" \in Places
      BY DEF Places
    <3> QED  BY <2>7, <3>1 DEF GoalTimeout
  <2> QED  BY <2>1, <2>2, <2>3, <2>4, <2>5, <2>6, <2>7 DEF Executor
<1>3. ex' \in Executions /\ Len(ex'.todo) <= 3
  BY <1>1, <1>2, ExecutorGoesOn
<1>4. said' \in BOOLEAN
  <2>1. \E v : Silent \/ Publish(v)
    BY DEF Executor, Halt, Capture, Drive, BeginRotate, Rotate, Settle, SettleBlind,
         SettleRotates, SendGoal, GoalUnanswered, GoalAnswered, GoalEnded, GoalTimeout,
         CancelUnanswered
  <2> QED  BY <2>1, TaskTypes, PublishedIsSaid
<1>5. nav' \in Navs
  <2>1. UNCHANGED nav \/ nav' = Abandoned \/ nav' = [nav EXCEPT !.asked = "mine"]
    BY DEF Executor, Halt, Capture, Drive, BeginRotate, Rotate, Settle, SettleBlind,
         SettleRotates, SendGoal, GoalUnanswered, GoalAnswered, GoalEnded, GoalTimeout,
         CancelUnanswered
  <2>2. "mine" \in Goals
    BY DEF Goals
  <2> QED  BY <2>1, <2>2, TaskTypes, AbandonedGoals DEF Navs
<1> QED  BY <1>1, <1>3, <1>4, <1>5 DEF TasksTypeOK, Executions, Navs

LEMMA NavTypes == TasksTypeOK /\ (NavAnswers \/ NavEnds) => TasksTypeOK'
<1> SUFFICES ASSUME TasksTypeOK, NavAnswers \/ NavEnds PROVE TasksTypeOK'
  OBVIOUS
<1>1. UNCHANGED <<ex, said>>
  BY DEF NavAnswers, NavEnds
<1>2. "none" \in Goals /\ nav \in Navs
  BY TaskTypes DEF Goals
<1>3. nav' \in Navs
  BY <1>2 DEF NavAnswers, NavEnds, Navs
<1> QED  BY <1>1, <1>3, TaskTypes DEF TasksTypeOK, Executions, Navs

LEMMA TaskTaken ==
  ASSUME TasksTypeOK, NEW task \in Tasks, Take(task)
  PROVE  TasksTypeOK' /\ ~said'
<1> DEFINE no == FALSE
<1>1. PICK p \in Plans(task) : ex' = [todo |-> p, at |-> "begin", end |-> "well"]
  BY DEF Take
<1>2. Doable(p)
  BY TasksAreDoable
<1>3. ex' \in Executions /\ Len(ex'.todo) <= 3
  BY <1>1, <1>2, ReplansFit DEF Replan, Ends
<1>4. said' = no /\ no \in BOOLEAN /\ ~no /\ UNCHANGED nav
  BY DEF Take
<1> HIDE DEF no
<1> QED  BY <1>3, <1>4, TaskTypes DEF TasksTypeOK, Executions, Navs

-----------------------------------------------------------------------------
(* The programs *)

Chats == [program : Programs, at : {"input", "look", "ask", "run", "stopping", "ended"},
          intent : Intents, task : TaskOf]

LEMMA ChatTypes == ChatTypeOK <=> TasksTypeOK /\ chat \in Chats
BY DEF ChatTypeOK, Chats

LEMMA ChatMoves ==
  ASSUME chat \in Chats, NEW place \in {"input", "look", "ask", "run", "stopping", "ended"},
         ChatGoto(place)
  PROVE  chat' \in Chats /\ chat'.at = place /\ chat'.program = chat.program
BY DEF Chats, ChatGoto

LEMMA NothingIsATask == Nothing \in TaskOf /\ [type |-> "stop", dir |-> "ahead"] \in TaskOf
BY DEF Nothing, TaskOf, Tasks, Directions, Lengthwise

\* Whatever the model answers, what it comes to is a task.
LEMMA DecidedIsATask ==
  ASSUME NEW answer \in Answers, NEW intent \in Intents
  PROVE  Decided(answer, intent) \in TaskOf
<1>1. CASE answer.action = "finish"
  BY <1>1, NothingIsATask DEF Decided
<1>2. CASE answer.action # "finish"
  <2>1. answer.action \in Tasks /\ answer.dir \in Directions /\ answer.task \in TaskOf
    BY <1>2, NothingIsATask DEF Answers
  <2>2. TaskGiven(answer) \in TaskOf
    BY <2>1 DEF TaskGiven, TaskOf
  <2>3. CASE intent = "open"
    BY <1>2, <2>2, <2>3 DEF Decided
  <2>4. CASE intent # "open"
    <3> DEFINE dir == IF intent \in Directions THEN intent ELSE "ahead"
    <3>1. ActionOf(intent) \in Tasks
      BY <2>4 DEF ActionOf, Intents, Tasks
    <3>2. dir \in Directions
      BY DEF Directions, Lengthwise
    <3>3. [type |-> ActionOf(intent), dir |-> dir] \in TaskOf
      BY <3>1, <3>2 DEF TaskOf
    <3>4. Constrained(answer, intent) \in TaskOf
      BY <2>2, <3>3 DEF Constrained
    <3> QED  BY <1>2, <2>4, <3>4 DEF Decided
  <2> QED  BY <2>3, <2>4
<1> QED  BY <1>1, <1>2

LEMMA ChatInitInv == ChatInit => ChatInv
<1> SUFFICES ASSUME ChatInit PROVE ChatInv
  OBVIOUS
<1> DEFINE no == FALSE
<1>1. ex = [todo |-> <<>>, at |-> "begin", end |-> "well"] /\ said = no /\ ~no /\ no \in BOOLEAN
      /\ nav = [asked |-> "none", drives |-> "none"]
  BY DEF ChatInit, TasksInit
<1> HIDE DEF no
<1>2. ex \in Executions /\ Len(ex.todo) <= 3 /\ ex.todo = <<>> /\ nav \in Navs
  BY <1>1 DEF Executions, Places, Ends, Navs, Goals
<1>3. TasksTypeOK
  BY <1>1, <1>2, TaskTypes
<1>4. chat \in Chats /\ chat.at = "input"
  BY NothingIsATask DEF ChatInit, Chats, Intents
<1>5. RunsWhatItTook /\ MovesAreCalls
  BY <1>1, <1>2, <1>4 DEF RunsWhatItTook, MovesAreCalls, Busy
<1> QED  BY <1>3, <1>4, <1>5, ChatTypes DEF ChatInv

LEMMA ChatFacts ==
  ASSUME ChatInv
  PROVE  /\ TasksTypeOK /\ chat \in Chats /\ RunsWhatItTook /\ MovesAreCalls
         /\ said \in BOOLEAN /\ ex \in Executions
BY ChatTypes, TaskTypes DEF ChatInv

\* What a step must leave true.
LEMMA ChatGoesOn ==
  ASSUME TasksTypeOK', chat' \in Chats, RunsWhatItTook', MovesAreCalls'
  PROVE  ChatInv'
BY DEF ChatInv, ChatTypeOK, Chats

\* A program moves on between two tasks; it ends only over a stop.
LEMMA ChatMovesOn ==
  ASSUME ChatInv, ~Busy, UNCHANGED taskVars, chat' \in Chats,
         chat.at # "stopping", chat'.at # "ended"
  PROVE  ChatInv'
<1>1. UNCHANGED <<ex, said, nav>> /\ TasksTypeOK'
  BY ChatFacts DEF taskVars, TasksTypeOK
<1>2. ~Busy'
  BY <1>1 DEF Busy
<1>3. said => Excused
  BY ChatFacts DEF MovesAreCalls, Moving, Rotates
<1>4. MovesAreCalls'
  BY <1>1, <1>2, <1>3 DEF MovesAreCalls, Excused
<1> QED  BY <1>1, <1>2, <1>4, ChatGoesOn DEF RunsWhatItTook

\* A program takes a task.
LEMMA ChatTakes ==
  ASSUME TasksTypeOK', chat' \in Chats, chat'.at = "run", ~said'
  PROVE  ChatInv'
BY ChatGoesOn DEF RunsWhatItTook, MovesAreCalls

LEMMA PlaceFacts ==
  ASSUME ChatInv, NEW program, NEW place, In(program, place)
  PROVE  /\ chat.program = program /\ chat.at = place /\ (place # "run" => ~Busy)
         /\ (place # "run" => ex.todo = <<>>)
BY ChatFacts DEF In, RunsWhatItTook, Busy

LEMMA ChatSteps == ChatInv /\ (Hear \/ ChatLooks \/ ChatAsks) => ChatInv'
<1> SUFFICES ASSUME ChatInv, Hear \/ ChatLooks \/ ChatAsks PROVE ChatInv'
  OBVIOUS
<1>1. CASE Hear
  <2>3. In("chat", "input") /\ UNCHANGED taskVars
    BY <1>1 DEF Hear, Still
  <2>1. chat.at = "input" /\ ~Busy
    BY <2>3, PlaceFacts
  <2>2. chat' \in Chats /\ chat'.at # "ended"
    <3>1. CASE ChatGoto("stopping")
      BY <3>1, ChatMoves, ChatFacts
    <3>2. ASSUME NEW i \in Intents, chat' = [chat EXCEPT !.at = "look", !.intent = i]
          PROVE  chat' \in Chats /\ chat'.at # "ended"
      BY <3>2, ChatFacts DEF Chats
    <3> QED  BY <1>1, <3>1, <3>2 DEF Hear
  <2> QED  BY <2>1, <2>2, <2>3, ChatMovesOn
<1>2. CASE ChatLooks
  <2>1. chat.at = "look" /\ ~Busy /\ UNCHANGED taskVars
    BY <1>2, PlaceFacts DEF ChatLooks, Still
  <2>2. PICK place \in {"ask", "stopping"} : ChatGoto(place)
    BY <1>2 DEF ChatLooks
  <2>3. chat' \in Chats /\ chat'.at = place
    BY <2>2, ChatMoves, ChatFacts
  <2> QED  BY <2>1, <2>3, ChatMovesOn
<1>3. CASE ChatAsks
  <2>2. PICK t \in {Decided(a, chat.intent) : a \in Answers} \cup {[type |-> "stop", dir |-> "ahead"]} :
          chat' = [chat EXCEPT !.at = "run", !.task = t] /\ Take(t.type)
    BY <1>3 DEF ChatAsks
  <2>3. chat.intent \in Intents
    BY ChatFacts DEF Chats
  <2>4. t \in TaskOf
    BY <2>2, <2>3, DecidedIsATask, NothingIsATask
  <2>5. t.type \in Tasks
    BY <2>4 DEF TaskOf
  <2>6. TasksTypeOK' /\ ~said'
    BY <2>2, <2>5, TaskTaken, ChatFacts
  <2>7. chat' \in Chats /\ chat'.at = "run"
    BY <2>2, <2>4, ChatFacts DEF Chats
  <2> QED  BY <2>6, <2>7, ChatTakes
<1> QED  BY <1>1, <1>2, <1>3

\* The short tasks of the agent and of the keyboard.
LEMMA ShortTask ==
  ASSUME ChatInv, ChatGoto("run"),
         \/ Take("stop")
         \/ Plan(<<"drive">>) /\ UNCHANGED <<said, nav>>
  PROVE  ChatInv'
<1>1. chat' \in Chats /\ chat'.at = "run"
  BY ChatMoves, ChatFacts
<1>2. CASE Take("stop")
  <2>1. TasksTypeOK' /\ ~said'
    BY <1>2, TaskTaken, ChatFacts DEF Tasks
  <2> QED  BY <1>1, <2>1, ChatTakes
<1>3. CASE Plan(<<"drive">>) /\ UNCHANGED <<said, nav>>
  <2>1. ex' \in Executions /\ Len(ex'.todo) <= 3 /\ ex'.todo = <<"drive">>
    BY <1>3, DoablePlans, PlansFit, ChatFacts
  <2>2. TasksTypeOK'
    BY <1>3, <2>1, TaskTypes, ChatFacts DEF TasksTypeOK, Executions, Navs
  <2>3. Head(<<"drive">>) = "drive" /\ <<"drive">> # <<>>
    OBVIOUS
  <2>4. MovesAreCalls'
    BY <2>1, <2>3 DEF MovesAreCalls, Moving, Busy
  <2> QED  BY <1>1, <2>2, <2>4, ChatGoesOn DEF RunsWhatItTook
<1> QED  BY <1>2, <1>3

\* The call is given up: the executor has a stop to do, or nothing.
LEMMA CallGivenUp ==
  ASSUME ChatInv, NEW calls \in {<<>>, <<"halt">>}, NEW end \in Ends, Broken(calls, end),
         chat' \in Chats,
         \/ calls = <<"halt">> /\ chat'.at = "run"
         \/ calls = <<>> /\ (chat'.at = "stopping" \/ end \in {"raised", "signalled", "killed"})
  PROVE  ChatInv'
<1>1. Replan(calls, end) /\ nav' = Abandoned /\ UNCHANGED said
  BY DEF Broken, Silent
<1>2. Doable(calls)
  BY DoablePlans
<1>3. ex' \in Executions /\ Len(ex'.todo) <= 3 /\ ex'.todo = calls /\ ex'.end = end
  BY <1>1, <1>2, ReplansFit
<1>4. nav' \in Navs /\ said' \in BOOLEAN
  BY <1>1, AbandonedGoals, ChatFacts
<1>5. TasksTypeOK'
  BY <1>3, <1>4 DEF TasksTypeOK, Executions, Navs
<1>6. Head(<<"halt">>) = "halt" /\ <<"halt">> # <<>>
  OBVIOUS
<1>7. RunsWhatItTook' /\ MovesAreCalls'
  BY <1>3, <1>6 DEF RunsWhatItTook, MovesAreCalls, Moving, Excused, Busy
<1> QED  BY <1>5, <1>7, ChatGoesOn

LEMMA AgentSteps == ChatInv /\ (AgentActs \/ AgentLooks \/ TeleopActs) => ChatInv'
<1> SUFFICES ASSUME ChatInv, AgentActs \/ AgentLooks \/ TeleopActs PROVE ChatInv'
  OBVIOUS
<1>1. chat.at \in {"input", "look"} /\ ~Busy
  BY PlaceFacts DEF AgentActs, AgentLooks, TeleopActs
<1>2. CASE Still /\ \E place \in {"stopping", "look", "input"} : ChatGoto(place)
  <2>1. PICK place \in {"stopping", "look", "input"} : ChatGoto(place)
    BY <1>2
  <2>2. chat' \in Chats /\ chat'.at # "ended"
    BY <2>1, ChatMoves, ChatFacts
  <2> QED  BY <1>1, <1>2, <2>2, ChatMovesOn DEF Still
<1>3. CASE ChatGoto("run") /\ (Take("stop") \/ (Plan(<<"drive">>) /\ UNCHANGED <<said, nav>>))
  BY <1>3, ShortTask
<1>4. CASE ChatGoto("ended") /\ Broken(<<>>, "raised")
  <2>1. chat' \in Chats
    BY <1>4, ChatMoves, ChatFacts
  <2> QED  BY <1>4, <2>1, CallGivenUp DEF Ends
<1> QED  BY <1>2, <1>3, <1>4 DEF AgentActs, AgentLooks, TeleopActs

LEMMA TaskReturns == ChatInv /\ TaskEnds => ChatInv'
<1> SUFFICES ASSUME ChatInv, TaskEnds PROVE ChatInv'
  OBVIOUS
<1>1. chat.at = "run" /\ ~Busy /\ UNCHANGED taskVars /\ ChatGoto("input")
  BY DEF TaskEnds, Still
<1>2. chat' \in Chats /\ chat'.at = "input"
  BY <1>1, ChatMoves, ChatFacts
<1> QED  BY <1>1, <1>2, ChatMovesOn

LEMMA TaskBroken == ChatInv /\ (CallRaises \/ Signalled \/ Killed) => ChatInv'
<1> SUFFICES ASSUME ChatInv, CallRaises \/ Signalled \/ Killed PROVE ChatInv'
  OBVIOUS
<1>1. CASE chat.at = "run" /\ TaskRaises /\ UNCHANGED chat
  BY <1>1, ChatFacts, CallGivenUp DEF TaskRaises, Ends
<1>2. CASE ChatGoto("stopping") /\ \E end \in {"failed", "signalled"} : Broken(<<>>, end)
  <2>1. PICK end \in {"failed", "signalled"} : Broken(<<>>, end)
    BY <1>2
  <2>2. chat' \in Chats /\ chat'.at = "stopping"
    BY <1>2, ChatMoves, ChatFacts
  <2> QED  BY <2>1, <2>2, CallGivenUp DEF Ends
<1>3. CASE ChatGoto("ended") /\ \E end \in {"raised", "killed"} : Broken(<<>>, end)
  <2>1. PICK end \in {"raised", "killed"} : Broken(<<>>, end)
    BY <1>3
  <2>2. chat' \in Chats
    BY <1>3, ChatMoves, ChatFacts
  <2> QED  BY <2>1, <2>2, CallGivenUp DEF Ends
<1> QED  BY <1>1, <1>2, <1>3 DEF CallRaises, Signalled, Killed

\* The end over a stop, which publishes unless the context is down.
LEMMA EndOfProgram == ChatInv /\ ProgramEnds => ChatInv'
<1> SUFFICES ASSUME ChatInv, ProgramEnds PROVE ChatInv'
  OBVIOUS
<1>1. chat.at = "stopping" /\ ChatGoto("ended") /\ UNCHANGED <<ex, nav>>
  BY DEF ProgramEnds, StopsFirst
<1>2. chat' \in Chats
  BY <1>1, ChatMoves, ChatFacts
<1>3. said' \in BOOLEAN /\ (said' => ex.end = "signalled")
  BY ChatFacts DEF ProgramEnds, StopsFirst, Publish, Silent
<1>4. ~Busy'
  BY <1>1, ChatFacts DEF RunsWhatItTook, Busy
<1>5. TasksTypeOK'
  BY <1>1, <1>3, ChatFacts DEF TasksTypeOK
<1>6. MovesAreCalls'
  BY <1>1, <1>3, <1>4 DEF MovesAreCalls, Excused
<1> QED  BY <1>2, <1>4, <1>5, <1>6, ChatGoesOn DEF RunsWhatItTook

LEMMA ProgramBegins == ChatInv /\ Begins => ChatInv'
<1> SUFFICES ASSUME ChatInv, Begins PROVE ChatInv'
  OBVIOUS
<1> DEFINE no == FALSE
<1>1. PICK p \in Programs : chat' = [program |-> p, at |-> "input", intent |-> "open", task |-> Nothing]
  BY DEF Begins
<1>2. chat.at = "ended" /\ ex' = [ex EXCEPT !.end = "well"] /\ said' = no /\ no \in BOOLEAN /\ ~no
      /\ UNCHANGED nav
  BY DEF Begins
<1> HIDE DEF no
<1>3. chat' \in Chats
  BY <1>1, NothingIsATask DEF Chats, Intents
<1>4. ex.todo = <<>>
  BY <1>2, ChatFacts DEF RunsWhatItTook, Busy
<1>5. ex' \in Executions /\ ex'.todo = <<>> /\ Len(ex'.todo) <= 3
  BY <1>2, <1>4, ChatFacts DEF Executions, Ends
<1>6. TasksTypeOK'
  BY <1>2, <1>5, ChatFacts DEF TasksTypeOK, Executions
<1> QED  BY <1>2, <1>3, <1>5, <1>6, ChatGoesOn DEF RunsWhatItTook, MovesAreCalls, Busy

\* A call that publishes ends with a zero, but for the settling turn that finds no pose;
\* the others publish nothing and were begun at rest.
LEMMA CallsEndAtRest ==
  ASSUME ChatInv, Executor, chat.at = "run", UNCHANGED chat
  PROVE  MovesAreCalls'
<1> SUFFICES ASSUME said' PROVE Moving' \/ (~Busy' /\ Excused')
  BY DEF MovesAreCalls
<1>1. ~Publish("rest")
  BY DEF Publish
<1>2. CASE Drive
  BY <1>1, <1>2 DEF Drive, Moving, Busy
<1>3. CASE Rotate
  BY <1>1, <1>3 DEF Rotate, Moving, Rotates, Busy
<1>4. CASE Settle \/ SettleRotates
  <2>1. UNCHANGED ex \/ Goto("inner")
    BY <1>1, <1>4 DEF Settle, SettleRotates
  <2>2. ex'.todo = ex.todo
    BY <2>1, ChatFacts DEF Goto, Executions
  <2> QED  BY <1>4, <2>2 DEF Settle, SettleRotates, At, Moving, Busy
<1>5. CASE SettleBlind
  BY <1>5 DEF SettleBlind, Replan, Busy, Excused
<1>6. CASE Capture \/ BeginRotate \/ SendGoal \/ GoalUnanswered \/ GoalAnswered \/ GoalEnded
           \/ GoalTimeout \/ CancelUnanswered
  <2>1. UNCHANGED said
    BY <1>6 DEF Capture, BeginRotate, SendGoal, GoalUnanswered, GoalAnswered, GoalEnded,
                GoalTimeout, CancelUnanswered, Silent
  <2>2. Busy /\ ~Moving
    BY <1>6 DEF Capture, BeginRotate, SendGoal, GoalUnanswered, GoalAnswered, GoalEnded,
                GoalTimeout, CancelUnanswered, At, Rotates, Moving
  <2> QED  BY <2>1, <2>2, ChatFacts DEF MovesAreCalls
<1> QED  BY <1>1, <1>2, <1>3, <1>4, <1>5, <1>6 DEF Executor, Halt

LEMMA TaskSteps == ChatInv /\ Executor /\ UNCHANGED chat => ChatInv'
<1> SUFFICES ASSUME ChatInv, Executor, UNCHANGED chat PROVE ChatInv'
  OBVIOUS
<1>1. TasksTypeOK' /\ Busy
  BY ExecutorTypes, ChatFacts
<1>2. chat.at = "run"
  BY <1>1, ChatFacts DEF RunsWhatItTook
<1>3. MovesAreCalls'
  BY <1>2, CallsEndAtRest
<1> QED  BY <1>1, <1>2, <1>3, ChatFacts, ChatGoesOn DEF RunsWhatItTook

LEMMA NavSteps == ChatInv /\ (NavAnswers \/ NavEnds) /\ UNCHANGED chat => ChatInv'
<1> SUFFICES ASSUME ChatInv, NavAnswers \/ NavEnds, UNCHANGED chat PROVE ChatInv'
  OBVIOUS
<1>1. TasksTypeOK' /\ UNCHANGED <<ex, said>>
  BY NavTypes, ChatFacts DEF NavAnswers, NavEnds
<1>2. RunsWhatItTook' /\ MovesAreCalls'
  BY <1>1, ChatFacts DEF RunsWhatItTook, MovesAreCalls, Moving, Excused, Rotates, Busy
<1> QED  BY <1>1, <1>2, ChatFacts, ChatGoesOn

LEMMA ChatNextInv == ChatInv /\ [ChatStep]_chatVars => ChatInv'
<1>1. CASE UNCHANGED chatVars
  BY <1>1 DEF chatVars, taskVars, ChatInv, ChatTypeOK, TasksTypeOK, RunsWhatItTook, MovesAreCalls,
              Moving, Excused, Rotates, Busy
<1> QED  BY <1>1, ChatSteps, AgentSteps, TaskReturns, TaskBroken, EndOfProgram, ProgramBegins,
            TaskSteps, NavSteps DEF ChatStep

-----------------------------------------------------------------------------
(* The theorems about the programs *)

\* The executor has a call to make only while a program waits for it, and a velocity that
\* is not zero stands only during a call that publishes (TaskExecutor.execute, AgentRunner).
THEOREM ChatInvariant == ChatSpec => []ChatInv
<1> QED  BY ChatInitInv, ChatNextInv, PTL DEF ChatSpec

\* Whatever the model answers and whichever call fails, times out or raises, the robot was
\* told to rest when a program does something else or has ended, but for a settling turn
\* without a pose, an exception nobody catches, a key and a kill.
THEOREM TasksLeaveRest == ChatSpec => []RestsBetweenTasks
<1>1. ChatInv => RestsBetweenTasks
  BY DEF ChatInv, ChatTypeOK, RunsWhatItTook, MovesAreCalls, Moving, Excused, Rotates,
         RestsBetweenTasks
<1> QED  BY <1>1, ChatInvariant, PTL

-----------------------------------------------------------------------------
(* The touch screen: ScreenController, ExpressionService *)

(***************************************************************************)
(* The Wi-Fi page is right, or the event it sent when it was entered is    *)
(* still unread.  The controller writes only what its cache does not hold, *)
(* so the cache of the page that is up must hold what the screen shows, or *)
(* nothing (CacheIsTrue).                                                  *)
(*                                                                         *)
(* An unread event of the face page tells the face that is shown, unless a *)
(* later one is unread too (FaceTold): so when the last of them is read,   *)
(* the controller compares what is shown.  Until then the requests may     *)
(* come and go, and a write of sys2 that does not reload the page leaves   *)
(* the face as it is.                                                      *)
(*                                                                         *)
(* An operation is in one of the two queues of its worker, once.           *)
(***************************************************************************)
Operations == {"scan", "status", "connect", "disconnect", "pair", "devices",
               "connected_addresses"}

Once(s) == \A i, j \in 1..Len(s) : s[i] = s[j] => i = j

WorkInv(w) ==
  /\ w \in [pending : SUBSET Operations, jobs : Seq(Operations), results : Seq(Operations)]
  /\ Once(w.jobs) /\ Once(w.results) /\ Range(w.jobs) \cap Range(w.results) = {}
  /\ w.pending = Range(w.jobs) \cup Range(w.results)

ListInv(l) ==
  /\ l = [items |-> l.items, selected |-> l.selected, page |-> l.page]
  /\ l.items \in Seq(Names) /\ l.page \in Nat

ManagerInv(m) ==
  m = [requests |-> m.requests, default |-> m.default, current |-> m.current, source |-> m.source]

ScreenShape(s) ==
  /\ s = [open |-> s.open, page |-> s.page, touches |-> s.touches, cache |-> s.cache,
          tft |-> s.tft, var |-> s.var, face |-> s.face, rows |-> s.rows]
  /\ s.touches \in Seq(Range(s.touches))
  /\ s.tft = "wifi" => radio = "wifi"

CacheIsTrue(s) == \A i \in Slots : s.cache[i] \in {s.rows[i], Unknown}

RowsHold(s, l) ==
  s.open /\ s.tft = "wifi" =>
    \/ s.rows = RowsOf(l) /\ CacheIsTrue(s)
    \/ \E e \in Range(s.touches) : e.kind = "wifi"

\* The events after the i-th.
Later(s, i) == {s.touches[j] : j \in (i + 1)..Len(s.touches)}

FaceTold(s) ==
  \A i \in 1..Len(s.touches) :
    s.touches[i].kind = "face" =>
      s.touches[i].face = s.face \/ \E e \in Later(s, i) : e.kind = "face"

Told(s) == s.open /\ s.tft = "face" => FaceTold(s)

FaceIsHeld(s, m) ==
  /\ Told(s)
  /\ s.open /\ s.tft = "face" /\ s.page = "face" /\ NoSync(s) /\ m.requests # <<>> =>
       s.face = m.current

Fits(s, m, l) == ScreenShape(s) /\ RowsHold(s, l) /\ FaceIsHeld(s, m)

ScreenInv == WorkInv(work) /\ ListInv(list) /\ ManagerInv(mgr) /\ Fits(scr, mgr, list)

-----------------------------------------------------------------------------
(* Sequences *)

LEMMA Ranges ==
  ASSUME NEW S, NEW s \in Seq(S)
  PROVE  /\ Range(s) = {s[i] : i \in 1..Len(s)} /\ Range(s) \subseteq S
         /\ s \in Seq(Range(s)) /\ Len(s) \in Nat
<1>1. Len(s) \in Nat /\ s \in [1..Len(s) -> S] /\ DOMAIN s = 1..Len(s)
  BY LenProperties
<1>2. Range(s) = {s[i] : i \in 1..Len(s)} /\ Range(s) \subseteq S
  BY <1>1 DEF Range
<1>3. s \in [1..Len(s) -> Range(s)]
  BY <1>1, <1>2
<1>4. s \in Seq(Range(s))
  BY <1>1, <1>3, SeqDef
<1> QED  BY <1>1, <1>2, <1>4

LEMMA AppendRange ==
  ASSUME NEW S, NEW s \in Seq(S), NEW e
  PROVE  /\ Range(Append(s, e)) = Range(s) \cup {e}
         /\ Append(s, e) \in Seq(S \cup {e}) /\ Append(s, e) \in Seq(Range(Append(s, e)))
         /\ Len(Append(s, e)) = Len(s) + 1
<1>1. s \in Seq(S \cup {e})
  BY SeqMonotonic
<1>2. /\ Append(s, e) \in Seq(S \cup {e}) /\ Len(Append(s, e)) = Len(s) + 1 /\ Len(s) \in Nat
      /\ \A i \in 1..Len(s) : Append(s, e)[i] = s[i]
      /\ Append(s, e)[Len(s) + 1] = e
  BY <1>1, LenProperties
<1>3. Range(s) = {s[i] : i \in 1..Len(s)}
  BY Ranges
<1>4. Range(Append(s, e)) = {Append(s, e)[i] : i \in 1..(Len(s) + 1)}
  BY <1>2, Ranges
<1>5. 1..(Len(s) + 1) = 1..Len(s) \cup {Len(s) + 1}
  BY <1>2
<1>6. Range(Append(s, e)) = Range(s) \cup {e}
  BY <1>2, <1>3, <1>4, <1>5
<1>7. Append(s, e) \in Seq(Range(Append(s, e)))
  BY <1>2, Ranges
<1> QED  BY <1>2, <1>6, <1>7

LEMMA TailRange ==
  ASSUME NEW S, NEW s \in Seq(S), s # <<>>
  PROVE  /\ Range(s) = Range(Tail(s)) \cup {Head(s)}
         /\ Tail(s) \in Seq(S) /\ Tail(s) \in Seq(Range(Tail(s)))
         /\ Len(s) \in Nat \ {0} /\ Len(Tail(s)) = Len(s) - 1 /\ Head(s) = s[1]
         /\ \A i \in 1..(Len(s) - 1) : Tail(s)[i] = s[i + 1]
<1>1. /\ Tail(s) \in Seq(S) /\ Len(Tail(s)) = Len(s) - 1 /\ Len(s) \in Nat \ {0} /\ Head(s) = s[1]
      /\ \A i \in 1..(Len(s) - 1) : Tail(s)[i] = s[i + 1]
  BY HeadTailProperties, EmptySeq
<1>2. Range(s) = {s[i] : i \in 1..Len(s)} /\ Range(Tail(s)) = {Tail(s)[i] : i \in 1..(Len(s) - 1)}
      /\ Tail(s) \in Seq(Range(Tail(s)))
  BY <1>1, Ranges
<1>3. ASSUME NEW e \in Range(s) PROVE e \in Range(Tail(s)) \cup {Head(s)}
  <2>1. PICK i \in 1..Len(s) : e = s[i]
    BY <1>2, <1>3
  <2>2. CASE i = 1
    BY <1>1, <2>1, <2>2
  <2>3. CASE i # 1
    <3>1. i - 1 \in 1..(Len(s) - 1) /\ (i - 1) + 1 = i
      BY <1>1, <2>1, <2>3
    <3>2. Tail(s)[i - 1] = e
      BY <1>1, <2>1, <3>1
    <3> QED  BY <1>2, <3>1, <3>2
  <2> QED  BY <2>2, <2>3
<1>4. ASSUME NEW e \in Range(Tail(s)) \cup {Head(s)} PROVE e \in Range(s)
  <2>1. CASE e = Head(s)
    <3>1. 1 \in 1..Len(s)
      BY <1>1
    <3> QED  BY <1>1, <1>2, <2>1, <3>1
  <2>2. CASE e \in Range(Tail(s))
    <3>1. PICK i \in 1..(Len(s) - 1) : e = Tail(s)[i]
      BY <1>2, <2>2
    <3>2. e = s[i + 1] /\ i + 1 \in 1..Len(s)
      BY <1>1, <3>1
    <3> QED  BY <1>2, <3>2
  <2> QED  BY <1>4, <2>1, <2>2
<1> QED  BY <1>1, <1>2, <1>3, <1>4

LEMMA NothingInRange == Range(<<>>) = {} /\ \A S : <<>> \in Seq(S)
<1>1. <<>> \in Seq({}) /\ Len(<<>>) = 0
  BY EmptySeq
<1>2. Range(<<>>) = {<<>>[i] : i \in 1..0}
  BY <1>1, Ranges
<1>3. 1..0 = {}
  OBVIOUS
<1> QED  BY <1>2, <1>3, EmptySeq

LEMMA AppendOnce ==
  ASSUME NEW S, NEW s \in Seq(S), Once(s), NEW e, e \notin Range(s)
  PROVE  Once(Append(s, e))
<1>1. /\ Len(Append(s, e)) = Len(s) + 1 /\ Len(s) \in Nat
      /\ \A i \in 1..Len(s) : Append(s, e)[i] = s[i] /\ s[i] # e
      /\ Append(s, e)[Len(s) + 1] = e
  <2>1. s \in Seq(S \cup {e})
    BY SeqMonotonic
  <2> QED  BY <2>1, Ranges, AppendRange, LenProperties
<1> SUFFICES ASSUME NEW i \in 1..(Len(s) + 1), NEW j \in 1..(Len(s) + 1),
                    Append(s, e)[i] = Append(s, e)[j]
             PROVE  i = j
  BY <1>1 DEF Once
<1>2. CASE i \in 1..Len(s) /\ j \in 1..Len(s)
  BY <1>1, <1>2 DEF Once
<1>3. CASE i = Len(s) + 1 \/ j = Len(s) + 1
  <2>1. i \in 1..Len(s) \/ i = Len(s) + 1
    BY <1>1
  <2>2. j \in 1..Len(s) \/ j = Len(s) + 1
    BY <1>1
  <2> QED  BY <1>1, <1>3, <2>1, <2>2
<1> QED  BY <1>1, <1>2, <1>3

LEMMA TailOnce ==
  ASSUME NEW S, NEW s \in Seq(S), Once(s), s # <<>>
  PROVE  Once(Tail(s)) /\ Range(Tail(s)) = Range(s) \ {Head(s)}
<1>1. /\ Range(s) = Range(Tail(s)) \cup {Head(s)} /\ Len(s) \in Nat \ {0}
      /\ Len(Tail(s)) = Len(s) - 1 /\ Head(s) = s[1] /\ Tail(s) \in Seq(S)
      /\ \A i \in 1..(Len(s) - 1) : Tail(s)[i] = s[i + 1]
  BY TailRange
<1>2. Once(Tail(s))
  <2> SUFFICES ASSUME NEW i \in 1..(Len(s) - 1), NEW j \in 1..(Len(s) - 1), Tail(s)[i] = Tail(s)[j]
               PROVE  i = j
    BY <1>1 DEF Once
  <2>1. s[i + 1] = s[j + 1] /\ i + 1 \in 1..Len(s) /\ j + 1 \in 1..Len(s)
    BY <1>1
  <2> QED  BY <2>1, <1>1 DEF Once
<1>3. Head(s) \notin Range(Tail(s))
  <2> SUFFICES ASSUME Head(s) \in Range(Tail(s)) PROVE FALSE
    OBVIOUS
  <2>1. Range(Tail(s)) = {Tail(s)[i] : i \in 1..(Len(s) - 1)}
    BY <1>1, Ranges
  <2>2. PICK i \in 1..(Len(s) - 1) : Head(s) = Tail(s)[i]
    BY <2>1
  <2>3. s[1] = s[i + 1] /\ 1 \in 1..Len(s) /\ i + 1 \in 1..Len(s)
    BY <1>1, <2>2
  <2>4. 1 = i + 1
    BY <2>3 DEF Once
  <2> QED  BY <1>1, <2>2, <2>4
<1> QED  BY <1>1, <1>2, <1>3

LEMMA CardinalityOfOnce ==
  ASSUME NEW S, NEW s \in Seq(S), Once(s)
  PROVE  IsFiniteSet(Range(s)) /\ Cardinality(Range(s)) = Len(s)
<1>1. Len(s) \in Nat /\ s \in [1..Len(s) -> Range(s)] /\ DOMAIN s = 1..Len(s)
      /\ Range(s) = {s[i] : i \in 1..Len(s)}
  BY Ranges, LenProperties
<1>2. s \in Injection(1..Len(s), Range(s))
  BY <1>1 DEF Injection, IsInjective, Once
<1>3. s \in Surjection(1..Len(s), Range(s))
  BY <1>1 DEF Surjection
<1>4. IsFiniteSet(1..Len(s)) /\ Cardinality(1..Len(s)) = Len(s)
  <2> DEFINE n == Len(s)
  <2>1. n \in Int /\ n >= 0 /\ 1 \in Int
    BY <1>1
  <2> HIDE DEF n
  <2>2. IsFiniteSet(1..n) /\ Cardinality(1..n) = IF 1 > n THEN 0 ELSE n - 1 + 1
    BY <2>1, FS_Interval
  <2>3. (IF 1 > n THEN 0 ELSE n - 1 + 1) = n
    BY <2>1
  <2> QED  BY <2>2, <2>3 DEF n
<1> DEFINE places == 1..Len(s)
<1> HIDE DEF places
<1>5. /\ IsFiniteSet(Range(s))
      /\ Cardinality(Range(s)) = Cardinality(places) <=> s \in Injection(places, Range(s))
  <2>1. IsFiniteSet(places) /\ s \in Surjection(places, Range(s))
    BY <1>3, <1>4 DEF places
  <2> QED  BY <2>1, FS_Surjection
<1> QED  BY <1>2, <1>4, <1>5 DEF places

-----------------------------------------------------------------------------
(* The workers *)

LEMMA PendingIsTheWork ==
  ASSUME WorkInv(work)
  PROVE  PendingIsWork
<1>1. Cardinality(Range(work.jobs)) = Len(work.jobs) /\ IsFiniteSet(Range(work.jobs))
      /\ Cardinality(Range(work.results)) = Len(work.results) /\ IsFiniteSet(Range(work.results))
  BY CardinalityOfOnce DEF WorkInv
<1>2. Len(work.jobs) \in Nat /\ Len(work.results) \in Nat
  BY Ranges DEF WorkInv
<1>3. Range(work.jobs) \cap Range(work.results) = {} /\ Cardinality({}) = 0
  BY FS_EmptySet DEF WorkInv
<1> DEFINE jobs == Range(work.jobs)
<1> DEFINE results == Range(work.results)
<1>4. IsFiniteSet(jobs) /\ IsFiniteSet(results) /\ Cardinality(jobs \cap results) = 0
      /\ Cardinality(jobs) \in Nat /\ Cardinality(results) \in Nat
  BY <1>1, <1>2, <1>3
<1> HIDE DEF jobs, results
<1>5. Cardinality(jobs \cup results) = Cardinality(jobs) + Cardinality(results) - Cardinality(jobs \cap results)
  BY <1>4, FS_Union
<1>6. Cardinality(jobs \cup results) = Cardinality(jobs) + Cardinality(results)
  BY <1>4, <1>5
<1>7. Cardinality(Range(work.jobs) \cup Range(work.results)) = Len(work.jobs) + Len(work.results)
  BY <1>1, <1>6 DEF jobs, results
<1> QED  BY <1>7 DEF PendingIsWork, WorkInv

LEMMA NoWork == WorkInv(Work0)
<1>1. Once(<<>>)
  BY DEF Once
<1> QED  BY <1>1, NothingInRange DEF WorkInv, Work0

LEMMA SubmittedFits ==
  ASSUME NEW w, WorkInv(w), NEW half, NEW op \in Operations
  PROVE  WorkInv(Submitted(w, half, op))
<1>1. CASE half # radio \/ op \in w.pending
  BY <1>1 DEF Submitted
<1>2. CASE ~(half # radio \/ op \in w.pending)
  <2> DEFINE jobs == Append(w.jobs, op)
  <2> DEFINE pending == w.pending \cup {op}
  <2>1. Submitted(w, half, op) = [w EXCEPT !.pending = pending, !.jobs = jobs]
    BY <1>2 DEF Submitted
  <2>2. w.jobs \in Seq(Operations) /\ op \notin Range(w.jobs) /\ op \notin Range(w.results)
        /\ Once(w.jobs)
    BY <1>2 DEF WorkInv
  <2>3. Range(jobs) = Range(w.jobs) \cup {op} /\ jobs \in Seq(Operations \cup {op}) /\ Once(jobs)
    BY <2>2, AppendRange, AppendOnce
  <2>4. Operations \cup {op} = Operations
    OBVIOUS
  <2>5. jobs \in Seq(Operations) /\ pending \in SUBSET Operations
        /\ pending = Range(jobs) \cup Range(w.results)
    BY <2>3, <2>4 DEF WorkInv
  <2> HIDE DEF jobs, pending
  <2>6. /\ Submitted(w, half, op) \in
             [pending : SUBSET Operations, jobs : Seq(Operations), results : Seq(Operations)]
        /\ Submitted(w, half, op).pending = pending /\ Submitted(w, half, op).jobs = jobs
        /\ Submitted(w, half, op).results = w.results
    BY <2>1, <2>5 DEF WorkInv
  <2> QED  BY <2>2, <2>3, <2>5, <2>6 DEF WorkInv
<1> QED  BY <1>1, <1>2

LEMMA TakenFits ==
  ASSUME WorkInv(work), work.results # <<>>, NEW outcome
  PROVE  WorkInv(Taken(outcome))
<1> DEFINE w == Taken(outcome)
<1> DEFINE rest == Tail(work.results)
<1> DEFINE left == work.pending \ {Head(work.results)}
<1>1. w = [work EXCEPT !.results = rest, !.pending = left]
  BY DEF Taken
<1>2. work.results \in Seq(Operations) /\ Once(work.results)
  BY DEF WorkInv
<1>3. rest \in Seq(Operations) /\ Once(rest) /\ Range(rest) = Range(work.results) \ {Head(work.results)}
      /\ Head(work.results) \in Range(work.results)
  BY <1>2, TailRange, TailOnce
<1>4. left = Range(work.jobs) \cup Range(rest) /\ left \in SUBSET Operations
  BY <1>3 DEF WorkInv
<1> HIDE DEF rest, left, w
<1>5. /\ w \in [pending : SUBSET Operations, jobs : Seq(Operations), results : Seq(Operations)]
      /\ w.pending = left /\ w.jobs = work.jobs /\ w.results = rest
  BY <1>1, <1>3, <1>4 DEF WorkInv
<1>6. Range(work.jobs) \cap Range(rest) = {}
  BY <1>3 DEF WorkInv
<1>7. WorkInv(w)
  BY <1>3, <1>4, <1>5, <1>6 DEF WorkInv
<1> QED  BY <1>7 DEF w

LEMMA WorkerFits == WorkInv(work) /\ WorkerRuns => WorkInv(work')
<1> SUFFICES ASSUME WorkInv(work), WorkerRuns PROVE WorkInv(work')
  OBVIOUS
<1> DEFINE op == Head(work.jobs)
<1> DEFINE rest == Tail(work.jobs)
<1> DEFINE done == Append(work.results, op)
<1>1. work.jobs # <<>> /\ work' = [work EXCEPT !.jobs = rest, !.results = done]
  BY DEF WorkerRuns
<1>2. work.jobs \in Seq(Operations) /\ Once(work.jobs) /\ work.results \in Seq(Operations)
      /\ Once(work.results)
  BY DEF WorkInv
<1>3. rest \in Seq(Operations) /\ Once(rest) /\ Range(rest) = Range(work.jobs) \ {op}
      /\ op \in Range(work.jobs)
  BY <1>1, <1>2, TailRange, TailOnce
<1>4. op \in Operations /\ op \notin Range(work.results)
  BY <1>1, <1>2, <1>3, HeadTailProperties DEF WorkInv
<1>5. Range(done) = Range(work.results) \cup {op} /\ done \in Seq(Operations \cup {op}) /\ Once(done)
  BY <1>2, <1>4, AppendRange, AppendOnce
<1>6. done \in Seq(Operations)
  <2>1. Operations \cup {op} = Operations
    BY <1>4
  <2> QED  BY <1>5, <2>1
<1> HIDE DEF op, rest, done
<1>7. /\ work' \in [pending : SUBSET Operations, jobs : Seq(Operations), results : Seq(Operations)]
      /\ work'.pending = work.pending /\ work'.jobs = rest /\ work'.results = done
  BY <1>1, <1>3, <1>6 DEF WorkInv
<1> QED  BY <1>3, <1>5, <1>7 DEF WorkInv

-----------------------------------------------------------------------------
(* The rows *)

LEMMA SlotFacts == Slots \subseteq Nat /\ PageSize \in Nat \ {0} /\ "unknown" \notin Names
                   /\ NoOne \notin Names
BY ScreenAssumption DEF Slots

OnSlots(rows) == rows = [i \in Slots |-> rows[i]]

\* A row of the list is never one that is unknown.
LEMMA RowsAreKnown ==
  ASSUME NEW l, ListInv(l)
  PROVE  /\ OnSlots(RowsOf(l))
         /\ \A i \in Slots : RowsOf(l)[i] # Unknown
<1>1. OnSlots(RowsOf(l))
  BY DEF RowsOf, OnSlots
<1> SUFFICES ASSUME NEW i \in Slots PROVE RowsOf(l)[i] # Unknown
  BY <1>1
<1> DEFINE k == l.page * PageSize + i + 1
<1>2. l.page \in Nat /\ l.items \in Seq(Names) /\ i \in Nat /\ PageSize \in Nat
  BY SlotFacts DEF ListInv
<1>3. l.page * PageSize \in Nat
  BY <1>2
<1>4. k \in Nat /\ k >= 1
  BY <1>2, <1>3
<1>5. RowsOf(l)[i] = IF k <= Len(l.items) THEN [name |-> l.items[k], marked |-> l.items[k] = l.selected]
                     ELSE Blank
  BY DEF RowsOf
<1> HIDE DEF k
<1>6. CASE k <= Len(l.items)
  <2>1. Len(l.items) \in Nat
    BY <1>2, LenProperties
  <2>2. k \in 1..Len(l.items)
    BY <1>4, <1>6, <2>1
  <2>3. l.items[k] \in Names
    BY <1>2, <2>2, ElementOfSeq
  <2>4. RowsOf(l)[i].name = l.items[k]
    BY <1>5, <1>6
  <2> QED  BY <2>3, <2>4, SlotFacts DEF Unknown
<1>7. CASE ~(k <= Len(l.items))
  <2>1. RowsOf(l)[i].name = NoOne
    BY <1>5, <1>7 DEF Blank
  <2> QED  BY <2>1 DEF Unknown, NoOne
<1> QED  BY <1>6, <1>7

LEMMA LastPageFits ==
  ASSUME NEW items \in Seq(Names)
  PROVE  LastPage(items) \in Nat
<1>1. CASE items = <<>>
  BY <1>1 DEF LastPage
<1>2. CASE items # <<>>
  <2>1. Len(items) \in Nat \ {0}
    BY <1>2, EmptySeq
  <2>2. Len(items) - 1 \in Nat /\ PageSize \in Nat \ {0}
    BY <2>1, SlotFacts
  <2>3. (Len(items) - 1) \div PageSize \in Nat
    BY <2>2
  <2> QED  BY <1>2, <2>3 DEF LastPage
<1> QED  BY <1>1, <1>2

LEMMA ListsAreLists == Lists \subseteq Seq(Names)
<1> SUFFICES ASSUME NEW s \in Lists PROVE s \in Seq(Names)
  OBVIOUS
<1>1. PICK n \in 0..Cardinality(Names) : s \in [1..n -> Names]
  BY DEF Lists
<1>2. Cardinality(Names) \in Nat
  BY ScreenAssumption, FS_CardinalityType
<1>3. n \in Nat
  BY <1>1, <1>2
<1> QED  BY <1>1, <1>3, SeqDef

LEMMA SelectedFits ==
  ASSUME NEW l, ListInv(l), NEW name
  PROVE  ListInv([l EXCEPT !.selected = name])
BY DEF ListInv

LEMMA PagedFits ==
  ASSUME NEW l, ListInv(l), NEW page \in Nat
  PROVE  ListInv([l EXCEPT !.page = page])
BY DEF ListInv

LEMMA ListedFits ==
  ASSUME ListInv(list), NEW items \in Lists
  PROVE  ListInv(Listed(items)) /\ ListInv([Listed(items) EXCEPT !.selected = NoOne])
<1>1. items \in Seq(Names) /\ LastPage(items) \in Nat
  BY ListsAreLists, LastPageFits
<1> DEFINE page == IF list.page <= LastPage(items) THEN list.page ELSE LastPage(items)
<1> DEFINE l == Listed(items)
<1>2. l = [list EXCEPT !.items = items, !.page = page]
  BY DEF Listed
<1>3. page \in Nat
  BY <1>1 DEF ListInv
<1> HIDE DEF page, l
<1>4. l = [items |-> items, selected |-> list.selected, page |-> page]
  BY <1>2 DEF ListInv
<1>5. ListInv(l)
  BY <1>1, <1>3, <1>4 DEF ListInv
<1> QED  BY <1>5, SelectedFits DEF l

-----------------------------------------------------------------------------
(* What happens to the screen *)

LEMMA ShapeFields ==
  ASSUME NEW s, ScreenShape(s)
  PROVE  s.touches \in Seq(Range(s.touches)) /\ (s.tft = "wifi" => radio = "wifi")
BY DEF ScreenShape

\* What the events tell does not depend on the page that the controller notes.
LEMMA PageNoted ==
  ASSUME NEW s, ScreenShape(s), NEW p
  PROVE  LET t == [s EXCEPT !.page = p] IN
           /\ ScreenShape(t) /\ t.open = s.open /\ t.touches = s.touches /\ t.tft = s.tft
           /\ t.cache = s.cache /\ t.face = s.face /\ t.rows = s.rows /\ t.page = p
           /\ t.var = s.var /\ Told(s) => Told(t)
<1> DEFINE t == [s EXCEPT !.page = p]
<1>1. /\ ScreenShape(t) /\ t.open = s.open /\ t.touches = s.touches /\ t.tft = s.tft
      /\ t.cache = s.cache /\ t.face = s.face /\ t.rows = s.rows /\ t.page = p /\ t.var = s.var
  BY DEF ScreenShape
<1> HIDE DEF t
<1>2. Told(s) => Told(t)
  BY <1>1 DEF Told, FaceTold, Later
<1> QED  BY <1>1, <1>2 DEF t

LEMMA ClosedFits ==
  ASSUME NEW s, ScreenShape(s)
  PROVE  LET t == PortClosed(s) IN
           /\ ScreenShape(t) /\ ~t.open /\ t.cache = s.cache /\ t.tft = s.tft
           /\ \A m, l : Fits(t, m, l)
<1> DEFINE no == FALSE
<1> DEFINE t == PortClosed(s)
<1>1. t = [s EXCEPT !.open = no, !.touches = <<>>] /\ ~no
  BY DEF PortClosed
<1> HIDE DEF no, t
<1>2. t = [open |-> no, page |-> s.page, touches |-> <<>>, cache |-> s.cache,
           tft |-> s.tft, var |-> s.var, face |-> s.face, rows |-> s.rows]
  BY <1>1 DEF ScreenShape
<1>3. t.open = no /\ t.touches = <<>> /\ t.tft = s.tft /\ t.cache = s.cache /\ t.page = s.page
      /\ t.face = s.face /\ t.rows = s.rows /\ t.var = s.var
  BY <1>2
<1>4. ScreenShape(t)
  BY <1>2, <1>3, ShapeFields, NothingInRange DEF ScreenShape
<1>5. \A m, l : Fits(t, m, l)
  BY <1>1, <1>3, <1>4 DEF Fits, RowsHold, FaceIsHeld, Told
<1> QED  BY <1>1, <1>3, <1>4, <1>5 DEF t

LEMMA SendsFits ==
  ASSUME NEW s, ScreenShape(s), NEW e
  PROVE  LET t == Sends(s, e) IN
           /\ ScreenShape(t) /\ t.open = s.open /\ t.tft = s.tft /\ t.cache = s.cache
           /\ t.face = s.face /\ t.rows = s.rows /\ t.page = s.page
           /\ s.open => /\ t.touches = Append(s.touches, e)
                        /\ Range(t.touches) = Range(s.touches) \cup {e}
<1>1. CASE s.open
  <2> DEFINE sent == Append(s.touches, e)
  <2> DEFINE t == Sends(s, e)
  <2>1. t = [s EXCEPT !.touches = sent]
    BY <1>1 DEF Sends
  <2>2. Range(sent) = Range(s.touches) \cup {e} /\ sent \in Seq(Range(sent))
    <3>1. s.touches \in Seq(Range(s.touches))
      BY ShapeFields
    <3> QED  BY <3>1, AppendRange
  <2> HIDE DEF sent, t
  <2>3. t = [open |-> s.open, page |-> s.page, touches |-> sent, cache |-> s.cache,
             tft |-> s.tft, var |-> s.var, face |-> s.face, rows |-> s.rows]
    BY <2>1 DEF ScreenShape
  <2>4. t.open = s.open /\ t.touches = sent /\ t.tft = s.tft /\ t.cache = s.cache /\ t.page = s.page
        /\ t.face = s.face /\ t.rows = s.rows /\ t.var = s.var
    BY <2>3
  <2>5. ScreenShape(t)
    BY <2>2, <2>3, <2>4, ShapeFields DEF ScreenShape
  <2> QED  BY <2>2, <2>4, <2>5 DEF t, sent
<1>2. CASE ~s.open
  BY <1>2 DEF Sends
<1> QED  BY <1>1, <1>2

\* An event more: one of the face page tells the face that is shown.
LEMMA MoreIsTold ==
  ASSUME NEW s, ScreenShape(s), NEW t, NEW e, t.touches = Append(s.touches, e),
         \/ e.kind = "face" /\ e.face = t.face
         \/ e.kind # "face" /\ t.face = s.face /\ FaceTold(s)
  PROVE  FaceTold(t)
<1> DEFINE n == Len(s.touches)
<1>1. /\ n \in Nat /\ Len(t.touches) = n + 1 /\ t.touches[n + 1] = e
      /\ \A i \in 1..n : t.touches[i] = s.touches[i]
  <2>1. s.touches \in Seq(Range(s.touches) \cup {e})
    BY ShapeFields, SeqMonotonic
  <2> QED  BY <2>1, LenProperties
<1> HIDE DEF n
<1> SUFFICES ASSUME NEW i \in 1..(n + 1), t.touches[i].kind = "face", t.touches[i].face # t.face
             PROVE  \E f \in Later(t, i) : f.kind = "face"
  BY <1>1 DEF FaceTold
<1>2. CASE i = n + 1
  BY <1>1, <1>2
<1>3. CASE i # n + 1
  <2>1. i \in 1..n /\ t.touches[i] = s.touches[i] /\ n + 1 \in (i + 1)..(n + 1)
    BY <1>1, <1>3
  <2>2. e \in Later(t, i)
    BY <1>1, <2>1 DEF Later
  <2>3. CASE e.kind = "face"
    BY <2>2, <2>3
  <2>4. CASE e.kind # "face"
    <3>1. \E f \in Later(s, i) : f.kind = "face"
      BY <2>1, <2>4 DEF FaceTold, n
    <3>2. PICK j \in (i + 1)..n : s.touches[j].kind = "face"
      BY <3>1 DEF Later, n
    <3>3. j \in 1..n /\ j \in (i + 1)..(n + 1)
      BY <1>1, <2>1, <3>2
    <3>4. t.touches[j] \in Later(t, i) /\ t.touches[j].kind = "face"
      BY <1>1, <3>2, <3>3 DEF Later
    <3> QED  BY <3>4
  <2> QED  BY <2>3, <2>4
<1> QED  BY <1>2, <1>3

\* An event less; when it is the last of the face page, it tells the face that is shown.
LEMMA LessIsTold ==
  ASSUME NEW s, ScreenShape(s), s.touches # <<>>, FaceTold(s), NEW t, t.touches = Tail(s.touches),
         t.face = s.face
  PROVE  /\ FaceTold(t)
         /\ Head(s.touches).kind = "face" /\ NoSync(t) => Head(s.touches).face = s.face
<1> DEFINE n == Len(s.touches)
<1>1. /\ n \in Nat \ {0} /\ Len(t.touches) = n - 1 /\ Head(s.touches) = s.touches[1]
      /\ \A i \in 1..(n - 1) : t.touches[i] = s.touches[i + 1]
      /\ t.touches \in Seq(Range(t.touches))
  <2> DEFINE all == s.touches
  <2>1. all \in Seq(Range(all)) /\ all # <<>>
    BY ShapeFields
  <2> HIDE DEF all
  <2>2. /\ Len(all) \in Nat \ {0} /\ Len(Tail(all)) = Len(all) - 1 /\ Head(all) = all[1]
        /\ \A i \in 1..(Len(all) - 1) : Tail(all)[i] = all[i + 1]
        /\ Tail(all) \in Seq(Range(Tail(all)))
    BY <2>1, TailRange
  <2> QED  BY <2>2 DEF all
<1>2. Range(t.touches) = {t.touches[i] : i \in 1..(n - 1)}
  BY <1>1, Ranges
<1> HIDE DEF n
<1>3. FaceTold(t)
  <2> SUFFICES ASSUME NEW i \in 1..(n - 1), t.touches[i].kind = "face", t.touches[i].face # t.face
               PROVE  \E f \in Later(t, i) : f.kind = "face"
    BY <1>1 DEF FaceTold
  <2>1. i + 1 \in 1..n /\ t.touches[i] = s.touches[i + 1]
    BY <1>1
  <2>2. \E f \in Later(s, i + 1) : f.kind = "face"
    BY <2>1 DEF FaceTold, n
  <2>3. PICK j \in (i + 2)..n : s.touches[j].kind = "face"
    BY <2>2, <1>1 DEF Later, n
  <2>4. j - 1 \in 1..(n - 1) /\ j - 1 \in (i + 1)..(n - 1) /\ (j - 1) + 1 = j
    BY <1>1, <2>1, <2>3
  <2>5. t.touches[j - 1] \in Later(t, i) /\ t.touches[j - 1].kind = "face"
    BY <1>1, <2>3, <2>4 DEF Later
  <2> QED  BY <2>5
<1>4. ASSUME Head(s.touches).kind = "face", NoSync(t)
      PROVE  Head(s.touches).face = s.face
  <2> SUFFICES ASSUME s.touches[1].face # s.face PROVE FALSE
    BY <1>1
  <2>1. 1 \in 1..n
    BY <1>1
  <2>2. \E f \in Later(s, 1) : f.kind = "face"
    BY <1>1, <1>4, <2>1 DEF FaceTold, n
  <2>3. PICK j \in 2..n : s.touches[j].kind = "face"
    BY <2>2 DEF Later, n
  <2>4. j - 1 \in 1..(n - 1) /\ t.touches[j - 1] = s.touches[j]
    BY <1>1, <2>3
  <2>5. t.touches[j - 1] \in Range(t.touches)
    BY <1>2, <2>4
  <2> QED  BY <1>4, <2>3, <2>4, <2>5 DEF NoSync
<1> QED  BY <1>3, <1>4

\* An event more of a button, or of a page without a face, keeps what holds of the screen.
LEMMA EventFits ==
  ASSUME NEW s, NEW m, NEW l, Fits(s, m, l), NEW e, e.kind # "face"
  PROVE  Fits(Sends(s, e), m, l)
<1> DEFINE t == Sends(s, e)
<1>1. ScreenShape(s) /\ RowsHold(s, l) /\ FaceIsHeld(s, m)
  BY DEF Fits
<1>2. /\ ScreenShape(t) /\ t.open = s.open /\ t.tft = s.tft /\ t.cache = s.cache
      /\ t.face = s.face /\ t.rows = s.rows /\ t.page = s.page
      /\ s.open => /\ t.touches = Append(s.touches, e)
                   /\ Range(t.touches) = Range(s.touches) \cup {e}
  BY <1>1, SendsFits
<1> HIDE DEF t
<1>3. RowsHold(t, l)
  BY <1>1, <1>2 DEF RowsHold, CacheIsTrue
<1>4. Told(t)
  <2> SUFFICES ASSUME s.open, s.tft = "face" PROVE FaceTold(t)
    BY <1>2 DEF Told
  <2>1. FaceTold(s)
    BY <1>1 DEF FaceIsHeld, Told
  <2> QED  BY <1>1, <1>2, <2>1, MoreIsTold
<1>5. FaceIsHeld(t, m)
  BY <1>1, <1>2, <1>4 DEF FaceIsHeld, NoSync
<1> QED  BY <1>2, <1>3, <1>5 DEF Fits, t

\* The screen enters a page and says so.
LEMMA EnteredFits ==
  ASSUME NEW s, ScreenShape(s), NEW p, p = "wifi" => radio = "wifi"
  PROVE  LET t == Entered(s, p) IN
           /\ ScreenShape(t) /\ t.tft = p /\ t.open = s.open
           /\ t.cache = s.cache /\ \A m, l : Fits(t, m, l)
<1> DEFINE blank == [i \in DOMAIN s.rows |-> Blank]
<1> DEFINE f == IF p = "face" THEN s.var ELSE NoOne
<1> DEFINE u == [s EXCEPT !.tft = p, !.rows = blank, !.face = f]
<1> DEFINE e == IF p = "face" THEN FaceEvent(s.var) ELSE Event(p)
<1> DEFINE t == Entered(s, p)
<1>1. t = Sends(u, e)
  BY DEF Entered
<1>2. (p = "face" => e.kind = "face" /\ e.face = f) /\ (p = "wifi" => e.kind = "wifi")
  BY DEF FaceEvent, Event
<1> HIDE DEF blank, e, f, t
<1>8. u = [s EXCEPT !.tft = p, !.rows = blank, !.face = f]
  OBVIOUS
<1> HIDE DEF u
<1>3. u = [open |-> s.open, page |-> s.page, touches |-> s.touches, cache |-> s.cache,
           tft |-> p, var |-> s.var, face |-> f, rows |-> blank]
  BY <1>8 DEF ScreenShape
<1>4. u.open = s.open /\ u.touches = s.touches /\ u.tft = p /\ u.cache = s.cache
      /\ u.face = f /\ u.rows = blank /\ u.page = s.page /\ u.var = s.var
  BY <1>3
<1>5. ScreenShape(u)
  BY <1>3, <1>4, ShapeFields DEF ScreenShape
<1>6. /\ ScreenShape(t) /\ t.open = s.open /\ t.tft = p /\ t.cache = s.cache /\ t.face = f
      /\ t.open => /\ t.touches = Append(u.touches, e)
                   /\ Range(t.touches) = Range(s.touches) \cup {e}
  BY <1>1, <1>4, <1>5, SendsFits
<1>7. ASSUME NEW m, NEW l PROVE Fits(t, m, l)
  <2>1. RowsHold(t, l)
    BY <1>2, <1>6 DEF RowsHold
  <2>2. ASSUME t.open, p = "face" PROVE FaceTold(t) /\ ~NoSync(t)
    <3>1. e.kind = "face" /\ e.face = t.face
      BY <1>2, <1>6, <2>2
    <3>2. FaceTold(t)
      BY <1>5, <1>6, <2>2, <3>1, MoreIsTold
    <3> QED  BY <1>6, <2>2, <3>1, <3>2 DEF NoSync
  <2>3. FaceIsHeld(t, m)
    BY <1>6, <2>2 DEF FaceIsHeld, Told
  <2> QED  BY <1>6, <2>1, <2>3 DEF Fits
<1> QED  BY <1>6, <1>7 DEF t

\* A face is written.  If the page is reloaded, the event that tells of it is unread; if it
\* is not, the controller has not noted the face page.  The rows hold as before.
LEMMA AppliedFits ==
  ASSUME NEW s, ScreenShape(s), Told(s), NEW img, NEW force, NEW t \in Applied(s, img, force)
  PROVE  /\ ScreenShape(t) /\ t.cache = s.cache /\ \A m : FaceIsHeld(t, m)
         /\ \A l : RowsHold(s, l) => RowsHold(t, l)
<1> DEFINE reload == force \/ s.page = "face"
<1> DEFINE page == IF reload THEN "face" ELSE s.page
<1> DEFINE noted == [s EXCEPT !.page = page]
<1> DEFINE u == [noted EXCEPT !.var = img]
<1>1. IF s.open THEN t = FaceWritten(noted, img, reload) \/ t = PortClosed(noted) \/ t = PortClosed(u)
      ELSE t = noted
  BY DEF Applied
<1>2. /\ ScreenShape(noted) /\ noted.open = s.open /\ noted.touches = s.touches
      /\ noted.tft = s.tft /\ noted.cache = s.cache /\ noted.face = s.face /\ noted.rows = s.rows
      /\ noted.page = page
  BY PageNoted
<1>6. ~reload => page # "face"
  OBVIOUS
<1>7. FaceWritten(noted, img, reload) = IF reload THEN Entered(u, "face") ELSE u
  BY DEF FaceWritten
<1> HIDE DEF noted, page, reload
<1>8. u = [open |-> s.open, page |-> page, touches |-> s.touches, cache |-> s.cache,
           tft |-> s.tft, var |-> img, face |-> s.face, rows |-> s.rows]
  BY <1>2 DEF ScreenShape
<1> HIDE DEF u
<1>9. u.open = s.open /\ u.touches = s.touches /\ u.tft = s.tft /\ u.cache = s.cache
      /\ u.face = s.face /\ u.rows = s.rows /\ u.page = page /\ u.var = img
  BY <1>8
<1>10. ScreenShape(u)
  BY <1>8, <1>9, ShapeFields DEF ScreenShape
<1>3. CASE ~s.open
  <2>1. t = noted /\ ~t.open
    BY <1>1, <1>2, <1>3
  <2> QED  BY <1>2, <2>1 DEF RowsHold, FaceIsHeld, Told
<1>4. CASE t = PortClosed(noted) \/ t = PortClosed(u)
  BY <1>2, <1>4, <1>9, <1>10, ClosedFits DEF Fits
<1>5. CASE t = FaceWritten(noted, img, reload)
  <2>1. CASE reload
    <3>1. ScreenShape(t) /\ t.cache = s.cache /\ \A m, l : Fits(t, m, l)
      BY <1>5, <1>7, <1>9, <1>10, <2>1, EnteredFits
    <3> QED  BY <3>1 DEF Fits
  <2>2. CASE ~reload
    <3>1. t = u /\ t.page # "face"
      BY <1>5, <1>6, <1>7, <1>9, <2>2
    <3>2. Told(t)
      BY <1>9, <3>1 DEF Told, FaceTold, Later
    <3>3. \A m : FaceIsHeld(t, m)
      BY <3>1, <3>2 DEF FaceIsHeld
    <3> QED  BY <1>9, <1>10, <3>1, <3>3 DEF RowsHold, CacheIsTrue
  <2> QED  BY <2>1, <2>2
<1> QED  BY <1>1, <1>3, <1>4, <1>5

-----------------------------------------------------------------------------
(* The manager of the face *)

LEMMA RefreshedFits ==
  ASSUME NEW m, ManagerInv(m), NEW requests
  PROVE  /\ ManagerInv(Refreshed(m, requests)) /\ Refreshed(m, requests).requests = requests
         /\ requests # <<>> => Refreshed(m, requests).source = Winner(requests).source
<1> DEFINE expression == IF requests = <<>> THEN m.default ELSE Winner(requests).face
<1> DEFINE source == IF requests = <<>> THEN NoOne ELSE Winner(requests).source
<1> DEFINE n == Refreshed(m, requests)
<1>1. n = [m EXCEPT !.requests = requests, !.current = expression, !.source = source]
  BY DEF Refreshed
<1>2. requests # <<>> => source = Winner(requests).source
  OBVIOUS
<1> HIDE DEF expression, source, n
<1>3. n = [requests |-> requests, default |-> m.default, current |-> expression, source |-> source]
  BY <1>1 DEF ManagerInv
<1>4. n.requests = requests /\ n.default = m.default /\ n.current = expression /\ n.source = source
  BY <1>3
<1> QED  BY <1>2, <1>3, <1>4 DEF ManagerInv, n

\* The only request there is wins.
LEMMA OnlyRequestWins ==
  ASSUME NEW r
  PROVE  Append(<<>>, r) # <<>> /\ Winner(Append(<<>>, r)) = r
<1> DEFINE only == Append(<<>>, r)
<1>1. only = <<r>> /\ only # <<>> /\ DOMAIN only = {1} /\ only[1] = r
  OBVIOUS
<1> HIDE DEF only
<1> DEFINE first == CHOOSE i \in DOMAIN only : \A j \in DOMAIN only :
             \/ only[j].priority < only[i].priority
             \/ only[j].priority = only[i].priority /\ j <= i
<1>2. \E i \in DOMAIN only : \A j \in DOMAIN only :
             \/ only[j].priority < only[i].priority
             \/ only[j].priority = only[i].priority /\ j <= i
  BY <1>1
<1>3. first \in DOMAIN only
  BY <1>2
<1> HIDE DEF first
<1>4. only[first] = r
  BY <1>1, <1>3
<1> QED  BY <1>1, <1>4 DEF Winner, only, first

LEMMA NoneAtAll == \A m, source : m.requests = <<>> => ~Has(m, source)
BY DEF Has

\* A request that is shown when there was none is the winner, and is called back about.
LEMMA ShownFits ==
  ASSUME NEW m, ManagerInv(m), NEW r
  PROVE  LET n == Shown(m, r) IN
           ManagerInv(n) /\ (m.requests = <<>> => n.source = r.source)
<1> DEFINE requests == Append(Others(m, r.source), r)
<1>1. Shown(m, r) = Refreshed(m, requests)
  BY DEF Shown
<1>2. m.requests = <<>> => requests # <<>> /\ Winner(requests) = r
  <2> SUFFICES ASSUME m.requests = <<>> PROVE requests # <<>> /\ Winner(requests) = r
    OBVIOUS
  <2>1. Others(m, r.source) = <<>>
    BY NoneAtAll DEF Others
  <2> QED  BY <2>1, OnlyRequestWins
<1> HIDE DEF requests
<1> QED  BY <1>1, <1>2, RefreshedFits

LEMMA ClearedFits ==
  ASSUME NEW m, ManagerInv(m), NEW gone
  PROVE  LET n == Cleared(m, gone) IN
           ManagerInv(n) /\ (m.requests = <<>> => n = m)
BY RefreshedFits, NoneAtAll DEF Cleared

LEMMA DefaultedFits ==
  ASSUME NEW m, ManagerInv(m), NEW expression
  PROVE  LET n == Defaulted(m, expression) IN
           /\ ManagerInv(n) /\ n.requests = m.requests
           /\ m.requests # <<>> => n.current = m.current
BY DEF Defaulted, ManagerInv

\* The screen after a change of the manager: a winner that is new is written.
LEMMA CalledBackFits ==
  ASSUME NEW s, NEW m, NEW l, Fits(s, m, l), NEW n, NEW fresh,
         m.requests = <<>> => n.requests = <<>> \/ n.source = fresh,
         NEW t \in CalledBack(s, m, n, fresh)
  PROVE  Fits(t, n, l)
<1> DEFINE force == IF n.requests = <<>> THEN FALSE ELSE Winner(n.requests).force
<1> DEFINE calls == n.source # m.source \/ n.current # m.current \/ n.source = fresh
<1>1. IF calls THEN t \in Applied(s, n.current, force) ELSE t = s
  BY DEF CalledBack
<1> HIDE DEF force
<1>2. CASE calls
  <2>1. ScreenShape(s) /\ Told(s) /\ RowsHold(s, l)
    BY DEF Fits, FaceIsHeld
  <2>2. ScreenShape(t) /\ FaceIsHeld(t, n) /\ RowsHold(t, l)
    BY <1>1, <1>2, <2>1, AppliedFits
  <2> QED  BY <2>2 DEF Fits
<1>3. CASE ~calls
  <2>1. t = s /\ n.current = m.current /\ (n.requests # <<>> => m.requests # <<>>)
    BY <1>1, <1>3
  <2> QED  BY <2>1 DEF Fits, FaceIsHeld
<1> QED  BY <1>2, <1>3

LEMMA AskedFits ==
  ASSUME ManagerInv(mgr), NEW l, NEW screens, \A s \in screens : Fits(s, mgr, l), NEW source,
         AskFace(source, screens)
  PROVE  ManagerInv(mgr') /\ Fits(scr', mgr', l)
<1>1. CASE source \in Sources
  <2> DEFINE r == OwnRequest(source)
  <2> DEFINE new == Shown(mgr, r)
  <2>1. mgr' = new /\ scr' \in UNION {CalledBack(s, mgr, new, source) : s \in screens}
    BY <1>1 DEF AskFace
  <2>2. r.source = source
    BY DEF OwnRequest
  <2> HIDE DEF r
  <2>3. ManagerInv(new) /\ (mgr.requests = <<>> => new.source = source)
    BY <2>2, ShownFits
  <2> HIDE DEF new
  <2>4. PICK s \in screens : scr' \in CalledBack(s, mgr, new, source)
    BY <2>1
  <2>5. Fits(s, mgr, l)
    OBVIOUS
  <2>6. Fits(scr', new, l)
    BY <2>3, <2>4, <2>5, CalledBackFits
  <2> QED  BY <2>1, <2>3, <2>6
<1>2. CASE source \notin Sources
  BY <1>2 DEF AskFace
<1> QED  BY <1>1, <1>2

LEMMA AlertedFits ==
  ASSUME ManagerInv(mgr), NEW l, NEW screens, \A s \in screens : Fits(s, mgr, l), Metrics(screens)
  PROVE  ManagerInv(mgr') /\ Fits(scr', mgr', l)
<1>1. ASSUME NEW alert \in BOOLEAN, AlertFace(alert, screens)
      PROVE  ManagerInv(mgr') /\ Fits(scr', mgr', l)
  <2>1. CASE AskFace("system.alert", screens)
    BY <2>1, AskedFits
  <2> DEFINE new == Cleared(mgr, {"system.alert"})
  <2>2. CASE mgr' = new /\ scr' \in UNION {CalledBack(s, mgr, new, NoOne) : s \in screens}
    <3>1. ManagerInv(new) /\ (mgr.requests = <<>> => new = mgr)
      BY ClearedFits
    <3> HIDE DEF new
    <3>2. PICK s \in screens : scr' \in CalledBack(s, mgr, new, NoOne)
      BY <2>2
    <3>3. Fits(s, mgr, l)
      OBVIOUS
    <3>4. Fits(scr', new, l)
      BY <3>1, <3>2, <3>3, CalledBackFits
    <3> QED  BY <2>2, <3>1, <3>4
  <2>3. CASE mgr' = mgr /\ scr' \in screens
    BY <2>3
  <2> QED  BY <1>1, <2>1, <2>2, <2>3 DEF AlertFace
<1>2. CASE mgr' = mgr /\ scr' \in screens
  BY <1>2
<1> QED  BY <1>1, <1>2 DEF Metrics

-----------------------------------------------------------------------------
(* Writing the rows *)

\* What the cache keeps from being written is on the screen.
CacheMisleadsNot(s, rows) == \A i \in Slots : s.cache[i] # rows[i] \/ s.rows[i] = rows[i]

LEMMA WrittenShape ==
  ASSUME NEW s, ScreenShape(s), NEW rows, OnSlots(rows), NEW force,
         NEW t, t = Written(s, rows, force)
  PROVE  /\ ScreenShape(t) /\ t.open = s.open /\ t.touches = s.touches /\ t.tft = s.tft
         /\ t.face = s.face /\ t.cache = rows /\ t.page = s.page
         /\ s.tft = radio /\ CacheMisleadsNot(s, rows) => t.rows = rows
<1> DEFINE shown == [i \in Slots |-> IF s.tft = radio /\ (force \/ s.cache[i] # rows[i])
                                       THEN rows[i] ELSE s.rows[i]]
<1>1. t = [s EXCEPT !.cache = rows, !.rows = shown]
  BY DEF Written
<1> HIDE DEF shown
<1>2. t = [open |-> s.open, page |-> s.page, touches |-> s.touches, cache |-> rows,
           tft |-> s.tft, var |-> s.var, face |-> s.face, rows |-> shown]
  BY <1>1 DEF ScreenShape
<1>3. t.open = s.open /\ t.touches = s.touches /\ t.tft = s.tft /\ t.cache = rows
      /\ t.face = s.face /\ t.rows = shown /\ t.page = s.page /\ t.var = s.var
  BY <1>2
<1>4. ScreenShape(t)
  BY <1>2, <1>3, ShapeFields DEF ScreenShape
<1>5. ASSUME s.tft = radio, CacheMisleadsNot(s, rows)
      PROVE  t.rows = rows
  <2>1. \A i \in Slots : shown[i] = rows[i]
    BY <1>5 DEF shown, CacheMisleadsNot
  <2>2. shown = [i \in Slots |-> shown[i]]
    BY DEF shown
  <2>3. shown = [i \in Slots |-> rows[i]]
    BY <2>1, <2>2
  <2> QED  BY <1>3, <2>3 DEF OnSlots
<1> QED  BY <1>3, <1>4, <1>5

\* The rows are written to a screen that shows the rows of another list.
LEMMA RenderedFits ==
  ASSUME NEW s, NEW m, NEW l, NEW k, ListInv(k), NEW force,
         ScreenShape(s), FaceIsHeld(s, m),
         RowsHold(s, l) \/ (\A i \in Slots : s.cache[i] = Unknown),
         NEW t \in Rendered(s, k, force)
  PROVE  Fits(t, m, k)
<1> DEFINE rows == RowsOf(k)
<1>1. OnSlots(rows) /\ \A i \in Slots : rows[i] # Unknown
  BY RowsAreKnown
<1>2. IF s.open THEN t = Written(s, rows, force) \/ t = PortClosed(s) ELSE t = s
  BY DEF Rendered
<1> HIDE DEF rows
<1>3. CASE ~s.open
  BY <1>2, <1>3 DEF Fits, RowsHold, FaceIsHeld, Told
<1>4. CASE s.open /\ t = PortClosed(s)
  BY <1>4, ClosedFits
<1>5. CASE s.open /\ t = Written(s, rows, force)
  <2>1. /\ ScreenShape(t) /\ t.open = s.open /\ t.touches = s.touches /\ t.tft = s.tft
        /\ t.face = s.face /\ t.cache = rows /\ t.page = s.page
        /\ s.tft = radio /\ CacheMisleadsNot(s, rows) => t.rows = rows
    <3>1. t = Written(s, rows, force) /\ OnSlots(rows) /\ ScreenShape(s)
      BY <1>1, <1>5
    <3> QED  BY <3>1, WrittenShape
  <2>2. FaceIsHeld(t, m)
    BY <2>1 DEF FaceIsHeld, Told, FaceTold, Later, NoSync
  <2>3. RowsHold(t, k)
    <3> SUFFICES ASSUME s.open, s.tft = "wifi"
                 PROVE  \/ t.rows = rows /\ CacheIsTrue(t)
                        \/ \E e \in Range(s.touches) : e.kind = "wifi"
      BY <2>1 DEF RowsHold, rows
    <3>1. radio = "wifi"
      BY ShapeFields
    <3>2. CASE \A i \in Slots : s.cache[i] \in {s.rows[i], Unknown}
      <4>1. CacheMisleadsNot(s, rows)
        BY <1>1, <3>2 DEF CacheMisleadsNot
      <4>2. t.rows = rows
        BY <2>1, <3>1, <4>1
      <4> QED  BY <2>1, <4>2 DEF CacheIsTrue
    <3>3. CASE \E e \in Range(s.touches) : e.kind = "wifi"
      BY <3>3
    <3> QED  BY <3>2, <3>3 DEF RowsHold, CacheIsTrue
  <2> QED  BY <2>1, <2>2, <2>3 DEF Fits
<1> QED  BY <1>2, <1>3, <1>4, <1>5

LEMMA ForgottenFits ==
  ASSUME NEW s, ScreenShape(s)
  PROVE  LET t == Forgotten(s) IN
           /\ ScreenShape(t) /\ t.open = s.open /\ t.tft = s.tft /\ t.face = s.face
           /\ t.touches = s.touches /\ t.rows = s.rows /\ t.page = s.page
           /\ \A m : FaceIsHeld(s, m) => FaceIsHeld(t, m)
           /\ \A i \in Slots : t.cache[i] = Unknown
           /\ \A m, l : Fits(s, m, l) => Fits(t, m, l)
<1> DEFINE none == [i \in Slots |-> Unknown]
<1> DEFINE t == Forgotten(s)
<1>1. t = [s EXCEPT !.cache = none] /\ \A i \in Slots : none[i] = Unknown
  BY DEF Forgotten
<1> HIDE DEF none, t
<1>2. t = [open |-> s.open, page |-> s.page, touches |-> s.touches, cache |-> none,
           tft |-> s.tft, var |-> s.var, face |-> s.face, rows |-> s.rows]
  BY <1>1 DEF ScreenShape
<1>3. t.open = s.open /\ t.touches = s.touches /\ t.tft = s.tft /\ t.cache = none
      /\ t.face = s.face /\ t.rows = s.rows /\ t.page = s.page /\ t.var = s.var
  BY <1>2
<1>4. ScreenShape(t)
  BY <1>2, <1>3, ShapeFields DEF ScreenShape
<1>6. ASSUME NEW m, FaceIsHeld(s, m) PROVE FaceIsHeld(t, m)
  BY <1>3, <1>6 DEF FaceIsHeld, Told, FaceTold, Later, NoSync
<1>5. ASSUME NEW m, NEW l, Fits(s, m, l) PROVE Fits(t, m, l)
  BY <1>1, <1>3, <1>4, <1>5, <1>6 DEF Fits, RowsHold, CacheIsTrue
<1> QED  BY <1>1, <1>3, <1>4, <1>5, <1>6 DEF t

-----------------------------------------------------------------------------
(* The event that is read *)

LEMMA ScreenFacts ==
  ASSUME ScreenInv
  PROVE  /\ WorkInv(work) /\ ListInv(list) /\ ManagerInv(mgr) /\ Fits(scr, mgr, list)
         /\ ScreenShape(scr) /\ RowsHold(scr, list) /\ FaceIsHeld(scr, mgr) /\ Told(scr)
BY DEF ScreenInv, Fits, FaceIsHeld

LEMMA UnreadFits ==
  ASSUME ScreenInv, NEW kind, Reads(kind)
  PROVE  /\ ScreenShape(Unread) /\ Unread.open = scr.open /\ Unread.tft = scr.tft
         /\ Unread.face = scr.face /\ Unread.page = scr.page /\ Event1.kind = kind
         /\ Range(scr.touches) = Range(Unread.touches) \cup {Event1}
         /\ kind # "wifi" => RowsHold(Unread, list)
         /\ Told(Unread)
         /\ kind # "face" => FaceIsHeld(Unread, mgr)
         /\ scr.tft = "face" /\ kind = "face" /\ NoSync(Unread) => Event1.face = scr.face
<1> DEFINE s == scr
<1> DEFINE rest == Tail(s.touches)
<1> DEFINE t == Unread
<1>1. t = [s EXCEPT !.touches = rest] /\ s.touches # <<>> /\ Event1.kind = kind /\ s.open
      /\ Event1 = Head(s.touches)
  BY DEF Unread, Reads, Event1
<1>2. ScreenShape(s) /\ s.touches \in Seq(Range(s.touches))
  BY ScreenFacts, ShapeFields
<1>3. Range(s.touches) = Range(rest) \cup {Event1} /\ rest \in Seq(Range(rest))
  BY <1>1, <1>2, TailRange DEF Event1
<1>10. rest = Tail(s.touches)
  OBVIOUS
<1> HIDE DEF rest, t
<1>4. t = [open |-> s.open, page |-> s.page, touches |-> rest, cache |-> s.cache,
           tft |-> s.tft, var |-> s.var, face |-> s.face, rows |-> s.rows]
  BY <1>1, <1>2 DEF ScreenShape
<1>5. t.open = s.open /\ t.touches = rest /\ t.tft = s.tft /\ t.cache = s.cache
      /\ t.face = s.face /\ t.rows = s.rows /\ t.page = s.page /\ t.var = s.var
  BY <1>4
<1>6. ScreenShape(t)
  BY <1>2, <1>3, <1>4, <1>5, ShapeFields DEF ScreenShape
<1>7. kind # "wifi" => RowsHold(t, list)
  BY <1>1, <1>3, <1>5, ScreenFacts DEF RowsHold, CacheIsTrue
<1>8. ASSUME s.tft = "face"
      PROVE  FaceTold(t) /\ (kind = "face" /\ NoSync(t) => Event1.face = s.face)
  <2>1. FaceTold(s)
    BY <1>1, <1>8, ScreenFacts DEF Told
  <2> QED  BY <1>1, <1>2, <1>5, <1>10, <2>1, LessIsTold
<1>9. Told(t)
  BY <1>5, <1>8 DEF Told
<1>11. ASSUME kind # "face" PROVE FaceIsHeld(t, mgr)
  <2>1. NoSync(t) => NoSync(s)
    BY <1>1, <1>3, <1>5, <1>11 DEF NoSync
  <2> QED  BY <1>5, <1>9, <2>1, ScreenFacts DEF FaceIsHeld
<1> QED  BY <1>1, <1>3, <1>5, <1>6, <1>7, <1>8, <1>9, <1>11 DEF t

LEMMA OnFits ==
  ASSUME ScreenInv, NEW kind, Reads(kind), NEW p
  PROVE  /\ ScreenShape(On(p)) /\ On(p).open = scr.open /\ On(p).tft = scr.tft
         /\ On(p).face = scr.face /\ On(p).page = p /\ Event1.kind = kind
         /\ Range(scr.touches) = Range(On(p).touches) \cup {Event1}
         /\ kind # "wifi" => RowsHold(On(p), list)
         /\ Told(On(p))
         /\ p # "face" => FaceIsHeld(On(p), mgr)
         /\ scr.tft = "face" /\ kind = "face" /\ NoSync(On(p)) => Event1.face = scr.face
<1> DEFINE s == Unread
<1> DEFINE t == On(p)
<1>1. /\ ScreenShape(s) /\ s.open = scr.open /\ s.tft = scr.tft
      /\ s.face = scr.face /\ Event1.kind = kind
      /\ Range(scr.touches) = Range(s.touches) \cup {Event1}
      /\ kind # "wifi" => RowsHold(s, list)
      /\ Told(s)
      /\ scr.tft = "face" /\ kind = "face" /\ NoSync(s) => Event1.face = scr.face
  BY UnreadFits
<1>2. t = [s EXCEPT !.page = p]
  BY DEF On
<1> HIDE DEF s, t
<1>3. /\ ScreenShape(t) /\ t.open = s.open /\ t.touches = s.touches /\ t.tft = s.tft
      /\ t.cache = s.cache /\ t.face = s.face /\ t.rows = s.rows /\ t.page = p /\ Told(t)
  BY <1>1, <1>2, PageNoted
<1>4. kind # "wifi" => RowsHold(t, list)
  BY <1>1, <1>3 DEF RowsHold, CacheIsTrue
<1>5. p # "face" => FaceIsHeld(t, mgr)
  BY <1>3 DEF FaceIsHeld
<1>6. NoSync(t) => NoSync(s)
  BY <1>3 DEF NoSync
<1> QED  BY <1>1, <1>3, <1>4, <1>5, <1>6 DEF t

-----------------------------------------------------------------------------
(* The steps of the port, the user and the screen *)

\* A step in which the face, the work and the list keep.
LEMMA ScreenOnly ==
  ASSUME ScreenInv, UNCHANGED <<radio, mgr, list>>, WorkInv(work'), Fits(scr', mgr, list)
  PROVE  ScreenInv'
<1>1. Fits(scr', mgr', list')
  OBVIOUS
<1>2. Fits(scr, mgr, list)'
  BY <1>1 DEF Fits, ScreenShape, RowsHold, FaceIsHeld, Told, FaceTold, Later, NoSync, CacheIsTrue
<1>3. WorkInv(work)' /\ ListInv(list)' /\ ManagerInv(mgr)'
  BY ScreenFacts DEF WorkInv, ListInv, ManagerInv
<1> QED  BY <1>2, <1>3 DEF ScreenInv

LEMMA ScreenAll ==
  ASSUME ScreenInv, UNCHANGED radio, WorkInv(work'), ListInv(list'), ManagerInv(mgr'),
         Fits(scr', mgr', list')
  PROVE  ScreenInv'
<1>1. Fits(scr, mgr, list)'
  BY DEF Fits, ScreenShape, RowsHold, FaceIsHeld, Told, FaceTold, Later, NoSync, CacheIsTrue
<1>2. WorkInv(work)' /\ ListInv(list)' /\ ManagerInv(mgr)'
  BY DEF WorkInv, ListInv, ManagerInv
<1> QED  BY <1>1, <1>2 DEF ScreenInv

LEMMA OpsAreOperations ==
  /\ "scan" \in Operations /\ "status" \in Operations /\ "connect" \in Operations
  /\ "disconnect" \in Operations /\ "pair" \in Operations /\ "devices" \in Operations
  /\ "connected_addresses" \in Operations
BY DEF Operations

\* The two operations that the Wi-Fi page asks for.
LEMMA ScanAndStatus ==
  ASSUME NEW w, WorkInv(w), NEW half
  PROVE  /\ WorkInv(Submitted(Submitted(w, half, "scan"), half, "status"))
         /\ WorkInv(Submitted(Submitted(w, half, "status"), half, "scan"))
         /\ WorkInv(Submitted(w, half, "scan")) /\ WorkInv(Submitted(w, half, "status"))
<1>1. WorkInv(Submitted(w, half, "scan")) /\ WorkInv(Submitted(w, half, "status"))
  BY SubmittedFits, OpsAreOperations
<1> QED  BY <1>1, SubmittedFits, OpsAreOperations

LEMMA PortOpens == ScreenInv /\ EnsureSerial => ScreenInv'
<1> SUFFICES ASSUME ScreenInv, EnsureSerial PROVE ScreenInv'
  OBVIOUS
<1> DEFINE yes == TRUE
<1> DEFINE no == FALSE
<1> DEFINE opening == [scr EXCEPT !.open = yes, !.touches = <<>>]
<1> DEFINE opened == Forgotten(opening)
<1>1. /\ UNCHANGED <<mgr, api, radio, list>>
      /\ work' = Submitted(Submitted(work, "wifi", "scan"), "wifi", "status")
      /\ scr' \in UNION {IF radio = "wifi" THEN Rendered(s, list, no) ELSE {s} :
                           s \in Applied(opened, mgr.current, no)}
  BY DEF EnsureSerial
<1>10. opening = [scr EXCEPT !.open = yes, !.touches = <<>>]
  OBVIOUS
<1> HIDE DEF yes, no, opening
<1>2. opening = [open |-> yes, page |-> scr.page, touches |-> <<>>, cache |-> scr.cache,
                 tft |-> scr.tft, var |-> scr.var, face |-> scr.face, rows |-> scr.rows]
  BY <1>10, ScreenFacts DEF ScreenShape
<1>3. ScreenShape(opening) /\ opening.touches = <<>>
  <2>1. opening.open = yes /\ opening.touches = <<>> /\ opening.tft = scr.tft
        /\ opening.cache = scr.cache /\ opening.face = scr.face /\ opening.rows = scr.rows
        /\ opening.page = scr.page /\ opening.var = scr.var
    BY <1>2
  <2>2. scr.tft = "wifi" => radio = "wifi"
    BY ScreenFacts, ShapeFields
  <2> QED  BY <1>2, <2>1, <2>2, NothingInRange DEF ScreenShape
<1>4. ScreenShape(opened) /\ opened.touches = <<>> /\ \A i \in Slots : opened.cache[i] = Unknown
  BY <1>3, ForgottenFits
<1>11. Told(opened)
  <2>1. Len(opened.touches) = 0
    BY <1>4, EmptySeq
  <2> QED  BY <2>1 DEF Told, FaceTold
<1> HIDE DEF opened
<1>5. PICK s \in Applied(opened, mgr.current, no) :
        scr' \in IF radio = "wifi" THEN Rendered(s, list, no) ELSE {s}
  BY <1>1
<1>6. ScreenShape(s) /\ s.cache = opened.cache /\ FaceIsHeld(s, mgr)
  BY <1>4, <1>11, AppliedFits
<1>7. FaceIsHeld(s, mgr) /\ \A i \in Slots : s.cache[i] = Unknown
  BY <1>4, <1>6
<1>8. Fits(scr', mgr, list)
  <2>1. CASE radio = "wifi"
    BY <1>5, <1>6, <1>7, <2>1, RenderedFits, ScreenFacts
  <2>2. CASE radio # "wifi"
    <3>1. scr' = s /\ s.tft # "wifi"
      BY <1>5, <1>6, <2>2, ShapeFields
    <3> QED  BY <1>6, <1>7, <3>1 DEF Fits, RowsHold
  <2> QED  BY <2>1, <2>2
<1>9. WorkInv(work')
  BY <1>1, ScreenFacts, ScanAndStatus
<1> QED  BY <1>1, <1>8, <1>9, ScreenOnly

LEMMA PortFails == ScreenInv /\ (ReadFails \/ WorkerRuns) => ScreenInv'
<1>1. ASSUME ScreenInv, ReadFails PROVE ScreenInv'
  <2>1. scr' = PortClosed(scr) /\ UNCHANGED <<mgr, api, radio, work, list>>
    BY <1>1 DEF ReadFails
  <2>2. Fits(scr', mgr, list)
    BY <1>1, <2>1, ScreenFacts, ClosedFits
  <2> QED  BY <1>1, <2>1, <2>2, ScreenFacts, ScreenOnly
<1>2. ASSUME ScreenInv, WorkerRuns PROVE ScreenInv'
  <2>1. UNCHANGED <<mgr, api, scr, radio, list>>
    BY <1>2 DEF WorkerRuns
  <2> QED  BY <1>2, <2>1, ScreenFacts, WorkerFits, ScreenOnly
<1> QED  BY <1>1, <1>2

LEMMA ManagerBegins == ManagerInv(Manager0) /\ Manager0.requests = <<>>
BY DEF ManagerInv, Manager0

LEMMA ListBegins == ListInv(List0)
BY EmptySeq DEF ListInv, List0

LEMMA ControllerRestarts == ScreenInv /\ Restarts => ScreenInv'
<1> SUFFICES ASSUME ScreenInv, Restarts PROVE ScreenInv'
  OBVIOUS
<1> DEFINE closed == PortClosed(scr)
<1> DEFINE home == [closed EXCEPT !.page = "home"]
<1>1. mgr' = Manager0 /\ work' = Work0 /\ list' = List0 /\ UNCHANGED radio /\ scr' = Forgotten(home)
  BY DEF Restarts
<1>2. ScreenShape(closed) /\ ~closed.open
  BY ScreenFacts, ClosedFits
<1> HIDE DEF closed
<1>3. ScreenShape(home) /\ ~home.open
  BY <1>2, PageNoted
<1> HIDE DEF home
<1>4. ScreenShape(scr') /\ ~scr'.open
  BY <1>1, <1>3, ForgottenFits
<1>5. Fits(scr', mgr', list')
  BY <1>4 DEF Fits, RowsHold, FaceIsHeld, Told
<1> QED  BY <1>1, <1>5, NoWork, ListBegins, ManagerBegins, ScreenAll

LEMMA UserSteps ==
  ScreenInv /\ (Enters \/ ChangesFace \/ Touches \/ TouchesRefresh \/ ScreenResets) => ScreenInv'
<1> SUFFICES ASSUME ScreenInv, Enters \/ ChangesFace \/ Touches \/ TouchesRefresh \/ ScreenResets
             PROVE  ScreenInv'
  OBVIOUS
<1>1. UNCHANGED <<mgr, api, radio, work, list>>
  BY DEF Enters, ChangesFace, Touches, TouchesRefresh, ScreenResets, World
<1>2. Fits(scr', mgr, list)
  <2>1. CASE Enters
    <3>1. PICK p \in {"home", "face", radio} \ {scr.tft} : scr' = Entered(scr, p)
      BY <2>1 DEF Enters
    <3>2. p = "wifi" => radio = "wifi"
      BY <3>1
    <3> QED  BY <3>1, <3>2, ScreenFacts, EnteredFits
  <2>2. CASE ChangesFace
    <3>1. PICK f \in Expressions : scr' = Sends([scr EXCEPT !.var = f, !.face = f], FaceEvent(f))
      BY <2>2 DEF ChangesFace
    <3> DEFINE s == [scr EXCEPT !.var = f, !.face = f]
    <3> DEFINE e == FaceEvent(f)
    <3>3. e.kind = "face" /\ e.face = f
      BY DEF FaceEvent, Event
    <3>8. scr' = Sends(s, e) /\ s = [scr EXCEPT !.var = f, !.face = f]
      BY <3>1
    <3> HIDE DEF s, e
    <3>2. s = [open |-> scr.open, page |-> scr.page, touches |-> scr.touches, cache |-> scr.cache,
               tft |-> scr.tft, var |-> f, face |-> f, rows |-> scr.rows]
      BY <3>8, ScreenFacts DEF ScreenShape
    <3>4. s.open = scr.open /\ s.touches = scr.touches /\ s.cache = scr.cache
          /\ s.tft = scr.tft /\ s.face = f /\ s.rows = scr.rows /\ s.page = scr.page /\ s.var = f
      BY <3>2
    <3>5. ScreenShape(s)
      BY <3>2, <3>4, ScreenFacts, ShapeFields DEF ScreenShape
    <3>6. /\ ScreenShape(scr') /\ scr'.open = scr.open /\ scr'.tft = scr.tft /\ scr'.face = f
          /\ scr.open => /\ scr'.touches = Append(s.touches, e)
                         /\ Range(scr'.touches) = Range(scr.touches) \cup {e}
      <4> DEFINE next == Sends(s, e)
      <4>1. /\ ScreenShape(next) /\ next.open = s.open /\ next.tft = s.tft /\ next.face = s.face
            /\ s.open => /\ next.touches = Append(s.touches, e)
                         /\ Range(next.touches) = Range(s.touches) \cup {e}
        BY <3>5, SendsFits
      <4>2. scr' = next
        BY <3>8
      <4> HIDE DEF next
      <4> QED  BY <3>4, <4>1, <4>2
    <3>7. scr.tft = "face"
      BY <2>2 DEF ChangesFace
    <3>9. scr.open => FaceTold(scr') /\ ~NoSync(scr')
      <4> SUFFICES ASSUME scr.open PROVE FaceTold(scr') /\ ~NoSync(scr')
        OBVIOUS
      <4>1. FaceTold(scr')
        BY <3>3, <3>5, <3>6, MoreIsTold
      <4> QED  BY <3>3, <3>6, <4>1 DEF NoSync
    <3> QED  BY <3>6, <3>7, <3>9 DEF Fits, RowsHold, FaceIsHeld, Told
  <2>3. CASE Touches \/ TouchesRefresh
    <3>1. PICK e : scr' = Sends(scr, e) /\ e.kind # "face"
      <4>1. CASE TouchesRefresh
        BY <4>1 DEF TouchesRefresh, Event
      <4>2. CASE \E k \in {"rescan", "connect", "disconnect", "next", "previous"} :
                   scr' = Sends(scr, Event(k))
        BY <4>2 DEF Event
      <4>3. CASE \E i \in Slots : scr' = Sends(scr, [Event("select") EXCEPT !.slot = i])
        <5>1. PICK i \in Slots : scr' = Sends(scr, [Event("select") EXCEPT !.slot = i])
          BY <4>3
        <5>2. [Event("select") EXCEPT !.slot = i].kind # "face"
          BY DEF Event
        <5> QED  BY <5>1, <5>2
      <4>4. CASE scr' = Sends(scr, Event("pair"))
        BY <4>4 DEF Event
      <4> QED  BY <2>3, <4>1, <4>2, <4>3, <4>4 DEF Touches
    <3> QED  BY <3>1, ScreenFacts, EventFits
  <2>4. CASE ScreenResets
    <3> DEFINE blank == [i \in Slots |-> Blank]
    <3> DEFINE s == [scr EXCEPT !.tft = "home", !.var = "smile", !.face = NoOne, !.rows = blank]
    <3> DEFINE e == Event("ready")
    <3>1. scr' = Sends(s, e)
      BY <2>4 DEF ScreenResets
    <3>6. s = [scr EXCEPT !.tft = "home", !.var = "smile", !.face = NoOne, !.rows = blank]
      OBVIOUS
    <3> HIDE DEF blank, e, s
    <3>2. s = [open |-> scr.open, page |-> scr.page, touches |-> scr.touches, cache |-> scr.cache,
               tft |-> "home", var |-> "smile", face |-> NoOne, rows |-> blank]
      BY <3>6, ScreenFacts DEF ScreenShape
    <3>3. s.open = scr.open /\ s.touches = scr.touches /\ s.cache = scr.cache /\ s.tft = "home"
          /\ s.face = NoOne /\ s.rows = blank /\ s.page = scr.page /\ s.var = "smile"
      BY <3>2
    <3>4. ScreenShape(s)
      BY <3>2, <3>3, ScreenFacts, ShapeFields DEF ScreenShape
    <3>5. ScreenShape(scr') /\ scr'.tft = "home"
      BY <3>1, <3>3, <3>4, SendsFits
    <3> QED  BY <3>5 DEF Fits, RowsHold, FaceIsHeld, Told
  <2> QED  BY <2>1, <2>2, <2>3, <2>4
<1> QED  BY <1>1, <1>2, ScreenFacts, ScreenOnly

-----------------------------------------------------------------------------
(* The events *)

\* An event of a button, or of a page without rows and without a face.
LEMMA ButtonRead ==
  ASSUME ScreenInv, NEW kind, Reads(kind), kind # "wifi", kind # "face",
         NEW p, p # "face"
  PROVE  /\ Fits(Unread, mgr, list) /\ Fits(On(p), mgr, list)
         /\ ScreenShape(Unread) /\ RowsHold(Unread, list) /\ FaceIsHeld(Unread, mgr)
         /\ ScreenShape(On(p)) /\ RowsHold(On(p), list) /\ FaceIsHeld(On(p), mgr)
<1>1. ScreenShape(Unread) /\ RowsHold(Unread, list) /\ FaceIsHeld(Unread, mgr)
  BY UnreadFits
<1>2. ScreenShape(On(p)) /\ RowsHold(On(p), list) /\ FaceIsHeld(On(p), mgr)
  BY OnFits
<1> QED  BY <1>1, <1>2 DEF Fits

LEMMA HomeAndSystem == ScreenInv /\ (OnReady \/ OnHome \/ OnSystem \/ Redraws) => ScreenInv'
<1> SUFFICES ASSUME ScreenInv, OnReady \/ OnHome \/ OnSystem \/ Redraws PROVE ScreenInv'
  OBVIOUS
<1>1. /\ UNCHANGED <<radio, list>>
      /\ work' = work \/ work' = Submitted(work, "wifi", "status")
  BY DEF OnReady, OnHome, OnSystem, Redraws
<1>2. WorkInv(work')
  BY <1>1, ScreenFacts, ScanAndStatus
<1>3. ASSUME NEW s, Metrics({s}), Fits(s, mgr, list)
      PROVE  ManagerInv(mgr') /\ Fits(scr', mgr', list)
  <2>1. \A u \in {s} : Fits(u, mgr, list)
    BY <1>3
  <2>2. ManagerInv(mgr)
    BY ScreenFacts
  <2> QED  BY <1>3, <2>1, <2>2, AlertedFits
<1>4. ManagerInv(mgr') /\ Fits(scr', mgr', list)
  <2>1. CASE OnReady
    <3>1. Reads("ready") /\ Metrics({Forgotten(On("home"))})
      BY <2>1 DEF OnReady
    <3>2. Fits(On("home"), mgr, list) /\ ScreenShape(On("home"))
      BY <3>1, ButtonRead
    <3>3. Fits(Forgotten(On("home")), mgr, list)
      BY <3>2, ForgottenFits
    <3> QED  BY <1>3, <3>1, <3>3
  <2>2. CASE OnHome
    <3>1. Reads("home") /\ Metrics({On("home")})
      BY <2>2 DEF OnHome
    <3> QED  BY <1>3, <3>1, ButtonRead
  <2>3. CASE OnSystem
    <3>1. \/ Reads("system") /\ Metrics({On("system")})
          \/ Reads("refresh") /\ Metrics({Unread})
      BY <2>3 DEF OnSystem
    <3>2. CASE Reads("system") /\ Metrics({On("system")})
      BY <1>3, <3>2, ButtonRead
    <3>3. CASE Reads("refresh") /\ Metrics({Unread})
      BY <1>3, <3>3, ButtonRead
    <3> QED  BY <3>1, <3>2, <3>3
  <2>4. CASE Redraws
    BY <1>3, <2>4, ScreenFacts DEF Redraws
  <2> QED  BY <2>1, <2>2, <2>3, <2>4
<1>5. list' = list
  BY <1>1
<1> QED  BY <1>1, <1>2, <1>4, <1>5, ScreenFacts, ScreenAll

\* The event of the face: what the screen shows is the winner, or is made so, or another
\* event tells of it.
LEMMA FaceRead == ScreenInv /\ OnFace => ScreenInv'
<1> SUFFICES ASSUME ScreenInv, OnFace PROVE ScreenInv'
  OBVIOUS
<1> DEFINE s == On("face")
<1> DEFINE f == Event1.face
<1> DEFINE no == FALSE
<1>1. /\ Reads("face") /\ UNCHANGED <<radio, work, list>>
      /\ IF mgr.requests # <<>>
           THEN mgr' = mgr /\ scr' \in IF f = mgr.current THEN {s} ELSE Applied(s, mgr.current, no)
           ELSE mgr' = Defaulted(mgr, f) /\ scr' = s
  BY DEF OnFace, FaceSynced
<1>2. /\ ScreenShape(s) /\ s.tft = scr.tft /\ s.face = scr.face /\ RowsHold(s, list) /\ Told(s)
      /\ scr.tft = "face" /\ NoSync(s) => f = scr.face
  BY <1>1, OnFits
<1>3. ManagerInv(mgr) /\ FaceIsHeld(scr, mgr) /\ WorkInv(work) /\ ListInv(list)
  BY ScreenFacts
<1> HIDE DEF s, f, no
<1>4. ManagerInv(mgr') /\ Fits(scr', mgr', list)
  <2>1. CASE mgr.requests # <<>> /\ f = mgr.current
    <3>1. mgr' = mgr /\ scr' = s
      BY <1>1, <2>1
    <3>2. FaceIsHeld(s, mgr)
      BY <1>2, <2>1 DEF FaceIsHeld
    <3> QED  BY <1>2, <1>3, <3>1, <3>2 DEF Fits
  <2>2. CASE mgr.requests # <<>> /\ f # mgr.current
    <3>1. mgr' = mgr /\ scr' \in Applied(s, mgr.current, no)
      BY <1>1, <2>2
    <3>2. ScreenShape(scr') /\ FaceIsHeld(scr', mgr) /\ RowsHold(scr', list)
      BY <1>2, <3>1, AppliedFits
    <3> QED  BY <1>3, <3>1, <3>2 DEF Fits
  <2>3. CASE mgr.requests = <<>>
    <3>1. mgr' = Defaulted(mgr, f) /\ scr' = s
      BY <1>1, <2>3
    <3>2. ManagerInv(mgr') /\ mgr'.requests = <<>>
      BY <1>3, <2>3, <3>1, DefaultedFits
    <3> QED  BY <1>2, <3>1, <3>2 DEF Fits, FaceIsHeld
  <2> QED  BY <2>1, <2>2, <2>3
<1>5. list' = list /\ work' = work
  BY <1>1
<1> QED  BY <1>1, <1>3, <1>4, <1>5, ScreenAll

\* The event of the Wi-Fi page: the rows are written to a screen of which the cache holds
\* nothing.
LEMMA WifiRead == ScreenInv /\ OnWifi => ScreenInv'
<1> SUFFICES ASSUME ScreenInv, OnWifi PROVE ScreenInv'
  OBVIOUS
<1> DEFINE s == Forgotten(On("wifi"))
<1> DEFINE no == FALSE
<1>1. /\ Reads("wifi") /\ UNCHANGED <<radio, list>>
      /\ AskFace("wifi.scan", Rendered(s, list, no))
      /\ work' = Submitted(Submitted(work, "wifi", "scan"), "wifi", "status")
  BY DEF OnWifi, WifiEntered
<1>2. WorkInv(work) /\ ListInv(list) /\ ManagerInv(mgr)
  BY ScreenFacts
<1>3. ScreenShape(On("wifi")) /\ FaceIsHeld(On("wifi"), mgr)
  BY <1>1, OnFits
<1>4. /\ ScreenShape(s) /\ s.open = On("wifi").open /\ s.tft = On("wifi").tft
      /\ FaceIsHeld(s, mgr)
      /\ \A i \in Slots : s.cache[i] = Unknown
  BY <1>3, ForgottenFits
<1>5. FaceIsHeld(s, mgr)
  BY <1>4
<1> HIDE DEF s, no
<1>6. \A u \in Rendered(s, list, no) : Fits(u, mgr, list)
  BY <1>2, <1>4, <1>5, RenderedFits
<1>7. ManagerInv(mgr') /\ Fits(scr', mgr', list)
  BY <1>1, <1>2, <1>6, AskedFits
<1>8. WorkInv(work') /\ list' = list
  BY <1>1, <1>2, ScanAndStatus
<1> QED  BY <1>1, <1>2, <1>7, <1>8, ScreenAll

LEMMA BluetoothRead == ScreenInv /\ OnBluetooth => ScreenInv'
<1> SUFFICES ASSUME ScreenInv, OnBluetooth PROVE ScreenInv'
  OBVIOUS
<1> DEFINE s == On("bluetooth")
<1> DEFINE yes == TRUE
<1>1. /\ Reads("bluetooth") /\ UNCHANGED <<mgr, radio>>
      /\ list' = [list EXCEPT !.page = 0] /\ scr' \in Rendered(s, list', yes)
      /\ work' = Submitted(work, "bluetooth", "scan")
  BY DEF OnBluetooth
<1>2. WorkInv(work) /\ ListInv(list) /\ ManagerInv(mgr)
  BY ScreenFacts
<1>3. ScreenShape(s) /\ RowsHold(s, list) /\ FaceIsHeld(s, mgr)
  BY <1>1, ButtonRead
<1> HIDE DEF s, yes
<1>4. ListInv(list') /\ WorkInv(work')
  BY <1>1, <1>2, PagedFits, ScanAndStatus
<1>5. Fits(scr', mgr, list')
  BY <1>1, <1>3, <1>4, RenderedFits
<1>6. mgr' = mgr
  BY <1>1
<1> QED  BY <1>1, <1>2, <1>4, <1>5, <1>6, ScreenAll

LEMMA RescanRead == ScreenInv /\ OnRescan => ScreenInv'
<1> SUFFICES ASSUME ScreenInv, OnRescan PROVE ScreenInv'
  OBVIOUS
<1>1. /\ Reads("rescan") /\ UNCHANGED radio /\ work' = Submitted(work, radio, "scan")
      /\ IF radio = "wifi" THEN AskFace("wifi.scan", {Unread}) /\ list' = list
         ELSE mgr' = mgr /\ scr' = Unread /\ list' = [list EXCEPT !.page = 0]
  BY DEF OnRescan
<1>2. WorkInv(work) /\ ListInv(list) /\ ManagerInv(mgr)
  BY ScreenFacts
<1>3. Fits(Unread, mgr, list) /\ ScreenShape(Unread) /\ FaceIsHeld(Unread, mgr)
  BY <1>1, ButtonRead
<1>4. WorkInv(work')
  BY <1>1, <1>2, ScanAndStatus
<1>5. CASE radio = "wifi"
  <2>1. \A s \in {Unread} : Fits(s, mgr, list)
    BY <1>3
  <2>2. ManagerInv(mgr') /\ Fits(scr', mgr', list)
    BY <1>1, <1>2, <1>5, <2>1, AskedFits
  <2> QED  BY <1>1, <1>2, <1>4, <1>5, <2>2, ScreenAll
<1>6. CASE radio # "wifi"
  <2>1. ListInv(list') /\ mgr' = mgr /\ scr' = Unread
    BY <1>1, <1>2, <1>6, PagedFits
  <2>2. Unread.tft # "wifi"
    BY <1>3, <1>6, ShapeFields
  <2>3. Fits(scr', mgr', list')
    BY <1>3, <2>1, <2>2 DEF Fits, RowsHold
  <2>4. ManagerInv(mgr')
    BY <1>2, <2>1
  <2> QED  BY <1>1, <1>4, <2>1, <2>3, <2>4, ScreenAll
<1> QED  BY <1>5, <1>6

LEMMA SelectRead == ScreenInv /\ OnSelect => ScreenInv'
<1> SUFFICES ASSUME ScreenInv, OnSelect PROVE ScreenInv'
  OBVIOUS
<1> DEFINE k == list.page * PageSize + Event1.slot + 1
<1> DEFINE force == radio = "bluetooth"
<1>1. /\ Reads("select") /\ UNCHANGED <<mgr, radio, work>>
      /\ \/ /\ list' = [list EXCEPT !.selected = list.items[k]]
            /\ scr' \in Rendered(Unread, list', force)
         \/ list' = list /\ scr' = Unread
  BY DEF OnSelect
<1>2. WorkInv(work) /\ ListInv(list) /\ ManagerInv(mgr)
  BY ScreenFacts
<1>3. /\ Fits(Unread, mgr, list)
      /\ ScreenShape(Unread) /\ RowsHold(Unread, list) /\ FaceIsHeld(Unread, mgr)
  BY <1>1, ButtonRead
<1> HIDE DEF k, force
<1>4. CASE /\ list' = [list EXCEPT !.selected = list.items[k]]
           /\ scr' \in Rendered(Unread, list', force)
  <2>1. ListInv(list')
    BY <1>2, <1>4, SelectedFits
  <2>2. Fits(scr', mgr, list')
    BY <1>3, <1>4, <2>1, RenderedFits
  <2>3. mgr' = mgr /\ work' = work
    BY <1>1
  <2> QED  BY <1>1, <1>2, <2>1, <2>2, <2>3, ScreenAll
<1>5. CASE list' = list /\ scr' = Unread
  <2>1. mgr' = mgr /\ work' = work
    BY <1>1
  <2> QED  BY <1>1, <1>2, <1>3, <1>5, <2>1, ScreenAll
<1> QED  BY <1>1, <1>4, <1>5

LEMMA TurnRead == ScreenInv /\ OnTurn => ScreenInv'
<1> SUFFICES ASSUME ScreenInv, OnTurn PROVE ScreenInv'
  OBVIOUS
<1> DEFINE no == FALSE
<1> DEFINE page ==
      IF Reads("next") THEN (IF list.page < LastPage(list.items) THEN list.page + 1
                             ELSE LastPage(list.items))
      ELSE IF list.page > 0 THEN list.page - 1 ELSE 0
<1>1. /\ Reads("next") \/ Reads("previous")
      /\ UNCHANGED <<mgr, radio, work>>
      /\ list' = [list EXCEPT !.page = page] /\ scr' \in Rendered(Unread, list', no)
  BY DEF OnTurn
<1>2. WorkInv(work) /\ ListInv(list) /\ ManagerInv(mgr)
  BY ScreenFacts
<1>3. ScreenShape(Unread) /\ RowsHold(Unread, list) /\ FaceIsHeld(Unread, mgr)
  BY <1>1, ButtonRead
<1>4. LastPage(list.items) \in Nat /\ list.page \in Nat
  BY <1>2, LastPageFits DEF ListInv
<1>5. page \in Nat
  BY <1>4
<1> HIDE DEF no, page
<1>6. ListInv(list')
  BY <1>1, <1>2, <1>5, PagedFits
<1>7. Fits(scr', mgr, list')
  BY <1>1, <1>3, <1>6, RenderedFits
<1>8. mgr' = mgr /\ work' = work
  BY <1>1
<1> QED  BY <1>1, <1>2, <1>6, <1>7, <1>8, ScreenAll

LEMMA ButtonsRead == ScreenInv /\ (OnWifiButton \/ OnBluetoothButton) => ScreenInv'
<1> SUFFICES ASSUME ScreenInv, OnWifiButton \/ OnBluetoothButton PROVE ScreenInv'
  OBVIOUS
<1>1. UNCHANGED <<mgr, radio, list>> /\ scr' = Unread
  BY DEF OnWifiButton, OnBluetoothButton
<1>2. WorkInv(work) /\ ListInv(list) /\ ManagerInv(mgr)
  BY ScreenFacts
<1>3. PICK op \in {"pair", "connect", "disconnect"} :
        /\ Reads(op)
        /\ \/ work' = work \/ work' = Submitted(work, "wifi", op)
           \/ work' = Submitted(work, "bluetooth", op)
  BY DEF OnWifiButton, OnBluetoothButton
<1>4. op \in Operations /\ op # "wifi" /\ op # "face"
  BY OpsAreOperations
<1>5. WorkInv(work')
  BY <1>2, <1>3, <1>4, SubmittedFits
<1>6. Fits(Unread, mgr, list)
  BY <1>3, <1>4, ButtonRead
<1> QED  BY <1>1, <1>5, <1>6, ScreenOnly

-----------------------------------------------------------------------------
(* The timers and the results *)

LEMMA TimerRuns == ScreenInv /\ Periodic => ScreenInv'
<1> SUFFICES ASSUME ScreenInv, Periodic PROVE ScreenInv'
  OBVIOUS
<1>1. /\ UNCHANGED <<mgr, scr, radio, list>>
      /\ \E half, op : op \in Operations /\ work' = Submitted(work, half, op)
  BY OpsAreOperations DEF Periodic
<1>2. WorkInv(work')
  BY <1>1, ScreenFacts, SubmittedFits
<1>3. scr' = scr
  BY <1>1
<1> QED  BY <1>1, <1>2, <1>3, ScreenFacts, ScreenOnly

\* What is asked for after a result.
LEMMA ResultTaken ==
  ASSUME ScreenInv, work.results # <<>>, NEW outcome
  PROVE  /\ WorkInv(Taken(outcome))
         /\ WorkInv(Submitted(Submitted(Taken(outcome), "wifi", "status"), "wifi", "scan"))
         /\ WorkInv(Submitted(Taken(outcome), "bluetooth", "devices"))
<1>1. WorkInv(Taken(outcome))
  BY ScreenFacts, TakenFits
<1> QED  BY <1>1, ScanAndStatus, SubmittedFits, OpsAreOperations

\* A result that may be shown in the face.
LEMMA ResultShown ==
  ASSUME ScreenInv, UNCHANGED <<radio, list>>, WorkInv(work'),
         NEW source, AskFace(source, {scr}) \/ UNCHANGED <<mgr, scr>>
  PROVE  ScreenInv'
<1>1. WorkInv(work) /\ ListInv(list) /\ ManagerInv(mgr) /\ Fits(scr, mgr, list)
  BY ScreenFacts
<1>2. ManagerInv(mgr') /\ Fits(scr', mgr', list)
  <2>1. CASE AskFace(source, {scr})
    <3>1. \A s \in {scr} : Fits(s, mgr, list)
      BY <1>1
    <3> QED  BY <1>1, <2>1, <3>1, AskedFits
  <2>2. CASE UNCHANGED <<mgr, scr>>
    <3>1. mgr' = mgr /\ scr' = scr
      BY <2>2
    <3> QED  BY <1>1, <3>1
  <2> QED  BY <2>1, <2>2
<1>3. list' = list
  OBVIOUS
<1> QED  BY <1>1, <1>2, <1>3, ScreenAll

LEMMA ResultFails == ScreenInv /\ (OnError \/ OnStatus) => ScreenInv'
<1> SUFFICES ASSUME ScreenInv, OnError \/ OnStatus PROVE ScreenInv'
  OBVIOUS
<1>1. UNCHANGED <<radio, list>> /\ work.results # <<>> /\ \E outcome : work' = Taken(outcome)
  BY DEF OnError, OnStatus, Finished
<1>2. WorkInv(work')
  BY <1>1, ResultTaken
<1>3. \E source : AskFace(source, {scr}) \/ UNCHANGED <<mgr, scr>>
  BY DEF OnError, OnStatus
<1> QED  BY <1>1, <1>2, <1>3, ResultShown

LEMMA ResultLists == ScreenInv /\ OnListed => ScreenInv'
<1> SUFFICES ASSUME ScreenInv, OnListed PROVE ScreenInv'
  OBVIOUS
<1> DEFINE force == radio = "bluetooth"
<1>1. /\ UNCHANGED <<mgr, radio>> /\ work.results # <<>> /\ work' = Taken("done")
      /\ scr' \in Rendered(scr, list', force)
  BY DEF OnListed, Finished
<1>2. PICK items \in Lists :
        list' = Listed(items) \/ list' = [Listed(items) EXCEPT !.selected = NoOne]
  BY DEF OnListed
<1>3. ListInv(list') /\ WorkInv(work')
  BY <1>1, <1>2, ScreenFacts, ListedFits, ResultTaken
<1> HIDE DEF force
<1>4. Fits(scr', mgr, list')
  BY <1>1, <1>3, ScreenFacts, RenderedFits
<1>5. mgr' = mgr
  BY <1>1
<1> QED  BY <1>1, <1>3, <1>4, <1>5, ScreenFacts, ScreenAll

LEMMA ResultChanges ==
  ScreenInv /\ (OnWifiChanged \/ OnBluetoothChanged \/ OnPolled) => ScreenInv'
<1> SUFFICES ASSUME ScreenInv, OnWifiChanged \/ OnBluetoothChanged \/ OnPolled PROVE ScreenInv'
  OBVIOUS
<1>1. UNCHANGED <<radio, list>> /\ work.results # <<>>
  BY DEF OnWifiChanged, OnBluetoothChanged, OnPolled, Finished
<1>2. \E outcome :
        \/ work' = Taken(outcome)
        \/ work' = Submitted(Submitted(Taken(outcome), "wifi", "status"), "wifi", "scan")
        \/ work' = Submitted(Taken(outcome), "bluetooth", "devices")
  BY DEF OnWifiChanged, OnBluetoothChanged, OnPolled
<1>3. WorkInv(work')
  BY <1>1, <1>2, ResultTaken
<1>4. \E source : AskFace(source, {scr}) \/ UNCHANGED <<mgr, scr>>
  BY DEF OnWifiChanged, OnBluetoothChanged, OnPolled
<1> QED  BY <1>1, <1>3, <1>4, ResultShown

-----------------------------------------------------------------------------
(* The socket *)

\* A change of the manager that the screen is called back about.
LEMMA ManagerChanges ==
  ASSUME ScreenInv, UNCHANGED <<radio, work, list>>, NEW new, ManagerInv(new), mgr' = new,
         NEW fresh, mgr.requests = <<>> => new.requests = <<>> \/ new.source = fresh,
         scr' \in CalledBack(scr, mgr, new, fresh)
  PROVE  ScreenInv'
<1>1. WorkInv(work) /\ ListInv(list) /\ Fits(scr, mgr, list)
  BY ScreenFacts
<1>2. Fits(scr', new, list)
  BY <1>1, CalledBackFits
<1>3. Fits(scr', mgr', list') /\ WorkInv(work') /\ ListInv(list') /\ ManagerInv(mgr')
  BY <1>1, <1>2
<1> QED  BY <1>3, ScreenAll

LEMMA SocketServes ==
  ScreenInv /\ (ApiServes \/ ApiGivesUp \/ DrainCommand \/ Expires) /\ UNCHANGED <<radio, work, list>>
    => ScreenInv'
<1> SUFFICES ASSUME ScreenInv, ApiServes \/ ApiGivesUp \/ DrainCommand \/ Expires,
                    UNCHANGED <<radio, work, list>>
             PROVE  ScreenInv'
  OBVIOUS
<1>1. WorkInv(work) /\ ListInv(list) /\ ManagerInv(mgr) /\ Fits(scr, mgr, list)
      /\ ScreenShape(scr) /\ RowsHold(scr, list)
  BY ScreenFacts
<1>2. CASE UNCHANGED <<mgr, scr>>
  <2>1. mgr' = mgr /\ scr' = scr /\ list' = list /\ work' = work
    BY <1>2
  <2> QED  BY <1>1, <2>1, ScreenAll
<1>3. ASSUME NEW r, mgr' = Shown(mgr, r), scr' \in CalledBack(scr, mgr, Shown(mgr, r), r.source)
      PROVE  ScreenInv'
  <2> DEFINE new == Shown(mgr, r)
  <2>1. ManagerInv(new) /\ (mgr.requests = <<>> => new.source = r.source)
    BY <1>1, ShownFits
  <2> QED  BY <1>3, <2>1, ManagerChanges
<1>4. ASSUME NEW gone, mgr' = Cleared(mgr, gone),
             scr' \in CalledBack(scr, mgr, Cleared(mgr, gone), NoOne)
      PROVE  ScreenInv'
  <2> DEFINE new == Cleared(mgr, gone)
  <2>1. ManagerInv(new) /\ (mgr.requests = <<>> => new.requests = <<>>)
    BY <1>1, ClearedFits
  <2> QED  BY <1>4, <2>1, ManagerChanges
<1>5. ASSUME NEW f, mgr' = Defaulted(mgr, f),
             scr' \in IF mgr.requests = <<>> THEN Applied(scr, f, FALSE) ELSE {scr}
      PROVE  ScreenInv'
  <2> DEFINE no == FALSE
  <2>1. IF mgr.requests = <<>> THEN scr' \in Applied(scr, f, no) ELSE scr' = scr
    BY <1>5
  <2> HIDE DEF no
  <2>2. /\ ManagerInv(mgr') /\ mgr'.requests = mgr.requests
        /\ mgr.requests # <<>> => mgr'.current = mgr.current
    BY <1>1, <1>5, DefaultedFits
  <2>3. ScreenShape(scr') /\ RowsHold(scr', list) /\ FaceIsHeld(scr', mgr')
    <3>1. CASE mgr.requests = <<>>
      BY <1>1, <2>1, <3>1, ScreenFacts, AppliedFits
    <3>2. CASE mgr.requests # <<>>
      <4>1. scr' = scr /\ mgr'.requests = mgr.requests /\ mgr'.current = mgr.current
        BY <2>1, <2>2, <3>2
      <4> QED  BY <1>1, <4>1, ScreenFacts DEF FaceIsHeld
    <3> QED  BY <3>1, <3>2
  <2>5. Fits(scr', mgr', list') /\ WorkInv(work') /\ ListInv(list')
    BY <1>1, <2>3 DEF Fits
  <2> QED  BY <2>2, <2>5, ScreenAll
<1>6. CASE ApiServes \/ ApiGivesUp
  BY <1>2, <1>6 DEF ApiServes, ApiGivesUp
<1>7. CASE DrainCommand
  <2>1. CommandExecuted
    BY <1>7 DEF DrainCommand
  <2>2. \/ \E r \in FaceRequests : mgr' = Shown(mgr, r) /\ scr' \in CalledBack(scr, mgr, Shown(mgr, r), r.source)
        \/ \E gone \in {{"external"}, Sources} :
             mgr' = Cleared(mgr, gone) /\ scr' \in CalledBack(scr, mgr, Cleared(mgr, gone), NoOne)
        \/ \E f \in Expressions :
             /\ mgr' = Defaulted(mgr, f)
             /\ scr' \in IF mgr.requests = <<>> THEN Applied(scr, f, FALSE) ELSE {scr}
        \/ UNCHANGED <<mgr, scr>>
    BY <2>1 DEF CommandExecuted
  <2> QED  BY <1>2, <1>3, <1>4, <1>5, <2>2
<1>8. CASE Expires
  <2>1. PICK gone : mgr' = Cleared(mgr, gone) /\ scr' \in CalledBack(scr, mgr, mgr', NoOne)
    BY <1>8 DEF Expires
  <2> QED  BY <1>4, <2>1
<1> QED  BY <1>6, <1>7, <1>8

-----------------------------------------------------------------------------
(* The theorems *)

LEMMA ScreenBegins == ScreenInit => ScreenInv
<1> SUFFICES ASSUME ScreenInit PROVE ScreenInv
  OBVIOUS
<1> DEFINE no == FALSE
<1> DEFINE cache == [i \in Slots |-> Unknown]
<1> DEFINE rows == [i \in Slots |-> Blank]
<1>1. /\ mgr = Manager0 /\ work = Work0 /\ list = List0
      /\ scr = [open |-> no, page |-> "home", touches |-> <<>>, cache |-> cache,
                tft |-> "home", var |-> "smile", face |-> NoOne, rows |-> rows]
  BY DEF ScreenInit
<1>2. ~no
  OBVIOUS
<1> HIDE DEF no, cache, rows
<1>3. /\ scr.open = no /\ scr.page = "home" /\ scr.touches = <<>> /\ scr.cache = cache
      /\ scr.tft = "home" /\ scr.face = NoOne /\ scr.rows = rows /\ scr.var = "smile"
  BY <1>1
<1>4. ScreenShape(scr)
  BY <1>1, <1>3, NothingInRange DEF ScreenShape
<1>5. Fits(scr, mgr, list)
  BY <1>2, <1>3, <1>4 DEF Fits, RowsHold, FaceIsHeld, Told
<1> QED  BY <1>1, <1>5, NoWork, ListBegins, ManagerBegins DEF ScreenInv

LEMMA ScreenSteps == ScreenInv /\ [ScreenStep]_screenVars => ScreenInv'
<1> SUFFICES ASSUME ScreenInv, [ScreenStep]_screenVars PROVE ScreenInv'
  OBVIOUS
<1>1. CASE UNCHANGED screenVars
  <2>1. mgr' = mgr /\ scr' = scr /\ work' = work /\ list' = list /\ radio' = radio
    BY <1>1 DEF screenVars
  <2>2. WorkInv(work') /\ ListInv(list') /\ ManagerInv(mgr') /\ Fits(scr', mgr', list')
    BY <2>1, ScreenFacts
  <2> QED  BY <2>1, <2>2, ScreenAll
<1>2. CASE ScreenStep
  BY <1>2, PortOpens, PortFails, ControllerRestarts, UserSteps, HomeAndSystem, FaceRead, WifiRead,
     BluetoothRead, RescanRead, SelectRead, TurnRead, ButtonsRead, TimerRuns, ResultFails,
     ResultLists, ResultChanges, SocketServes DEF ScreenStep
<1> QED  BY <1>1, <1>2

\* The rows fit the list and the face page that is noted fits the request that wins, or the
\* event that will make them fit is unread; each operation is with its worker once.
THEOREM ScreenInvariant == ScreenSpec => []ScreenInv
<1>1. ScreenInit => ScreenInv
  BY ScreenBegins
<1>2. ScreenInv /\ [ScreenStep]_screenVars => ScreenInv'
  BY ScreenSteps
<1> QED  BY <1>1, <1>2, PTL DEF ScreenSpec

\* The rows on the Wi-Fi page are those that a touch will select from.
THEOREM RowsShowTheList == ScreenSpec => []RowsAreTheList
<1>1. ScreenInv => RowsAreTheList
  BY ScreenFacts, NothingInRange DEF RowsAreTheList, RowsHold
<1> QED  BY <1>1, ScreenInvariant, PTL

\* The face page that the controller has noted shows the request that wins, once the events
\* of that page are read.
THEOREM FaceIsTheWinner == ScreenSpec => []FaceHolds
<1>1. ScreenInv => FaceHolds
  BY ScreenFacts DEF FaceHolds, FaceIsHeld
<1> QED  BY <1>1, ScreenInvariant, PTL

\* No operation of a worker is lost, and none keeps its successors away for ever.
THEOREM OperationsAreWork == ScreenSpec => []PendingIsWork
<1>1. ScreenInv => PendingIsWork
  BY ScreenFacts, PendingIsTheWork
<1> QED  BY <1>1, ScreenInvariant, PTL

=============================================================================
