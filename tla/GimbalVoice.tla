----------------------------- MODULE GimbalVoice -----------------------------
(***************************************************************************)
(* gimbal_voice.py beside other clients of the daemon.  Its functions are  *)
(* short programs of gimbalctl calls: one status request, the targets      *)
(* computed from it, one call per target.  Every call is a subprocess with *)
(* a timeout, so a call may be given up while the daemon still works on    *)
(* it. voice.at is the yaw the program believes in, from its status        *)
(* request and the targets it took for reached.                            *)
(***************************************************************************)
EXTENDS GimbalDaemon

CONSTANTS
  Voice,     \* the client that runs these programs
  OtherCmds, \* what the other clients ask for
  Inset      \* VOICE_LIMIT_INSET_DEG: distance kept from the limits

\* _safe_limits refuses limits that leave nothing between the insets; the others
\* look and stop, they do not turn the camera.
ASSUME VoiceAssumption ==
  /\ Voice \in Client /\ Voice \in Listener
  /\ Inset \in Margin..(Limit - 1)
  /\ OtherCmds \subseteq {"status", "disable", "estop"}

VARIABLE voice

voiceVars == <<vars, voice>>

Single == {"enable", "disable", "estop"}
Moves == {"move", "look", "scan"}

VoiceState ==
  [prog : Single \cup Moves, phase : {"idle", "call", "asked", "next", "set", "confirm"},
   plan : Seq(Yaw), goal : Yaw, at : Yaw, failed : BOOLEAN, restoring : BOOLEAN,
   said : {"none", "there", "ok", "error"}]

VoiceTypeOK == TypeOK /\ voice \in VoiceState

Silent == [prog |-> "estop", phase |-> "idle", plan |-> <<>>, goal |-> 0, at |-> 0,
           failed |-> FALSE, restoring |-> FALSE, said |-> "none"]

VoiceInit == Init /\ voice = Silent

Ask(cmd, y) == Connect(Voice, [cmd |-> cmd, yaw |-> y], TRUE)

\* The answer is read and forgotten.
Heard ==
  /\ answer' = [answer EXCEPT ![Voice] = Told("none")]
  /\ UNCHANGED <<backlog, daemonVars, wire, inbox, faultVars, gimbal>>

\* The end of a program; only a success is remembered, and where it ended.
Say(result) ==
  voice' = IF result = "ok" THEN [Silent EXCEPT !.prog = voice.prog, !.said = "ok", !.at = voice.at]
                            ELSE [Silent EXCEPT !.said = result]

\* The words of the user: a single command, or a function that asks for the
\* status first.
Hear(p) ==
  /\ voice.phase = "idle"
  /\ Ask(IF p \in Single THEN p ELSE "status", 0)
  /\ voice' = [Silent EXCEPT !.prog = p, !.phase = IF p \in Single THEN "call" ELSE "asked"]

\* The answer to the single command is said as it is.
CallAnswered ==
  /\ voice.phase = "call" /\ answer[Voice].result # "none"
  /\ Say(answer[Voice].result)
  /\ Heard

\* _safe_limits: what a target is clamped to.
Clamp(y) ==
  IF y > Limit - Inset THEN Limit - Inset
  ELSE IF y < Inset - Limit THEN Inset - Limit ELSE y

\* execute_surroundings_scan: left, centre and right, or the other way round.
ScanPlan(yaw) ==
  LET extent == Limit - Inset
  IN  IF yaw > 0 THEN <<extent, 0, -extent>> ELSE <<-extent, 0, extent>>

\* execute_gimbal_voice_command: a step to either side; at the limit there is none.
StepTargets(yaw) == {Clamp(yaw + d) : d \in {-1, 1}}

\* execute_look_at_me: the bearing of the speaker.
LookTargets == {Clamp(y) : y \in Yaw}

\* refine_person_alignment: a small step towards the person, or none.
AlignTargets(yaw) == {Clamp(yaw + d) : d \in {-1, 0, 1}}

\* return_yaw_to_forward, and the command "center": sent wherever the camera is.
ForwardTarget(yaw) ==
  /\ voice.prog = "move"
  /\ voice' = [voice EXCEPT !.phase = "next", !.plan = <<0>>, !.at = yaw]

Targets(p, yaw) == IF p = "look" THEN LookTargets ELSE StepTargets(yaw) \cup AlignTargets(yaw)

\* _active_telemetry on the status: no motion without a ready gimbal.  Only
\* execute_look_at_me asks again, for a gimbal that is being enabled.
StatusAnswered ==
  /\ voice.phase = "asked" /\ answer[Voice].result # "none"
  /\ LET a == answer[Voice]
     IN  \/ /\ a.ready
            /\ Heard
            /\ \/ /\ voice.prog = "scan"
                  /\ voice' = [voice EXCEPT !.phase = "next", !.plan = ScanPlan(a.yaw), !.at = a.yaw]
               \/ /\ voice.prog # "scan"
                  /\ \E y \in Targets(voice.prog, a.yaw) :
                       IF y = a.yaw THEN Say("there")
                       ELSE voice' = [voice EXCEPT !.phase = "next", !.plan = <<y>>, !.at = a.yaw]
               \/ ForwardTarget(a.yaw)
         \/ ~a.ready /\ Say("error") /\ Heard
         \/ /\ ~a.ready /\ voice.prog = "look" /\ a.result = "ok"
            /\ Ask("status", 0) /\ UNCHANGED voice

\* Faulty: the camera is left where the scan ended.
NoRestore == FALSE

\* The scan turns the camera ahead again, also after a failed move.
MustRestore == voice.prog = "scan" /\ ~voice.restoring /\ voice.at # 0

\* The next target; the scan does not ask for one it believes to face.
NextTarget ==
  /\ voice.phase = "next"
  /\ IF voice.plan # <<>> /\ ~voice.failed
       THEN LET y == Head(voice.plan)
            IN  IF y = voice.at /\ voice.prog = "scan"
                  THEN voice' = [voice EXCEPT !.plan = Tail(@)] /\ UNCHANGED vars
                  ELSE /\ Ask("set", y)
                       /\ voice' = [voice EXCEPT !.phase = "set", !.goal = y, !.plan = Tail(@)]
     ELSE IF MustRestore
       THEN /\ Ask("set", 0)
            /\ voice' = [voice EXCEPT !.phase = "set", !.goal = 0, !.restoring = TRUE]
     ELSE Say(IF voice.failed THEN "error" ELSE "ok") /\ UNCHANGED vars

Reached ==
  /\ voice' = [voice EXCEPT !.phase = "next", !.at = voice.goal]
  /\ Heard

Failed ==
  /\ voice' = [voice EXCEPT !.phase = "next", !.failed = TRUE]
  /\ Heard

\* _set_target_confirmed: a call that failed or timed out is looked into once.
SetAnswered ==
  /\ voice.phase = "set" /\ answer[Voice].result # "none"
  /\ IF answer[Voice].result = "ok" THEN Reached
     ELSE IF voice.prog \in {"look", "scan"}
       THEN Ask("status", 0) /\ voice' = [voice EXCEPT !.phase = "confirm"]
     ELSE Failed

\* Faulty: any answer confirms.
AnyPlace(a) == a.result = "ok"

\* _motion_feedback_reached
Confirms(a) == a.ready /\ a.still /\ a.yaw = voice.goal

ConfirmAnswered ==
  /\ voice.phase = "confirm" /\ answer[Voice].result # "none"
  /\ IF Confirms(answer[Voice]) THEN Reached ELSE Failed

\* The subprocess timeout of a call: 20 s for a motion, 5 s for the others.
CallTimeout ==
  /\ voice.phase \in {"call", "asked", "set", "confirm"}
  /\ GiveUp(Voice)
  /\ UNCHANGED voice

\* The daemon is gone: connect fails and the call ends at once.
CallRefused ==
  /\ pc = "ended" /\ voice.phase # "idle"
  /\ ~(voice.phase \in {"call", "asked", "set", "confirm"} /\ answer[Voice].result = "none")
  /\ Say("error")
  /\ UNCHANGED vars

VoiceStep ==
  \/ \E p \in Single \cup Moves : Hear(p)
  \/ CallAnswered \/ StatusAnswered \/ NextTarget \/ SetAnswered \/ ConfirmAnswered
  \/ CallTimeout \/ CallRefused

\* The other clients: a console (gimbalctl) that may be slow to speak or be killed.
OtherStep ==
  /\ \E c \in Client \ {Voice} :
       \/ \E cmd \in OtherCmds, sent \in BOOLEAN : Connect(c, [cmd |-> cmd, yaw |-> 0], sent)
       \/ Speak(c)
  /\ UNCHANGED voice

VoiceNext ==
  \/ VoiceStep
  \/ OtherStep
  \/ (Daemon \/ Environment) /\ UNCHANGED voice

VoiceSpec == VoiceInit /\ [][VoiceNext]_voiceVars

\* The daemon and the broker run, and a client that connected speaks sooner or
\* later (receive_json would wait for it for ever).
FairVoiceSpec ==
  /\ VoiceSpec
  /\ WF_voiceVars(Daemon /\ UNCHANGED voice)
  /\ WF_voiceVars(BrokerServes /\ UNCHANGED voice)
  /\ \A c \in Talker : WF_voiceVars(Speak(c) /\ UNCHANGED voice)

-----------------------------------------------------------------------------
(* Properties *)

\* "The camera has turned" is said only of a camera that did, however the calls
\* timed out and whatever other clients asked in between.
SaidIsDone ==
  voice.phase = "idle" /\ voice.said = "ok" /\ voice.prog \in Moves /\ gimbal.state = "active"
    => gimbal.goal = voice.at /\ gimbal.yaw = voice.at

\* A surroundings scan that succeeded leaves the camera facing ahead.
ScanEndsAhead ==
  voice.phase = "idle" /\ voice.said = "ok" /\ voice.prog = "scan" /\ gimbal.state = "active"
    => gimbal.goal = 0

\* Whatever the voice programs and the link do, another client that connected is
\* answered, or gives up, or the daemon ends: the wait for a target is bounded.
EveryoneIsServed ==
  \A c \in Client \ {Voice} : Connected(c) ~> ~Connected(c)
=============================================================================
