---------------------------- MODULE GimbalDaemon ----------------------------
(***************************************************************************)
(* gimbal_daemon.py: one thread that owns the gimbal.  It accepts one      *)
(* local client at a time, reads a request, carries it out as one or more  *)
(* transactions with the firmware through the RPMsg broker, and answers.   *)
(* gimbalctl.py, gimbal_voice.py (module GimbalVoice) and the state bridge *)
(* are its clients; each may give up while its request waits or runs.      *)
(*                                                                         *)
(* Granularity.  The daemon is sequential: sending a frame, receiving its  *)
(* reply (with everything computed until the next frame or the answer) and *)
(* giving up on it are its steps; the broker and the firmware run between. *)
(* The firmware is the part of GimbalController.tla the daemon can tell    *)
(* apart.  Frames carry a flag `late` the program has not: the daemon has  *)
(* already given up on the request they belong to.                         *)
(***************************************************************************)
EXTENDS Integers, Sequences, SequencesExt, TLC

CONSTANTS
  Client,         \* the programs that talk to the daemon
  NoClient,
  Listener,       \* clients whose use of the answer is modelled
  Talker,         \* clients that may connect and say nothing for a while
  Limit,          \* the yaw limits are -Limit and Limit
  Margin,         \* limit_margin_deg
  SequenceMod,    \* 2^8 in the code
  EnableTries,    \* 20 in the code
  SettleSamples,  \* 3 in the code
  MaxPolls,       \* status requests that fit in the 15 s of _wait_for_target
  Backlog,        \* bound: connections waiting to be accepted (8 in the code)
  MaxFaults       \* bound: replies later than 5 s and connections the broker closes

ASSUME ClientAssumption == 
  NoClient \notin Client /\ Talker \subseteq Client /\ Listener \subseteq Client
ASSUME LimitAssumption == Limit \in Nat /\ Margin \in Nat /\ Margin < Limit
ASSUME CountAssumption ==
  /\ EnableTries \in Nat /\ Backlog \in Nat
  /\ SettleSamples \in Nat \ {0} /\ MaxPolls \in Nat \ {0}
ASSUME FaultAssumption ==
  MaxFaults \in Nat /\ SequenceMod \in Nat /\ SequenceMod > MaxFaults

VARIABLES
  backlog,    \* connections not yet accepted, oldest first
  pc,         \* "accept", "receive", "handle" or "ended"
  job,        \* the connection being served
  stage,      \* the transaction the handler is at
  count,      \* enable retries, status requests of _wait_for_target
  settled,    \* settled_samples
  awaiting,   \* the frame is sent, its reply is not here
  sequence,   \* RpmsgGimbal.sequence
  answer,     \* what each client was told last
  wire,       \* frames sent to the broker, not yet carried out
  inbox,      \* replies in the daemon's socket
  link,       \* the broker's end of the connection is open
  faults,     \* late replies and closed connections so far
  gimbal      \* the firmware

daemonVars == <<pc, job, stage, count, settled, awaiting, sequence>>
faultVars == <<link, faults>>
vars == <<backlog, daemonVars, answer, wire, inbox, faultVars, gimbal>>

Yaw == -Limit..Limit
Moving == {"homing", "active"}
Stopped == {"disabled", "fault"}
State == Moving \cup Stopped \cup {"returning"}
Commands == {"status", "estop", "enable", "disable", "set"}
Requests == [cmd : Commands, yaw : Yaw]
Connections == [from : Client, cmd : Commands, yaw : Yaw, live : BOOLEAN, sent : BOOLEAN]
\* The answer to a client; only that to "status" is looked into.
Answers == [result : {"none", "ok", "error"}, ready : BOOLEAN, still : BOOLEAN, yaw : Yaw]
Told(result) == [result |-> result, ready |-> FALSE, still |-> FALSE, yaw |-> 0]
NoJob == [from |-> NoClient, cmd |-> "status", yaw |-> 0, live |-> FALSE, sent |-> TRUE]

\* Telemetry.parse: what the daemon makes of a reply.  Chosen when it is read are
\* `ready` (no fault bit, four valid limits, two feedbacks younger than 500 ms) and
\* `still` (both axes at 5 rpm or less).
Telemetry == [status : {"ok", "no_feedback", "refused"}, state : State,
              startup : {"safe", "unsafe"}, yaw : Yaw]
Frames == [cmd : {"limits", "status", "enable", "disable", "estop", "set"},
           seq : 0..(SequenceMod - 1), yaw : Yaw, late : BOOLEAN]

Stages == {"none", "limits", "enable", "unsafe", "query", "disable", "estop", "status",
           "check", "set", "wait", "endStatus", "endDisable", "endStop"}

TypeOK ==
  /\ backlog \in Seq(Connections)
  /\ pc \in {"accept", "receive", "handle", "ended"}
  /\ job \in Connections \cup {NoJob}
  /\ stage \in Stages
  /\ count \in 0..(EnableTries + MaxPolls)
  /\ settled \in 0..SettleSamples
  /\ awaiting \in BOOLEAN
  /\ sequence \in 0..(SequenceMod - 1)
  /\ answer \in [Listener -> Answers]
  /\ wire \in Seq(Frames)
  /\ inbox \in Seq([of : Frames, tel : Telemetry])
  /\ link \in BOOLEAN
  /\ faults \in 0..MaxFaults
  /\ gimbal \in [state : State, startup : {"safe", "unsafe"}, yaw : Yaw, goal : Yaw]

\* serve() up to its loop: the sequence starts at 0 and nobody is connected.
Init ==
  /\ backlog = <<>>
  /\ pc = "accept" /\ job = NoJob /\ stage = "none"
  /\ count = 0 /\ settled = 0
  /\ awaiting = FALSE /\ sequence = 0
  /\ answer = [c \in Listener |-> Told("none")]
  /\ wire = <<>> /\ inbox = <<>>
  /\ link = TRUE /\ faults = 0
  /\ gimbal = [state |-> "disabled", startup |-> "safe", yaw |-> 0, goal |-> 0]

-----------------------------------------------------------------------------
(* Clients *)

Tell(c, told) == IF c \in Listener THEN [answer EXCEPT ![c] = told] ELSE answer

Connected(c) ==
  \/ \E i \in DOMAIN backlog : backlog[i].from = c /\ backlog[i].live
  \/ job.from = c /\ job.live

\* A client connects and sends its request; one that talks slowly sends later.
Connect(c, r, sent) ==
  /\ pc # "ended"
  /\ ~Connected(c)
  /\ Len(backlog) < Backlog
  /\ sent \/ c \in Talker
  /\ backlog' = Append(backlog, [from |-> c, cmd |-> r.cmd, yaw |-> r.yaw,
                                 live |-> TRUE, sent |-> sent])
  /\ answer' = Tell(c, Told("none"))
  /\ UNCHANGED <<daemonVars, wire, inbox, faultVars, gimbal>>

\* The slow client sends its line at last.
Speak(c) ==
  /\ UNCHANGED <<pc, stage, count, settled, awaiting, sequence, answer,
                 wire, inbox, faultVars, gimbal>>
  /\ \/ job.from = c /\ ~job.sent /\ job' = [job EXCEPT !.sent = TRUE] /\ UNCHANGED backlog
     \/ \E i \in DOMAIN backlog :
          /\ backlog[i].from = c /\ ~backlog[i].sent
          /\ backlog' = [backlog EXCEPT ![i].sent = TRUE]
          /\ UNCHANGED job

\* A client gives up (the subprocess timeout of gimbal_voice.py, the socket
\* timeout of the bridge): what it sent stays in the socket, and is still read.
GiveUp(c) ==
  /\ Connected(c)
  /\ answer' = Tell(c, Told("error"))
  /\ backlog' = [i \in DOMAIN backlog |->
                   IF backlog[i].from = c THEN [backlog[i] EXCEPT !.live = FALSE, !.sent = TRUE]
                                          ELSE backlog[i]]
  /\ job' = IF job.from = c THEN [job EXCEPT !.live = FALSE, !.sent = TRUE] ELSE job
  /\ UNCHANGED <<pc, stage, count, settled, awaiting, sequence, wire, inbox,
                 faultVars, gimbal>>

-----------------------------------------------------------------------------
(* The accept loop *)

AcceptClient ==
  /\ pc = "accept"
  /\ backlog # <<>>
  /\ job' = Head(backlog)
  /\ backlog' = Tail(backlog)
  /\ pc' = "receive"
  /\ UNCHANGED <<stage, count, settled, awaiting, sequence, answer, wire, inbox,
                 faultVars, gimbal>>

\* The transaction a request starts with: GimbalService.handle
FirstStage(cmd) ==
  CASE cmd = "status" -> "status" [] cmd = "estop" -> "estop" [] cmd = "enable" -> "limits"
    [] cmd = "disable" -> "query" [] cmd = "set" -> "check"

\* receive_json: recv has no timeout on an accepted connection.
Receive ==
  /\ pc = "receive"
  /\ job.sent
  /\ pc' = "handle"
  /\ stage' = FirstStage(job.cmd)
  /\ UNCHANGED <<backlog, job, count, settled, awaiting, sequence, answer, wire,
                 inbox, faultVars, gimbal>>

\* SIGTERM or SIGINT sets stopping, which only the loop's condition reads: a signal
\* that came earlier is seen here, accept wakes up once a second.
Shutdown ==
  /\ pc = "accept"
  /\ pc' = "handle" /\ stage' = "endStatus"
  /\ UNCHANGED <<backlog, job, count, settled, awaiting, sequence, answer, wire,
                 inbox, faultVars, gimbal>>

\* send_json, or BrokenPipeError when the client is gone; then the next client.
\* In the shutdown: the end of the process, which closes every connection.
FinishWith(told) ==
  /\ stage' = "none" /\ count' = 0 /\ settled' = 0 /\ awaiting' = FALSE
  /\ job' = NoJob
  /\ IF stage \in {"endStatus", "endDisable", "endStop"}
       THEN /\ pc' = "ended"
            /\ answer' = [c \in Listener |-> IF Connected(c) THEN Told("error") ELSE answer[c]]
            /\ backlog' = <<>>
       ELSE /\ pc' = "accept"
            /\ answer' = IF job.live THEN Tell(job.from, told) ELSE answer
            /\ UNCHANGED backlog

Finish(result) == FinishWith(Told(result))

-----------------------------------------------------------------------------
(* RpmsgGimbal.transact *)

CommandOf(s) ==
  CASE s = "limits" -> "limits" [] s = "enable" -> "enable"
    [] s \in {"unsafe", "estop", "endStop"} -> "estop"
    [] s \in {"disable", "endDisable"} -> "disable" [] s = "set" -> "set"
    [] OTHER -> "status"

\* The frame goes out; on a connection the broker closed, send raises.
Send ==
  /\ pc = "handle" /\ ~awaiting
  /\ sequence' = (sequence + 1) % SequenceMod
  /\ IF link
       THEN /\ wire' = Append(wire, [cmd |-> CommandOf(stage), seq |-> sequence', yaw |-> job.yaw,
                                     late |-> FALSE])
            /\ awaiting' = TRUE
            /\ UNCHANGED <<backlog, pc, job, stage, count, settled, answer>>
       ELSE Finish("error") /\ UNCHANGED wire
  /\ UNCHANGED <<inbox, faultVars, gimbal>>

\* Faulty: the reply is not compared with the request.
AnyReply(r) == TRUE

\* reply_command and reply_sequence are those of the request.
OwnReply(r) == r.of.cmd = CommandOf(stage) /\ r.of.seq = sequence

GoTo(s) ==
  /\ stage' = s /\ awaiting' = FALSE
  /\ UNCHANGED <<backlog, pc, job, count, settled, answer>>

Result(t) == IF t.status = "ok" THEN "ok" ELSE "error"

\* GimbalService._require_motion_ready
MotionReady(t) == t.status = "ok" /\ t.state = "active" /\ t.ready

\* The flags of a telemetry that has no fault state, or may have none.
Sampled(t) ==
  {[status |-> t.status, state |-> t.state, startup |-> t.startup, yaw |-> t.yaw,
    ready |-> r, still |-> q] : r \in {FALSE, t.state # "fault"}, q \in BOOLEAN}

\* GimbalService._business_limits, for the yaw axis
InWorkspace(y) == y \in (Margin - Limit)..(Limit - Margin)

\* Faulty: no deadline.
WaitForever(t) == count' = count /\ GoTo("wait")

\* One turn of _wait_for_target after its status request; its deadline may pass
\* at any turn and has passed after MaxPolls of them.
WaitForTarget(t) ==
  LET reached == t.yaw = job.yaw /\ t.still
  IN  CASE ~MotionReady(t) -> Finish("error")
        [] MotionReady(t) /\ reached /\ settled + 1 = SettleSamples -> Finish("ok")
        [] OTHER ->
             \/ Finish("error")
             \/ /\ count + 1 < MaxPolls
                /\ count' = count + 1
                /\ settled' = IF reached THEN settled + 1 ELSE 0
                /\ awaiting' = FALSE
                /\ UNCHANGED <<backlog, pc, job, stage, answer>>

\* Faulty: the startup pitch is not looked at before the return.
ReturnAnywhere(t) == TRUE

\* GimbalService._return_position_is_safe
ReturnIsSafe(t) == t.startup = "safe"

\* RpmsgGimbal.enable: CMD_ENABLE is repeated while there is no feedback.
EnableReply(t) ==
  IF t.status = "no_feedback" /\ count < EnableTries
    THEN /\ count' = count + 1 /\ awaiting' = FALSE
         /\ UNCHANGED <<backlog, pc, job, stage, settled, answer>>
    ELSE IF t.status = "ok" /\ ~ReturnIsSafe(t) THEN GoTo("unsafe") ELSE Finish(Result(t))

\* GimbalService.handle: what the telemetry of a transaction leads to.
HandleReply(t) ==
  CASE stage = "status" ->
         FinishWith([result |-> Result(t), ready |-> MotionReady(t), still |-> t.still, yaw |-> t.yaw])
    [] stage \in {"estop", "disable"} -> Finish(Result(t))
    [] stage = "limits" -> IF t.status = "ok" THEN GoTo("enable") ELSE Finish(Result(t))
    [] stage = "enable" -> EnableReply(t)
    [] stage = "unsafe" -> Finish("error")
    [] stage = "query" -> IF ReturnIsSafe(t) THEN GoTo("disable") ELSE Finish("error")
    [] stage = "check" -> IF MotionReady(t) /\ InWorkspace(job.yaw) THEN GoTo("set") ELSE Finish("error")
    [] stage = "set" -> IF t.status = "ok" THEN GoTo("wait") ELSE Finish(Result(t))
    [] stage = "wait" -> WaitForTarget(t)

\* Faulty: a gimbal that has not finished its start is left alone.
ShutdownWhenActive(t) ==
  CASE stage = "endStatus" /\ t.state = "active" ->
         IF ReturnIsSafe(t) THEN GoTo("endDisable") ELSE GoTo("endStop")
    [] OTHER -> Finish("ok")

\* GimbalService.controlled_shutdown
ControlledShutdown(t) ==
  CASE stage = "endStatus" /\ t.state \notin Stopped ->
         IF ReturnIsSafe(t) THEN GoTo("endDisable") ELSE GoTo("endStop")
    [] OTHER -> Finish("ok")

\* recv: a reply to another request raises, and stays consumed.
Recv ==
  /\ awaiting /\ inbox # <<>>
  /\ inbox' = Tail(inbox)
  /\ LET r == Head(inbox)
     IN  IF ~OwnReply(r) THEN Finish("error")
         ELSE IF stage \in {"endStatus", "endDisable", "endStop"}
           THEN ControlledShutdown(r.tel)
           ELSE \E t \in Sampled(r.tel) : HandleReply(t)
  /\ UNCHANGED <<sequence, wire, faultVars, gimbal>>

\* select times out after 5 s; whatever is under way will come too late.
ReplyTimeout ==
  /\ awaiting /\ inbox = <<>> /\ link
  /\ faults < MaxFaults
  /\ faults' = faults + 1
  /\ wire' = [i \in DOMAIN wire |-> [wire[i] EXCEPT !.late = TRUE]]
  /\ Finish("error")
  /\ UNCHANGED <<sequence, inbox, link, gimbal>>

\* recv returns nothing: the broker closed the connection.
Disconnected ==
  /\ awaiting /\ inbox = <<>> /\ ~link
  /\ Finish("error")
  /\ UNCHANGED <<sequence, wire, inbox, faultVars, gimbal>>

-----------------------------------------------------------------------------
(* Broker and firmware *)

Replied(f, status, g) ==
  [of |-> f, tel |-> [status |-> status, state |-> g.state, startup |-> g.startup, yaw |-> g.yaw]]

\* What the firmware makes of a frame: the possible [status, gimbal] afterwards.
Outcomes(f) ==
  LET same(s) == [status |-> s, g |-> gimbal]
      to(s) == [status |-> "ok", g |-> [gimbal EXCEPT !.state = s]]
  IN  CASE f.cmd = "status" -> {same("ok")}
        [] f.cmd = "limits" -> {same(IF gimbal.state \in Stopped THEN "ok" ELSE "refused")}
        [] f.cmd = "estop" -> {to("disabled")}
        [] f.cmd = "enable" ->
             IF gimbal.state \notin Stopped THEN {same("refused")}
             ELSE {same("no_feedback")} \cup
                  {[status |-> "ok", g |-> [gimbal EXCEPT !.state = "homing", !.startup = p, !.goal = 0]]
                     : p \in {"safe", "unsafe"}}
        [] f.cmd = "disable" ->
             IF gimbal.state \in Moving
               THEN {[status |-> "ok", g |-> [gimbal EXCEPT !.state = s, !.goal = gimbal.yaw]]
                       : s \in {"returning", "disabled"}}
               ELSE {IF gimbal.state = "fault" THEN to("disabled") ELSE same("ok")}
        [] f.cmd = "set" ->
             IF gimbal.state = "active" THEN {[status |-> "ok", g |-> [gimbal EXCEPT !.goal = f.yaw]]}
                                        ELSE {same("refused")}

\* The broker carries out the oldest frame and passes its reply on.
BrokerServes ==
  /\ link /\ wire # <<>>
  /\ wire' = Tail(wire)
  /\ \E o \in Outcomes(Head(wire)) :
       /\ gimbal' = o.g
       /\ inbox' = Append(inbox, Replied(Head(wire), o.status, o.g))
  /\ UNCHANGED <<backlog, daemonVars, answer, faultVars>>

\* Its own transaction timed out: it closes the connection and drops the rest.
BrokerCuts ==
  /\ link /\ wire # <<>>
  /\ faults < MaxFaults
  /\ faults' = faults + 1
  /\ link' = FALSE
  /\ wire' = <<>>
  /\ gimbal' \in {gimbal} \cup {o.g : o \in Outcomes(Head(wire))}
  /\ UNCHANGED <<backlog, daemonVars, answer, inbox>>

\* gimbal_control_poll: the start ends, the camera moves, the return ends, a fault.
GimbalMoves ==
  /\ \/ gimbal.state = "homing" /\ gimbal' = [gimbal EXCEPT !.state = "active", !.yaw = 0]
     \/ gimbal.state = "active" /\ gimbal.yaw # gimbal.goal
        /\ gimbal' = [gimbal EXCEPT !.yaw = gimbal.goal]
     \/ gimbal.state = "returning" /\ gimbal' = [gimbal EXCEPT !.state = "disabled"]
     \/ gimbal.state \in Moving \cup {"returning"} /\ gimbal' = [gimbal EXCEPT !.state = "fault"]
  /\ UNCHANGED <<backlog, daemonVars, answer, wire, inbox, faultVars>>

-----------------------------------------------------------------------------
Serving == AcceptClient \/ Receive \/ Send \/ Recv \/ ReplyTimeout \/ Disconnected

Daemon == Serving \/ Shutdown

Environment == BrokerServes \/ BrokerCuts \/ GimbalMoves

-----------------------------------------------------------------------------
(* Properties *)

\* What a client, the return and the enable check are decided on is the reply to
\* the request just sent, never a late one to an earlier request.
OwnAnswer ==
  awaiting /\ inbox # <<>> /\ OwnReply(Head(inbox)) => ~Head(inbox).of.late

\* Nothing was lost: a gimbal that could not return safely is not left enabled
\* once the request that enabled it is over.
UnsafeIsStopped ==
  faults = 0 /\ pc \in {"accept", "receive", "ended"} /\ gimbal.state \in Moving
    => gimbal.startup = "safe"

\* Nothing was lost: the daemon leaves a gimbal behind that is off or on its way.
EndedIsOff == faults = 0 /\ pc = "ended" => gimbal.state \notin Moving
=============================================================================
