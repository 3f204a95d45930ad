----------------------------- MODULE ChassisNode -----------------------------
(***************************************************************************)
(* chassis_node.py with its BrokerClient (protocol.py): the ROS node that  *)
(* turns /cmd_vel into velocity commands of the remote core and its        *)
(* telemetry into odometry.  One thread runs the callbacks, and blocks in  *)
(* every request to the broker, so a request and its end are two steps     *)
(* with no callback between.  A request given up after 0.15 s closes the   *)
(* connection; the broker may carry it out later all the same, in any      *)
(* order with those of the next connection (they only meet at the device   *)
(* lock).                                                                  *)
(*                                                                         *)
(* Time is a count of ticks: ages stop at the first value past their       *)
(* limit. The firmware is the part of BalanceController.tla the node can   *)
(* tell apart.                                                             *)
(***************************************************************************)
EXTENDS Integers, Sequences

CONSTANTS
  CmdTimeout,   \* cmd_vel_timeout_s, in ticks
  ReplyTimeout, \* timeout_s of BrokerClient, in ticks
  Lifetime,     \* command_timeout_ms, after which the firmware drops a velocity
  Depth,        \* of the queue of the subscription
  MaxFaults     \* bound: crashes of either side, and requests carried out late

ASSUME TimeAssumption ==
  /\ CmdTimeout \in Nat \ {0} /\ ReplyTimeout \in Nat \ {0} /\ Lifetime \in Nat \ {0}
  /\ Depth \in Nat \ {0} /\ MaxFaults \in Nat

VARIABLES
  topic,    \* /cmd_vel: the messages that wait for the node
  cmd,      \* latest_command and the age of latest_command_time
  tel,      \* self.telemetry
  tracked,  \* self.track_configured
  asked,    \* the request the node is blocked in
  waited,   \* ticks since it was sent
  node,     \* "up", "closing" (destroy_node) or "down"
  odom,     \* the pose since the last reset: how many drives ago it was reset
  orphans,  \* requests given up on, or of a node that is gone
  sinceMove,\* ticks since a velocity other than zero was last taken
  wheels,   \* the firmware
  faults    \* how many there were

nodeVars == <<cmd, tel, tracked, asked, waited, node, odom>>
chassisVars == <<topic, nodeVars, orphans, sinceMove, wheels, faults>>

\* Velocities: linear and angular, each zero or not.
Rest == <<0, 0>>
Ahead == <<1, 0>>
Spin == <<0, 1>>
Vel == {Rest, Ahead, Spin}
Balance == {"DISABLED", "ACTIVE", "FAULT"}
Telemetry == [bal : Balance, track : BOOLEAN]
NoTelemetry == [bal |-> "none", track |-> FALSE]
Requests == [kind : {"velocity", "track", "status", "enable", "disable", "final"}, v : Vel]
NoRequest == [kind |-> "none", v |-> Rest]
TooOld == CmdTimeout + ReplyTimeout + Lifetime + 1

ChassisTypeOK ==
  /\ topic \in Seq(Vel) /\ Len(topic) <= Depth
  /\ cmd \in [v : Vel, age : 0..(CmdTimeout + 1)]
  /\ tel \in Telemetry \cup {NoTelemetry}
  /\ tracked \in BOOLEAN
  /\ asked \in Requests \cup {NoRequest}
  /\ waited \in 0..ReplyTimeout
  /\ node \in {"up", "closing", "down"}
  /\ odom \in {"reset", "moved", "stale"}
  /\ orphans \in SUBSET Requests /\ faults \in 0..MaxFaults
  /\ sinceMove \in 0..TooOld
  /\ wheels \in [bal : Balance, track : BOOLEAN, v : Vel, left : 0..Lifetime, late : BOOLEAN]

\* __init__: latest_command_time is 0.0, so the first command is too old.
ChassisInit ==
  /\ topic = <<>>
  /\ cmd = [v |-> Rest, age |-> CmdTimeout + 1]
  /\ tel = NoTelemetry /\ tracked = FALSE
  /\ asked = NoRequest /\ waited = 0
  /\ node = "up" /\ odom = "reset"
  /\ orphans = {} /\ faults = 0 /\ sinceMove = TooOld
  /\ wheels = [bal |-> "DISABLED", track |-> FALSE, v |-> Rest, left |-> 0, late |-> FALSE]

\* The subscription keeps the last messages; a node that is not there gets none.
Published(v) ==
  topic' = IF node = "down" THEN topic
           ELSE IF Len(topic) < Depth THEN Append(topic, v) ELSE Append(Tail(topic), v)

-----------------------------------------------------------------------------
(* Callbacks *)

Idle == node = "up" /\ asked = NoRequest

\* _on_cmd_vel
OnCmdVel ==
  /\ Idle /\ topic # <<>>
  /\ cmd' = [v |-> Head(topic), age |-> 0]
  /\ topic' = Tail(topic)
  /\ sinceMove' = IF Head(topic) = Rest THEN sinceMove ELSE 0
  /\ UNCHANGED <<tel, tracked, asked, waited, node, odom, orphans, wheels, faults>>

Ask(r) ==
  /\ asked' = r /\ waited' = 0
  /\ UNCHANGED <<topic, cmd, tel, tracked, odom, orphans, sinceMove, wheels, faults>>

\* _on_enable, _on_disable: the same blocking request, its answer only reported.
OnTrigger(kind) == Idle /\ Ask([kind |-> kind, v |-> Rest]) /\ UNCHANGED node

\* Faulty: the newest command is repeated however old it is.
CommandKept == IF tracked THEN cmd.v ELSE <<cmd.v[1], 0>>

\* _command: an old command counts as zero; no turning without a track width.
Command ==
  IF cmd.age > CmdTimeout THEN Rest
  ELSE IF tracked THEN cmd.v ELSE <<cmd.v[1], 0>>

\* _request_telemetry: what the timer asks of the remote core.
NextRequest ==
  IF tel.bal = "ACTIVE" THEN [kind |-> "velocity", v |-> Command]
  ELSE IF ~tracked /\ tel.bal \in {"none", "DISABLED"} THEN [kind |-> "track", v |-> Rest]
  ELSE [kind |-> "status", v |-> Rest]

\* The timer, up to its request.
Update == Idle /\ Ask(NextRequest) /\ UNCHANGED node

\* _update: the pose restarts at zero when balancing begins, and integrates the
\* measured speed while it lasts.  The first sample may already move it.
Odometry(t) ==
  IF t.bal = "ACTIVE" THEN IF tel.bal # "ACTIVE" THEN "reset" ELSE "moved"
  ELSE IF odom = "moved" THEN "stale" ELSE odom

\* The rest of _update; services report and change nothing.  t is the state the core
\* is in once it carried the request out: a reply is handled when it arrives.
Answered(t) ==
  IF asked.kind \in {"velocity", "track", "status"}
    THEN /\ tracked' = t.track
         /\ odom' = Odometry(t)
         /\ tel' = t
    ELSE UNCHANGED <<tracked, odom, tel>>

Fault == faults < MaxFaults /\ faults' = faults + 1

\* What the broker already has is not called back.
Orphaned == orphans' = orphans \cup ({asked} \ {NoRequest})

\* BrokerClient.request fails: the socket is closed, the telemetry stays as it was.
GiveUp ==
  /\ node = "up" /\ asked # NoRequest
  /\ UNCHANGED <<orphans, faults>> \/ (waited = ReplyTimeout /\ Orphaned /\ Fault)
  /\ asked' = NoRequest /\ waited' = 0
  /\ UNCHANGED <<topic, cmd, tel, tracked, node, odom, sinceMove, wheels>>

\* The process is gone, with all it knew and had not read.  __init__ starts from the same
\* values.
Down ==
  /\ node' = "down" /\ topic' = <<>>
  /\ cmd' = [v |-> Rest, age |-> CmdTimeout + 1]
  /\ tel' = NoTelemetry /\ tracked' = FALSE /\ odom' = "reset"
  /\ asked' = NoRequest /\ waited' = 0
  /\ UNCHANGED sinceMove

\* destroy_node: zero velocity when the robot was balancing, whatever comes of it.
Close ==
  /\ Idle
  /\ IF tel.bal = "ACTIVE"
       THEN node' = "closing" /\ Ask([kind |-> "final", v |-> Rest])
       ELSE Down /\ UNCHANGED <<orphans, wheels, faults>>

\* The process is killed; systemd starts it again.  The broker may still carry out the
\* request it was in.
Crash ==
  /\ node \in {"up", "closing"}
  /\ Down /\ Fault /\ UNCHANGED wheels
  /\ Orphaned \/ UNCHANGED orphans

Start ==
  /\ node = "down" /\ node' = "up"
  /\ UNCHANGED <<topic, cmd, tel, tracked, asked, waited, odom, orphans, sinceMove,
                 wheels, faults>>

-----------------------------------------------------------------------------
(* Broker, firmware and time *)

\* A velocity is refused unless it balances, and a turn unless it knows the track
\* width (balance_control_set_velocity).
Accepts(v) == wheels.bal = "ACTIVE" /\ (v = Spin => wheels.track)

\* A request at the remote core.
Executed(r) ==
  CASE r.kind \in {"velocity", "final"} ->
         IF Accepts(r.v)
           THEN [wheels EXCEPT !.v = r.v, !.left = IF r.v = Rest THEN 0 ELSE Lifetime, !.late = FALSE]
           ELSE wheels
    [] r.kind = "track" -> IF wheels.bal = "DISABLED" THEN [wheels EXCEPT !.track = TRUE] ELSE wheels
    [] r.kind = "enable" -> [wheels EXCEPT !.bal = "ACTIVE", !.v = Rest, !.left = 0, !.late = FALSE]
    [] r.kind = "disable" -> [wheels EXCEPT !.bal = "DISABLED", !.v = Rest, !.left = 0, !.late = FALSE]
    [] OTHER -> wheels

Sees(w) == [bal |-> w.bal, track |-> w.track]

BrokerServes ==
  /\ node = "up" /\ asked # NoRequest
  /\ wheels' = Executed(asked)
  /\ Answered(Sees(wheels'))
  /\ asked' = NoRequest /\ waited' = 0
  /\ UNCHANGED <<topic, cmd, node, orphans, sinceMove, faults>>

\* Carried out, but the reply does not arrive.
BrokerServesUnheard ==
  /\ node = "up" /\ asked # NoRequest
  /\ wheels' = Executed(asked)
  /\ asked' = NoRequest /\ waited' = 0
  /\ UNCHANGED <<topic, cmd, tel, tracked, node, odom, orphans, sinceMove, faults>>

\* The last request of destroy_node, carried out or not, or later.
Closed ==
  /\ node = "closing" /\ Down
  /\ \/ wheels' \in {wheels, Executed(asked)} /\ UNCHANGED <<orphans, faults>>
     \/ waited = ReplyTimeout /\ Orphaned /\ Fault /\ UNCHANGED wheels

BrokerServesLate ==
  \E r \in orphans :
    /\ wheels' = [Executed(r) EXCEPT !.late = IF r.kind = "velocity" /\ Accepts(r.v) THEN r.v # Rest ELSE @]
    /\ orphans' = orphans \ {r}
    /\ UNCHANGED <<topic, nodeVars, sinceMove, faults>>

\* Balancing faults, or the remote core restarts and forgets the track width.
WheelsFail ==
  /\ \/ wheels.bal = "ACTIVE"
        /\ wheels' = [wheels EXCEPT !.bal = "FAULT", !.v = Rest, !.left = 0, !.late = FALSE]
     \/ wheels' = [bal |-> "DISABLED", track |-> FALSE, v |-> Rest, left |-> 0, late |-> FALSE]
  /\ Fault
  /\ UNCHANGED <<topic, nodeVars, orphans, sinceMove>>

Older(n, limit) == IF n < limit THEN n + 1 ELSE n

\* A blocked request ends within ReplyTimeout.
Tick ==
  /\ asked # NoRequest => waited < ReplyTimeout
  /\ waited' = IF asked # NoRequest THEN waited + 1 ELSE waited
  /\ cmd' = [cmd EXCEPT !.age = Older(@, CmdTimeout + 1)]
  /\ sinceMove' = Older(sinceMove, TooOld)
  /\ wheels' = IF wheels.left > 1 THEN [wheels EXCEPT !.left = @ - 1]
                                  ELSE [wheels EXCEPT !.v = Rest, !.left = 0, !.late = FALSE]
  /\ UNCHANGED <<topic, tel, tracked, asked, node, odom, orphans, faults>>

ChassisStep ==
  \/ OnCmdVel \/ (\E k \in {"enable", "disable"} : OnTrigger(k)) \/ Update
  \/ BrokerServesUnheard \/ GiveUp \/ Close \/ Closed \/ Crash \/ Start
  \/ BrokerServes \/ BrokerServesLate \/ WheelsFail \/ Tick

\* Anything may publish velocities to the node.
VelocityPublished == \E v \in Vel : Published(v) /\ UNCHANGED <<nodeVars, orphans, sinceMove, wheels, faults>>

ChassisSpec == ChassisInit /\ [][ChassisStep \/ VelocityPublished]_chassisVars

-----------------------------------------------------------------------------
(* Properties *)

\* Unless they were set off by a request carried out after the node gave it up or was killed
\* in it, the wheels turn only while the last velocity the node took is younger than the
\* node's timeout, the reply's and the firmware's together, also when the node is killed.
VelocityExpires ==
  wheels.v # Rest /\ ~wheels.late => sinceMove <= CmdTimeout + ReplyTimeout + Lifetime
=============================================================================
