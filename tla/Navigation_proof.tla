-------------------------- MODULE Navigation_proof --------------------------
(***************************************************************************)
(* Proofs about the programs the robot drives by: the node that turns      *)
(* velocities into commands of the wheels, the preview of a route, the     *)
(* landmarks of the map with the change of site that clears them, and the  *)
(* pictures the web viewer gives to its pages.  They share no state, and   *)
(* each proof stands on its own.                                           *)
(***************************************************************************)
EXTENDS ChassisNode, NavigationPreview, SiteChange, WebViewer, SequenceTheorems, TLAPS

-----------------------------------------------------------------------------
(* The velocities: ChassisNode *)

(***************************************************************************)
(* VelocityExpires speaks of the wheels; a velocity reaches them through   *)
(* the latest command and the request the node is blocked in. At each of   *)
(* these places its age is bounded by the time it has had there: a command *)
(* is as old as it says, a request by its wait older than a command may    *)
(* be, and what is left of the firmware's time is what the wheels add.     *)
(***************************************************************************)
OnlyVelocitiesMove(r) == r.v # Rest => r.kind = "velocity"

MovesAreYoung ==
  /\ OnlyVelocitiesMove(asked) /\ \A r \in orphans : OnlyVelocitiesMove(r)
  /\ cmd.v # Rest /\ cmd.age <= CmdTimeout => sinceMove <= cmd.age
  /\ asked.v # Rest => sinceMove <= CmdTimeout + waited
  /\ wheels.v # Rest /\ ~wheels.late =>
       sinceMove + wheels.left <= CmdTimeout + ReplyTimeout + Lifetime

ChassisInv == ChassisTypeOK /\ MovesAreYoung

Wheels == [bal : Balance, track : BOOLEAN, v : Vel, left : 0..Lifetime, late : BOOLEAN]

LEMMA MovesMeanExpiry == ChassisInv => VelocityExpires
BY TimeAssumption DEF ChassisInv, ChassisTypeOK, MovesAreYoung, VelocityExpires, TooOld

LEMMA ChassisInitInv == ChassisInit => ChassisInv
<1> DEFINE no == FALSE
<1> HIDE DEF no
<1> SUFFICES ASSUME ChassisInit PROVE ChassisInv
  OBVIOUS
<1>1. Rest \in Vel /\ 0 \in 0..ReplyTimeout /\ 0 \in 0..MaxFaults /\ 0 \in 0..Lifetime
      /\ CmdTimeout + 1 \in 0..(CmdTimeout + 1) /\ TooOld \in 0..TooOld
  BY TimeAssumption DEF Vel, TooOld
<1>2. topic \in Seq(Vel) /\ Len(topic) <= Depth /\ cmd \in [v : Vel, age : 0..(CmdTimeout + 1)]
  BY <1>1, TimeAssumption DEF ChassisInit
<1>3. wheels \in Wheels
  <2>1. wheels = [bal |-> "DISABLED", track |-> no, v |-> Rest, left |-> 0, late |-> no]
    BY DEF ChassisInit, no
  <2>2. no \in BOOLEAN
    BY DEF no
  <2> QED  BY <1>1, <2>1, <2>2 DEF Wheels, Balance
<1>4. ChassisTypeOK
  BY <1>1, <1>2, <1>3 DEF ChassisInit, ChassisTypeOK, Wheels
<1>5. MovesAreYoung
  BY TimeAssumption DEF ChassisInit, MovesAreYoung, OnlyVelocitiesMove, NoRequest
<1> QED  BY <1>4, <1>5 DEF ChassisInv

-----------------------------------------------------------------------------
(* What the operators return *)

LEMMA CommandMoves ==
  ASSUME ChassisInv
  PROVE  Command \in Vel /\ (Command # Rest => sinceMove <= CmdTimeout)
<1>1. cmd \in [v : Vel, age : 0..(CmdTimeout + 1)] /\ sinceMove \in 0..TooOld
  BY DEF ChassisInv, ChassisTypeOK
<1>2. cmd.v \in Vel /\ cmd.age \in Int /\ sinceMove \in Int
  BY <1>1, TimeAssumption DEF TooOld
<1>3. CASE cmd.age > CmdTimeout
  BY <1>3 DEF Command, Vel
<1>4. CASE ~ (cmd.age > CmdTimeout)
  <2>1. cmd.v # Rest => sinceMove <= CmdTimeout
    BY <1>2, <1>4, TimeAssumption DEF ChassisInv, MovesAreYoung
  <2>2. <<cmd.v[1], 0>> \in Vel /\ (<<cmd.v[1], 0>> # Rest => cmd.v # Rest)
    BY <1>2 DEF Vel, Rest, Ahead, Spin
  <2> QED  BY <1>2, <1>4, <2>1, <2>2 DEF Command
<1> QED  BY <1>3, <1>4

LEMMA ExecutedMoves ==
  ASSUME ChassisInv, NEW r \in Requests \cup {NoRequest}, OnlyVelocitiesMove(r)
  PROVE  /\ Executed(r) \in Wheels
         /\ \/ Executed(r) = wheels
            \/ /\ Executed(r).v = r.v /\ Executed(r).late = FALSE
            \/ Executed(r).v = Rest
            \/ /\ Executed(r).v = wheels.v /\ Executed(r).late = wheels.late
               /\ Executed(r).left = wheels.left
         /\ r.kind = "velocity" /\ ~Accepts(r.v) => Executed(r) = wheels
         /\ r.kind = "velocity" /\ Accepts(r.v) => Executed(r).v = r.v
<1>1. wheels \in Wheels /\ r.v \in Vel /\ Rest \in Vel
  BY DEF ChassisInv, ChassisTypeOK, Wheels, Requests, NoRequest, Vel
<1>2. 0 \in 0..Lifetime /\ Lifetime \in 0..Lifetime
  BY TimeAssumption
<1> DEFINE no == FALSE
<1> DEFINE yes == TRUE
<1>3. no \in BOOLEAN /\ yes \in BOOLEAN
  OBVIOUS
<1> DEFINE driven == [wheels EXCEPT !.v = r.v, !.left = IF r.v = Rest THEN 0 ELSE Lifetime, !.late = no]
<1> DEFINE known == [wheels EXCEPT !.track = yes]
<1> DEFINE halted(b) == [wheels EXCEPT !.bal = b, !.v = Rest, !.left = 0, !.late = no]
<1>4. Executed(r) =
        IF r.kind \in {"velocity", "final"} THEN IF Accepts(r.v) THEN driven ELSE wheels
        ELSE IF r.kind = "track" THEN IF wheels.bal = "DISABLED" THEN known ELSE wheels
        ELSE IF r.kind = "enable" THEN halted("ACTIVE")
        ELSE IF r.kind = "disable" THEN halted("DISABLED") ELSE wheels
  BY DEF Executed
<1>9. no = FALSE
  OBVIOUS
<1> HIDE DEF no, yes
<1>5. driven \in Wheels /\ driven.v = r.v /\ driven.late = no
  BY <1>1, <1>2, <1>3 DEF Wheels
<1>6. known \in Wheels /\ known.v = wheels.v /\ known.late = wheels.late /\ known.left = wheels.left
  BY <1>1, <1>3 DEF Wheels
<1>7. ASSUME NEW b \in Balance PROVE halted(b) \in Wheels /\ halted(b).v = Rest
  BY <1>1, <1>2, <1>3 DEF Wheels
<1>8. "ACTIVE" \in Balance /\ "DISABLED" \in Balance
  BY DEF Balance
<1> HIDE DEF driven, known, halted
<1> QED  BY <1>1, <1>4, <1>5, <1>6, <1>7, <1>8, <1>9

LEMMA OdometryType ==
  ASSUME ChassisInv, NEW t
  PROVE  Odometry(t) \in {"reset", "moved", "stale"}
BY DEF ChassisInv, ChassisTypeOK, Odometry

LEMMA SeesType ==
  ASSUME NEW w \in Wheels
  PROVE  Sees(w) \in Telemetry /\ w.track \in BOOLEAN /\ Sees(w).track = w.track
BY DEF Sees, Telemetry, Wheels

LEMMA FaultType == ChassisInv /\ Fault => faults' \in 0..MaxFaults
BY TimeAssumption DEF ChassisInv, ChassisTypeOK, Fault

LEMMA AskedFacts ==
  ASSUME ChassisInv
  PROVE  /\ asked \in Requests \cup {NoRequest} /\ OnlyVelocitiesMove(asked)
         /\ sinceMove \in Nat /\ waited \in Nat /\ waited <= ReplyTimeout
         /\ asked.v # Rest => sinceMove <= CmdTimeout + waited
BY TimeAssumption DEF ChassisInv, ChassisTypeOK, MovesAreYoung, TooOld

\* The age of what the wheels do once they have carried out the request.
LEMMA ExecutedIsYoung ==
  ASSUME ChassisInv, NEW w, w = Executed(asked)
  PROVE  w \in Wheels /\ (w.v # Rest /\ ~w.late =>
                           sinceMove + w.left <= CmdTimeout + ReplyTimeout + Lifetime)
<1>1. w \in Wheels
  BY AskedFacts, ExecutedMoves
<1>2. w.left \in 0..Lifetime
  BY <1>1 DEF Wheels
<1>3. CASE w.v = asked.v
  <2>1. w.v # Rest => sinceMove <= CmdTimeout + waited
    BY <1>3, AskedFacts
  <2> DEFINE left == w.left
  <2>2. left \in 0..Lifetime
    BY <1>2
  <2> HIDE DEF left
  <2>3. w.v # Rest => sinceMove + left <= CmdTimeout + ReplyTimeout + Lifetime
    BY <2>1, <2>2, AskedFacts, TimeAssumption
  <2> QED  BY <1>1, <2>3 DEF left
<1>4. CASE w.v # Rest /\ w.v # asked.v
  <2>1. w.v = wheels.v /\ w.late = wheels.late /\ w.left = wheels.left
    BY <1>4, AskedFacts, ExecutedMoves
  <2> QED  BY <1>1, <2>1 DEF ChassisInv, MovesAreYoung
<1> QED  BY <1>1, <1>3, <1>4

-----------------------------------------------------------------------------
(* One lemma for each kind of step *)

LEMMA TakesVelocity == ChassisInv /\ OnCmdVel => ChassisInv'
<1> SUFFICES ASSUME ChassisInv, OnCmdVel PROVE ChassisInv'
  OBVIOUS
<1>1. Head(topic) \in Vel /\ Tail(topic) \in Seq(Vel) /\ Len(Tail(topic)) <= Depth
  BY TimeAssumption DEF ChassisInv, ChassisTypeOK, OnCmdVel
<1>2. cmd' = [v |-> Head(topic), age |-> 0] /\ cmd'.v = Head(topic) /\ cmd'.age = 0
  BY DEF OnCmdVel
<1>3. cmd' \in [v : Vel, age : 0..(CmdTimeout + 1)]
  BY <1>1, <1>2, TimeAssumption
<1>4. sinceMove' \in 0..TooOld /\ sinceMove' <= sinceMove /\ (Head(topic) # Rest => sinceMove' = 0)
  BY TimeAssumption DEF ChassisInv, ChassisTypeOK, OnCmdVel, TooOld
<1>5. ChassisTypeOK'
  BY <1>1, <1>3, <1>4 DEF ChassisInv, ChassisTypeOK, OnCmdVel
<1>6. asked' = asked /\ waited' = waited /\ orphans' = orphans /\ wheels' = wheels
  BY DEF OnCmdVel
<1>7. sinceMove \in Int /\ sinceMove' \in Int /\ waited \in Int /\ wheels.left \in Int
  BY <1>4, TimeAssumption DEF ChassisInv, ChassisTypeOK, TooOld
<1>8. MovesAreYoung'
  <2>1. (asked.v # Rest => sinceMove' <= CmdTimeout + waited)
        /\ (wheels.v # Rest /\ ~wheels.late =>
              sinceMove' + wheels.left <= CmdTimeout + ReplyTimeout + Lifetime)
    BY <1>4, <1>7, TimeAssumption DEF ChassisInv, MovesAreYoung
  <2>2. cmd'.v # Rest => sinceMove' <= cmd'.age
    BY <1>2, <1>4
  <2>3. OnlyVelocitiesMove(asked') /\ \A r \in orphans' : OnlyVelocitiesMove(r)
    BY <1>6 DEF ChassisInv, MovesAreYoung
  <2> QED  BY <1>6, <2>1, <2>2, <2>3 DEF MovesAreYoung
<1> QED  BY <1>5, <1>8 DEF ChassisInv

LEMMA Asks ==
  ASSUME ChassisInv, NEW r \in Requests, OnlyVelocitiesMove(r),
         r.v # Rest => sinceMove <= CmdTimeout,
         Ask(r), node' \in {node, "closing"}
  PROVE  ChassisInv'
<1>1. asked' = r /\ waited' = 0
      /\ UNCHANGED <<topic, cmd, tel, tracked, odom, orphans, sinceMove, wheels, faults>>
  BY DEF Ask
<1>2. ChassisTypeOK'
  BY <1>1, TimeAssumption DEF ChassisInv, ChassisTypeOK
<1>3. MovesAreYoung'
  BY <1>1, TimeAssumption DEF ChassisInv, MovesAreYoung
<1> QED  BY <1>2, <1>3 DEF ChassisInv

LEMMA NextRequestMoves ==
  ASSUME ChassisInv
  PROVE  NextRequest \in Requests /\ OnlyVelocitiesMove(NextRequest)
         /\ (NextRequest.v # Rest => sinceMove <= CmdTimeout)
<1>1. Rest \in Vel
  BY DEF Vel
<1> QED  BY <1>1, CommandMoves DEF NextRequest, Requests, OnlyVelocitiesMove

LEMMA GoesDown ==
  ASSUME ChassisInv, Down, wheels' \in Wheels, faults' \in 0..MaxFaults,
         wheels'.v # Rest /\ ~wheels'.late =>
           sinceMove + wheels'.left <= CmdTimeout + ReplyTimeout + Lifetime,
         orphans' \subseteq orphans \cup ({asked} \ {NoRequest})
  PROVE  ChassisInv'
<1>1. cmd' = [v |-> Rest, age |-> CmdTimeout + 1] /\ asked' = NoRequest /\ waited' = 0
      /\ topic' = <<>> /\ sinceMove' = sinceMove
  BY DEF Down
<1>7. topic' \in Seq(Vel) /\ Len(topic') <= Depth
  BY <1>1, TimeAssumption
<1>8. orphans' \subseteq Requests /\ \A r \in orphans' : OnlyVelocitiesMove(r)
  BY DEF ChassisInv, ChassisTypeOK, MovesAreYoung
<1>2. cmd' \in [v : Vel, age : 0..(CmdTimeout + 1)] /\ cmd'.v = Rest
  BY <1>1, TimeAssumption DEF Vel
<1> DEFINE no == FALSE
<1>6. tel' = NoTelemetry /\ tracked' = no /\ odom' = "reset" /\ node' = "down" /\ no \in BOOLEAN
  BY DEF Down
<1> HIDE DEF no
<1>3. ChassisTypeOK'
  BY <1>1, <1>2, <1>6, <1>7, <1>8, TimeAssumption DEF ChassisInv, ChassisTypeOK, Wheels
<1>4. OnlyVelocitiesMove(asked') /\ asked'.v = Rest
  BY <1>1 DEF NoRequest, OnlyVelocitiesMove
<1>5. MovesAreYoung'
  BY <1>1, <1>2, <1>4, <1>8 DEF ChassisInv, MovesAreYoung
<1> QED  BY <1>3, <1>5 DEF ChassisInv

LEMMA RequestEnds ==
  ASSUME ChassisInv, NEW w \in Wheels,
         w.v # Rest /\ ~w.late => sinceMove + w.left <= CmdTimeout + ReplyTimeout + Lifetime,
         wheels' = w, asked' = NoRequest, waited' = 0,
         tel' \in Telemetry \cup {NoTelemetry}, tracked' \in BOOLEAN,
         odom' \in {"reset", "moved", "stale"}, faults' \in 0..MaxFaults,
         orphans' \subseteq orphans \cup {asked}, orphans' \subseteq Requests,
         UNCHANGED <<topic, cmd, node, sinceMove>>
  PROVE  ChassisInv'
<1>1. ChassisTypeOK'
  BY TimeAssumption DEF ChassisInv, ChassisTypeOK, Wheels
<1>2. OnlyVelocitiesMove(asked') /\ asked'.v = Rest
  BY DEF NoRequest, OnlyVelocitiesMove
<1>3. MovesAreYoung'
  BY <1>2 DEF ChassisInv, MovesAreYoung
<1> QED  BY <1>1, <1>3 DEF ChassisInv

LEMMA GivesUp == ChassisInv /\ GiveUp => ChassisInv'
<1> SUFFICES ASSUME ChassisInv, GiveUp PROVE ChassisInv'
  OBVIOUS
<1>1. wheels \in Wheels /\ tel \in Telemetry \cup {NoTelemetry} /\ tracked \in BOOLEAN
      /\ odom \in {"reset", "moved", "stale"} /\ orphans \subseteq Requests
      /\ (wheels.v # Rest /\ ~wheels.late =>
            sinceMove + wheels.left <= CmdTimeout + ReplyTimeout + Lifetime)
  BY DEF ChassisInv, ChassisTypeOK, MovesAreYoung, Wheels
<1>2. faults' \in 0..MaxFaults
  BY FaultType DEF GiveUp, ChassisInv, ChassisTypeOK
<1>3. asked \in Requests /\ orphans' \subseteq orphans \cup {asked}
  BY DEF GiveUp, Orphaned, ChassisInv, ChassisTypeOK
<1> QED  BY <1>1, <1>2, <1>3, RequestEnds DEF GiveUp

LEMMA Serves == ChassisInv /\ (BrokerServes \/ BrokerServesUnheard) => ChassisInv'
<1> SUFFICES ASSUME ChassisInv, BrokerServes \/ BrokerServesUnheard PROVE ChassisInv'
  OBVIOUS
<1>1. wheels' = Executed(asked) /\ asked' = NoRequest /\ waited' = 0
      /\ UNCHANGED <<topic, cmd, node, sinceMove, orphans, faults>>
  BY DEF BrokerServes, BrokerServesUnheard
<1>2. wheels' \in Wheels /\ (wheels'.v # Rest /\ ~wheels'.late =>
                              sinceMove + wheels'.left <= CmdTimeout + ReplyTimeout + Lifetime)
  BY <1>1, ExecutedIsYoung
<1>3. tel \in Telemetry \cup {NoTelemetry} /\ tracked \in BOOLEAN /\ odom \in {"reset", "moved", "stale"}
      /\ orphans \subseteq Requests /\ faults \in 0..MaxFaults
  BY DEF ChassisInv, ChassisTypeOK
<1>4. tel' \in Telemetry \cup {NoTelemetry} /\ tracked' \in BOOLEAN /\ odom' \in {"reset", "moved", "stale"}
  <2>1. CASE BrokerServesUnheard
    BY <2>1, <1>3 DEF BrokerServesUnheard
  <2>2. CASE BrokerServes
    <3>1. Sees(wheels') \in Telemetry /\ Sees(wheels').track \in BOOLEAN
      BY <1>2, SeesType
    <3> DEFINE t == Sees(wheels')
    <3>2. Answered(t)
      BY <2>2 DEF BrokerServes
    <3> HIDE DEF t
    <3>3. (tel' = t /\ tracked' = t.track /\ odom' = Odometry(t)) \/ UNCHANGED <<tracked, odom, tel>>
      BY <3>2 DEF Answered
    <3> QED  BY <3>1, <3>3, <1>3, OdometryType DEF t
  <2> QED  BY <2>1, <2>2
<1> QED  BY <1>1, <1>2, <1>3, <1>4, RequestEnds

LEMMA ServesLate == ChassisInv /\ BrokerServesLate => ChassisInv'
<1> SUFFICES ASSUME ChassisInv, NEW r \in orphans,
               wheels' = [Executed(r) EXCEPT !.late = IF r.kind = "velocity" /\ Accepts(r.v) THEN r.v # Rest ELSE @],
               orphans' = orphans \ {r}, UNCHANGED <<topic, nodeVars, sinceMove, faults>>
             PROVE  ChassisInv'
  BY DEF BrokerServesLate
<1>1. r \in Requests /\ OnlyVelocitiesMove(r)
  BY DEF ChassisInv, ChassisTypeOK, MovesAreYoung
<1> DEFINE w == Executed(r)
<1> DEFINE moves == r.v # Rest
<1> DEFINE says == IF r.kind = "velocity" /\ Accepts(r.v) THEN moves ELSE w.late
<1>2. w \in Wheels
  BY <1>1, ExecutedMoves
<1>3. moves \in BOOLEAN /\ says \in BOOLEAN
  BY <1>2 DEF Wheels
<1>4. wheels' = [w EXCEPT !.late = says]
  OBVIOUS
<1>5. CASE r.kind = "velocity" /\ Accepts(r.v)
  <2>1. w.v = r.v /\ says = moves
    BY <1>1, <1>5, ExecutedMoves
  <2>2. wheels'.v # Rest => wheels'.late
    <3> HIDE DEF w
    <3>1. wheels'.v = r.v /\ wheels'.late = moves
      <4> HIDE DEF moves, says
      <4> QED  BY <1>2, <1>4, <2>1 DEF Wheels
    <3> QED  BY <3>1
  <2>3. wheels' \in Wheels
    <3> HIDE DEF w, says
    <3> QED  BY <1>2, <1>3, <1>4 DEF Wheels
  <2> QED  BY <2>2, <2>3 DEF ChassisInv, ChassisTypeOK, MovesAreYoung, Wheels, nodeVars
<1>6. CASE ~(r.kind = "velocity" /\ Accepts(r.v))
  <2>1. wheels' = w
    <3>1. says = w.late
      BY <1>6
    <3> HIDE DEF w, says
    <3> QED  BY <1>2, <1>4, <3>1 DEF Wheels
  <2>2. w.v = Rest \/ (w.v = wheels.v /\ w.late = wheels.late /\ w.left = wheels.left)
    BY <1>1, <1>6, ExecutedMoves DEF OnlyVelocitiesMove
  <2> HIDE DEF w
  <2> QED  BY <1>2, <2>1, <2>2 DEF ChassisInv, ChassisTypeOK, MovesAreYoung, Wheels, nodeVars
<1> QED  BY <1>5, <1>6

LEMMA Fails == ChassisInv /\ WheelsFail => ChassisInv'
<1> SUFFICES ASSUME ChassisInv, WheelsFail PROVE ChassisInv'
  OBVIOUS
<1> DEFINE no == FALSE
<1>1. \/ wheels' = [wheels EXCEPT !.bal = "FAULT", !.v = Rest, !.left = 0, !.late = no]
      \/ wheels' = [bal |-> "DISABLED", track |-> no, v |-> Rest, left |-> 0, late |-> no]
  BY DEF WheelsFail
<1>2. no \in BOOLEAN /\ Rest \in Vel /\ 0 \in 0..Lifetime /\ "FAULT" \in Balance /\ "DISABLED" \in Balance
  BY TimeAssumption DEF Vel, Balance
<1>3. wheels \in Wheels
  BY DEF ChassisInv, ChassisTypeOK, Wheels
<1> HIDE DEF no
<1>4. wheels' \in Wheels /\ wheels'.v = Rest
  <2>1. CASE wheels' = [bal |-> "DISABLED", track |-> no, v |-> Rest, left |-> 0, late |-> no]
    BY <1>2, <2>1 DEF Wheels
  <2>2. CASE wheels' = [wheels EXCEPT !.bal = "FAULT", !.v = Rest, !.left = 0, !.late = no]
    <3>1. wheels' = [bal |-> "FAULT", track |-> wheels.track, v |-> Rest, left |-> 0, late |-> no]
      BY <1>3, <2>2 DEF Wheels
    <3> QED  BY <1>2, <1>3, <3>1 DEF Wheels
  <2> QED  BY <1>1, <2>1, <2>2
<1>5. faults' \in 0..MaxFaults
  BY FaultType DEF WheelsFail
<1>6. UNCHANGED <<topic, nodeVars, orphans, sinceMove>>
  BY DEF WheelsFail
<1> QED  BY <1>4, <1>5, <1>6 DEF ChassisInv, ChassisTypeOK, MovesAreYoung, Wheels, nodeVars

LEMMA Ticks == ChassisInv /\ Tick => ChassisInv'
<1> SUFFICES ASSUME ChassisInv, Tick PROVE ChassisInv'
  OBVIOUS
<1>1. cmd \in [v : Vel, age : 0..(CmdTimeout + 1)] /\ sinceMove \in 0..TooOld /\ wheels \in Wheels
      /\ waited \in 0..ReplyTimeout
  BY DEF ChassisInv, ChassisTypeOK, Wheels
<1>2. cmd' \in [v : Vel, age : 0..(CmdTimeout + 1)] /\ cmd'.v = cmd.v
      /\ (cmd'.age <= CmdTimeout => cmd'.age = cmd.age + 1)
  <2>1. Older(cmd.age, CmdTimeout + 1) \in 0..(CmdTimeout + 1)
        /\ (Older(cmd.age, CmdTimeout + 1) <= CmdTimeout => Older(cmd.age, CmdTimeout + 1) = cmd.age + 1)
    BY <1>1, TimeAssumption DEF Older
  <2> DEFINE a == Older(cmd.age, CmdTimeout + 1)
  <2>2. cmd' = [cmd EXCEPT !.age = a]
    BY DEF Tick
  <2> HIDE DEF a
  <2>3. cmd'.v = cmd.v /\ cmd'.age = a
    BY <1>1, <2>2
  <2>4. a \in 0..(CmdTimeout + 1)
    BY <2>1 DEF a
  <2>5. a <= CmdTimeout => a = cmd.age + 1
    BY <2>1 DEF a
  <2> QED  BY <1>1, <2>2, <2>3, <2>4, <2>5
<1>3. sinceMove' \in 0..TooOld /\ sinceMove' <= sinceMove + 1
  BY <1>1, TimeAssumption DEF Tick, Older, TooOld
<1>4. waited' \in 0..ReplyTimeout /\ (asked # NoRequest => waited' = waited + 1)
  BY <1>1, TimeAssumption DEF Tick
<1> DEFINE no == FALSE
<1>5. wheels' = IF wheels.left > 1 THEN [wheels EXCEPT !.left = wheels.left - 1]
                                   ELSE [wheels EXCEPT !.v = Rest, !.left = 0, !.late = no]
  BY DEF Tick
<1>6. no \in BOOLEAN /\ Rest \in Vel
  BY DEF Vel
<1> HIDE DEF no
<1>7. wheels' \in Wheels
      /\ (wheels'.v # Rest => wheels'.v = wheels.v /\ wheels'.late = wheels.late
                              /\ wheels'.left = wheels.left - 1)
  <2>1. CASE wheels.left > 1
    <3>1. wheels.left - 1 \in 0..Lifetime
      BY <1>1, <2>1, TimeAssumption DEF Wheels
    <3> DEFINE l == wheels.left - 1
    <3>2. wheels' = [wheels EXCEPT !.left = l]
      BY <1>5, <2>1
    <3>3. l \in 0..Lifetime
      BY <3>1
    <3> HIDE DEF l
    <3>4. wheels' = [bal |-> wheels.bal, track |-> wheels.track, v |-> wheels.v, left |-> l, late |-> wheels.late]
      BY <1>1, <3>2 DEF Wheels
    <3>5. wheels' \in Wheels /\ wheels'.v = wheels.v /\ wheels'.late = wheels.late /\ wheels'.left = l
      BY <1>1, <3>3, <3>4 DEF Wheels
    <3> QED  BY <3>5 DEF l
  <2>2. CASE ~(wheels.left > 1)
    <3>1. wheels' = [wheels EXCEPT !.v = Rest, !.left = 0, !.late = no]
      BY <1>5, <2>2
    <3>2. wheels' = [bal |-> wheels.bal, track |-> wheels.track, v |-> Rest, left |-> 0, late |-> no]
      BY <1>1, <3>1 DEF Wheels
    <3>3. 0 \in 0..Lifetime
      BY TimeAssumption
    <3> QED  BY <1>1, <1>6, <3>2, <3>3 DEF Wheels
  <2> QED  BY <2>1, <2>2
<1>8. UNCHANGED <<topic, tel, tracked, asked, node, odom, orphans, faults>>
  BY DEF Tick
<1>9. ChassisTypeOK'
  BY <1>2, <1>3, <1>4, <1>7, <1>8 DEF ChassisInv, ChassisTypeOK, Wheels
<1>10. sinceMove \in Int /\ sinceMove' \in Int /\ waited \in Int /\ cmd.age \in Int /\ wheels.left \in Int
       /\ cmd'.age \in Int
  BY <1>1, <1>2, <1>3, TimeAssumption DEF TooOld, Wheels
<1>11. cmd'.v # Rest /\ cmd'.age <= CmdTimeout => sinceMove' <= cmd'.age
  BY <1>2, <1>3, <1>10, TimeAssumption DEF ChassisInv, MovesAreYoung
<1>12. asked'.v # Rest => sinceMove' <= CmdTimeout + waited'
  <2> SUFFICES ASSUME asked'.v # Rest PROVE sinceMove' <= CmdTimeout + waited'
    OBVIOUS
  <2>1. asked.v # Rest /\ asked # NoRequest
    BY <1>8 DEF NoRequest
  <2>2. sinceMove <= CmdTimeout + waited /\ waited' = waited + 1
    BY <1>4, <2>1 DEF ChassisInv, MovesAreYoung
  <2> QED  BY <1>3, <1>10, <2>2, TimeAssumption
<1>13. wheels'.v # Rest /\ ~wheels'.late =>
         sinceMove' + wheels'.left <= CmdTimeout + ReplyTimeout + Lifetime
  BY <1>3, <1>7, <1>10, TimeAssumption DEF ChassisInv, MovesAreYoung
<1>14. MovesAreYoung'
  BY <1>8, <1>11, <1>12, <1>13 DEF ChassisInv, MovesAreYoung
<1> QED  BY <1>9, <1>14 DEF ChassisInv

-----------------------------------------------------------------------------

LEMMA ChassisStepInv == ChassisInv /\ [ChassisStep \/ VelocityPublished]_chassisVars => ChassisInv'
<1> SUFFICES ASSUME ChassisInv, [ChassisStep \/ VelocityPublished]_chassisVars PROVE ChassisInv'
  OBVIOUS
<1>1. ASSUME NEW k \in {"enable", "disable"}, OnTrigger(k) PROVE ChassisInv'
  <2>1. [kind |-> k, v |-> Rest] \in Requests /\ OnlyVelocitiesMove([kind |-> k, v |-> Rest])
    BY <1>1 DEF Requests, Vel, OnlyVelocitiesMove
  <2> QED  BY <1>1, <2>1, Asks DEF OnTrigger
<1>2. CASE Update
  BY <1>2, NextRequestMoves, Asks DEF Update
<1>3. wheels \in Wheels /\ faults \in 0..MaxFaults
      /\ (wheels.v # Rest /\ ~wheels.late =>
            sinceMove + wheels.left <= CmdTimeout + ReplyTimeout + Lifetime)
  BY DEF ChassisInv, ChassisTypeOK, MovesAreYoung, Wheels
<1>4. CASE Close
  <2>1. CASE tel.bal = "ACTIVE"
    <3>1. [kind |-> "final", v |-> Rest] \in Requests /\ OnlyVelocitiesMove([kind |-> "final", v |-> Rest])
      BY DEF Requests, Vel, OnlyVelocitiesMove
    <3> QED  BY <1>4, <2>1, <3>1, Asks DEF Close
  <2>2. CASE tel.bal # "ACTIVE"
    BY <1>3, <1>4, <2>2, GoesDown DEF Close
  <2> QED  BY <2>1, <2>2
<1>5. CASE Closed
  <2>0. Down
    BY <1>5 DEF Closed
  <2>1. CASE wheels' \in {wheels, Executed(asked)} /\ UNCHANGED <<orphans, faults>>
    <3>1. wheels' \in Wheels /\ (wheels'.v # Rest /\ ~wheels'.late =>
            sinceMove + wheels'.left <= CmdTimeout + ReplyTimeout + Lifetime)
      BY <1>3, <2>1, ExecutedIsYoung
    <3> QED BY <1>3, <2>0, <2>1, <3>1, GoesDown
  <2>2. CASE Orphaned /\ Fault /\ UNCHANGED wheels
    <3>1. orphans' \subseteq orphans \cup ({asked} \ {NoRequest})
      BY <2>2 DEF Orphaned
    <3> QED BY <1>3, <2>0, <2>2, <3>1, FaultType, GoesDown
  <2> QED BY <1>5, <2>1, <2>2 DEF Closed
<1>6. CASE Crash
  <2>1. Down /\ Fault /\ UNCHANGED wheels /\ orphans' \subseteq orphans \cup ({asked} \ {NoRequest})
    BY <1>6 DEF Crash, Orphaned
  <2> QED BY <1>3, <2>1, FaultType, GoesDown
<1>7. CASE Start
  BY <1>7 DEF Start, ChassisInv, ChassisTypeOK, MovesAreYoung
<1>8. CASE VelocityPublished
  <2>1. topic' \in Seq(Vel) /\ Len(topic') <= Depth
    BY <1>8, TimeAssumption DEF VelocityPublished, Published, ChassisInv, ChassisTypeOK
  <2> QED  BY <1>8, <2>1 DEF VelocityPublished, ChassisInv, ChassisTypeOK, MovesAreYoung, nodeVars
<1>9. CASE UNCHANGED chassisVars
  BY <1>9 DEF chassisVars, nodeVars, ChassisInv, ChassisTypeOK, MovesAreYoung
<1> QED
  BY <1>1, <1>2, <1>4, <1>5, <1>6, <1>7, <1>8, <1>9,
     TakesVelocity, Serves, GivesUp, ServesLate, Fails, Ticks DEF ChassisStep

\* chassis_node.py and the broker: every command that still can turn the wheels was asked for
\* by a velocity that is young enough, and so is what the wheels do.
THEOREM ChassisInvariant == ChassisSpec => []ChassisInv
<1> QED  BY ChassisInitInv, ChassisStepInv, PTL DEF ChassisSpec

\* The wheels turn no longer than the command's own time and the two timeouts after the last
\* velocity (chassis_node.py), also when the topic falls silent and requests are lost.
THEOREM VelocitiesExpire == ChassisSpec => []VelocityExpires
<1> QED  BY ChassisInvariant, MovesMeanExpiry, PTL

-----------------------------------------------------------------------------
(* The preview of a route: NavigationPreview *)

(***************************************************************************)
(* PreviewSettles speaks of a page at rest. What the page will show then   *)
(* is what the bridge told last: the sample still on a topic, or what is   *)
(* shown. While a click is under way nothing need fit, for it has already  *)
(* cleared the page; the bridge ends it by telling path and status         *)
(* together. After that they fit, because a plan that can still answer is  *)
(* the only one of its generation, and no route is told before it does.    *)
(***************************************************************************)
Clicked ==
  \/ \E b \in Browsers : browser[b] # Unsent
  \/ wire.goals # <<>> \/ wire.clears > 0

ToldPath == IF wire.path # Unsent THEN wire.path ELSE shown.path
ToldStatus == IF wire.status # Unsent THEN wire.status ELSE shown.status

Topics == [goals : Seq(Spots), clears : Nat, path : Spot \cup {Unsent}, status : Statuses \cup {Unsent}]
Bridge == [generation : Nat, active : Nat, goal : Spot]
Plans == [generation : Nat, goal : Spots,
          phase : Phases]

RouteShape ==
  /\ shown \in [goal : Spot, path : Spot, status : Statuses]
  /\ browser \in [Browsers -> Spots \cup {Unsent, Clear}]
  /\ wire \in Topics /\ planner \in Bridge /\ plans \subseteq Plans
  /\ grid \subseteq Spots

PlansAreKnown ==
  /\ \A p \in plans : p.generation <= planner.generation /\ (IsCurrent(p) => p.goal = planner.goal)
  /\ \A p \in plans : \A q \in plans : p.generation = q.generation => p = q

ToldFits ==
  ~Clicked =>
    /\ ToldPath \in {NoSpot, planner.goal}
    /\ Fit(ToldPath, ToldStatus)
    /\ \A p \in plans : IsCurrent(p) => ToldPath = NoSpot

RouteInv == RouteShape /\ PlansAreKnown /\ ToldFits

LEMMA RouteSettles == RouteInv => PreviewSettles
<1> SUFFICES ASSUME RouteInv, AtRest
             PROVE  shown.path \in {NoSpot, planner.goal} /\ Fit(shown.path, shown.status)
  BY DEF PreviewSettles
<1>1. \A b \in Browsers : browser[b] = Unsent
  BY DEF AtRest
<1>2. wire.goals = <<>> /\ wire.clears = 0 /\ wire.path = Unsent /\ wire.status = Unsent
  BY DEF AtRest
<1>3. ~Clicked
  BY <1>1, <1>2 DEF Clicked
<1> QED  BY <1>2, <1>3 DEF RouteInv, ToldFits, ToldPath, ToldStatus

LEMMA RouteInitInv == PreviewInit => RouteInv
BY PreviewAssumption
DEF PreviewInit, RouteInv, RouteShape, PlansAreKnown, ToldFits, Fit, ToldPath, ToldStatus, Topics, Bridge,
    Spot, Statuses, Unsent, NoSpot

-----------------------------------------------------------------------------
(* What is told *)

LEMMA WordsDiffer ==
  /\ NoSpot # Unsent /\ NoSpot \in Spot /\ NoSpot \notin Spots /\ Unsent \notin Spots
  /\ Clear \notin Spots /\ Clear # Unsent
  /\ \A s \in Statuses : s # Unsent
BY PreviewAssumption DEF NoSpot, Unsent, Clear, Spot, Statuses

LEMMA Telling ==
  ASSUME NEW w \in Topics, NEW path \in Spot, NEW told \in Statuses
  PROVE  /\ Tells(w, path, told) \in Topics
         /\ Tells(w, path, told).path = path /\ Tells(w, path, told).status = told
         /\ Tells(w, path, told).goals = w.goals /\ Tells(w, path, told).clears = w.clears
BY DEF Tells, Topics

\* What is on the topics after a telling reaches the page, whatever it shows now.
LEMMA ToldNow ==
  ASSUME NEW w \in Topics, NEW path \in Spot, NEW told \in Statuses,
         wire' = Tells(w, path, told)
  PROVE  ToldPath' = path /\ ToldStatus' = told /\ wire' \in Topics
<1>1. wire'.path = path /\ wire'.status = told /\ wire' \in Topics
  BY Telling
<1>2. path # Unsent /\ told # Unsent
  BY WordsDiffer DEF Spot
<1> QED  BY <1>1, <1>2 DEF ToldPath, ToldStatus

-----------------------------------------------------------------------------
(* The page *)

LEMMA PageClicks ==
  ASSUME RouteInv, NEW b \in Browsers, NEW what \in Spots \cup {Clear},
         shown' \in [goal : Spot, path : Spot, status : Statuses],
         browser' = [browser EXCEPT ![b] = what],
         UNCHANGED <<grid, wire, planner, plans>>
  PROVE  RouteInv'
<1>1. browser' \in [Browsers -> Spots \cup {Unsent, Clear}] /\ browser'[b] = what /\ what # Unsent
  BY WordsDiffer DEF RouteInv, RouteShape
<1>2. Clicked'
  BY <1>1 DEF Clicked
<1>3. RouteShape'
  BY <1>1 DEF RouteInv, RouteShape
<1>4. PlansAreKnown'
  BY DEF RouteInv, PlansAreKnown, IsCurrent
<1> QED  BY <1>2, <1>3, <1>4 DEF RouteInv, ToldFits

LEMMA PagePublishes ==
  ASSUME RouteInv, NEW b \in Browsers, PublishesClick(b)
  PROVE  RouteInv'
<1>1. browser' = [browser EXCEPT ![b] = Unsent] /\ UNCHANGED <<shown, grid, planner, plans, clicks>>
      /\ browser[b] \in Spots \cup {Clear}
  BY DEF PublishesClick, RouteInv, RouteShape
<1>2. browser' \in [Browsers -> Spots \cup {Unsent, Clear}]
  BY <1>1 DEF RouteInv, RouteShape
<1>3. wire \in Topics
  BY DEF RouteInv, RouteShape
<1>4. wire' \in Topics /\ (wire'.clears > 0 \/ wire'.goals # <<>>)
  <2>1. CASE browser[b] = Clear
    <3>1. wire' = [wire EXCEPT !.clears = wire.clears + 1]
      BY <2>1 DEF PublishesClick
    <3>2. wire.clears + 1 \in Nat /\ wire.clears + 1 > 0
      BY <1>3 DEF Topics
    <3> QED  BY <1>3, <3>1, <3>2 DEF Topics
  <2>2. CASE browser[b] # Clear
    <3> DEFINE goals == Append(wire.goals, browser[b])
    <3>1. wire' = [wire EXCEPT !.goals = goals]
      BY <2>2 DEF PublishesClick
    <3>2. browser[b] \in Spots
      BY <1>1, <2>2
    <3>3. goals \in Seq(Spots) /\ goals # <<>>
      BY <1>3, <3>2 DEF Topics
    <3> HIDE DEF goals
    <3> QED  BY <1>3, <3>1, <3>3 DEF Topics
  <2> QED  BY <2>1, <2>2
<1>5. Clicked'
  BY <1>4 DEF Clicked
<1>6. RouteShape'
  BY <1>1, <1>2, <1>4 DEF RouteInv, RouteShape
<1>7. PlansAreKnown'
  BY <1>1 DEF RouteInv, PlansAreKnown, IsCurrent
<1> QED  BY <1>5, <1>6, <1>7 DEF RouteInv, ToldFits

\* The page takes a sample over from a topic: what is told stays the same.
LEMMA PageReads ==
  ASSUME RouteInv, OnNavigationPath \/ OnNavigationStatus
  PROVE  RouteInv'
<1>1. shown \in [goal : Spot, path : Spot, status : Statuses] /\ wire \in Topics
  BY DEF RouteInv, RouteShape
<1>2. UNCHANGED <<grid, browser, planner, plans>>
  BY DEF OnNavigationPath, OnNavigationStatus
<1>3. /\ shown' \in [goal : Spot, path : Spot, status : Statuses] /\ wire' \in Topics
      /\ wire'.goals = wire.goals /\ wire'.clears = wire.clears
      /\ ToldPath' = ToldPath /\ ToldStatus' = ToldStatus
  <2>1. CASE OnNavigationPath
    <3>1. wire.path # Unsent /\ shown' = [shown EXCEPT !.path = wire.path]
          /\ wire' = [wire EXCEPT !.path = Unsent] /\ wire.path \in Spot
      BY <1>1, <2>1 DEF OnNavigationPath, Topics
    <3> QED  BY <1>1, <3>1 DEF Topics, ToldPath, ToldStatus
  <2>2. CASE OnNavigationStatus
    <3>1. wire.status # Unsent /\ shown' = [shown EXCEPT !.status = wire.status]
          /\ wire' = [wire EXCEPT !.status = Unsent] /\ wire.status \in Statuses
      BY <1>1, <2>2 DEF OnNavigationStatus, Topics
    <3> QED  BY <1>1, <3>1 DEF Topics, ToldPath, ToldStatus
  <2> QED  BY <2>1, <2>2
<1>4. RouteShape'
  BY <1>2, <1>3 DEF RouteInv, RouteShape
<1>5. PlansAreKnown'
  BY <1>2 DEF RouteInv, PlansAreKnown, IsCurrent
<1>6. Clicked' => Clicked
  BY <1>2, <1>3 DEF Clicked
<1>7. Clicked => Clicked'
  BY <1>2, <1>3 DEF Clicked
<1>8. ToldFits'
  <2> SUFFICES ASSUME ~Clicked
               PROVE  /\ ToldPath' \in {NoSpot, planner'.goal}
                      /\ Fit(ToldPath, ToldStatus)'
                      /\ \A p \in plans' : IsCurrent(p)' => ToldPath' = NoSpot
    BY <1>7 DEF ToldFits
  <2> QED  BY <1>2, <1>3 DEF RouteInv, ToldFits, Fit, IsCurrent
<1> QED  BY <1>4, <1>5, <1>8 DEF RouteInv

-----------------------------------------------------------------------------
(* The bridge takes a click *)

LEMMA BridgeClears == RouteInv /\ OnClear => RouteInv'
<1> SUFFICES ASSUME RouteInv, OnClear PROVE RouteInv'
  OBVIOUS
<1> DEFINE w == [wire EXCEPT !.clears = wire.clears - 1]
<1>1. wire \in Topics /\ planner \in Bridge /\ wire.clears > 0
  BY DEF RouteInv, RouteShape, OnClear
<1>2. w \in Topics
  <2>1. wire.clears - 1 \in Nat
    BY <1>1 DEF Topics
  <2> QED  BY <1>1, <2>1 DEF Topics
<1>3. wire' = Tells(w, NoSpot, "idle") /\ UNCHANGED <<shown, grid, browser, plans, clicks>>
      /\ planner' = [generation |-> planner.generation + 1, active |-> 0, goal |-> NoSpot]
  BY DEF OnClear
<1> HIDE DEF w
<1>4. "idle" \in Statuses /\ "idle" # "ready"
  BY DEF Statuses
<1>5. ToldPath' = NoSpot /\ ToldStatus' = "idle" /\ wire' \in Topics
  BY <1>2, <1>3, <1>4, WordsDiffer, ToldNow
<1>6. planner' \in Bridge /\ planner'.generation = planner.generation + 1 /\ planner.generation \in Nat
  BY <1>1, <1>3, WordsDiffer DEF Bridge
<1>7. \A p \in plans : p.generation \in Nat /\ p.generation <= planner.generation
  BY DEF RouteInv, RouteShape, PlansAreKnown, Plans
<1>8. \A p \in plans : p.generation <= planner'.generation /\ p.generation # planner'.generation
  BY <1>6, <1>7
<1>9. PlansAreKnown'
  BY <1>3, <1>8 DEF RouteInv, PlansAreKnown, IsCurrent
<1>10. RouteShape'
  BY <1>3, <1>5, <1>6 DEF RouteInv, RouteShape
<1>11. ToldFits'
  BY <1>4, <1>5 DEF ToldFits, Fit
<1> QED  BY <1>9, <1>10, <1>11 DEF RouteInv

LEMMA BridgeTakes ==
  ASSUME RouteInv, NEW ready \in BOOLEAN, OnGoal(ready)
  PROVE  RouteInv'
<1> DEFINE goal == Head(wire.goals)
<1> DEFINE generation == planner.generation + 1
<1> DEFINE told == IF ready THEN "planning" ELSE "failed"
<1> DEFINE new == [generation |-> generation, goal |-> goal, phase |-> "sent"]
<1> DEFINE w == [wire EXCEPT !.goals = Tail(wire.goals)]
<1>1. wire \in Topics /\ planner \in Bridge /\ wire.goals # <<>>
  BY DEF RouteInv, RouteShape, OnGoal
<1>2. goal \in Spots /\ Tail(wire.goals) \in Seq(Spots)
  BY <1>1 DEF Topics
<1>3. w \in Topics
  BY <1>1, <1>2 DEF Topics
<1>4. /\ planner' = [generation |-> generation, active |-> 0, goal |-> goal]
      /\ wire' = Tells(w, NoSpot, told)
      /\ plans' = IF ready THEN plans \cup {new} ELSE plans
      /\ UNCHANGED <<shown, grid, browser, clicks>>
  BY DEF OnGoal
<1>5. told \in Statuses /\ told # "ready"
  BY DEF Statuses
<1>6. generation \in Nat /\ generation > planner.generation /\ planner.generation \in Nat
  BY <1>1 DEF Bridge
<1> HIDE DEF w, told, goal
<1>7. ToldPath' = NoSpot /\ ToldStatus' = told /\ wire' \in Topics
  BY <1>3, <1>4, <1>5, WordsDiffer, ToldNow
<1>8. new \in Plans /\ new.generation = generation /\ new.goal = goal
  BY <1>2, <1>6 DEF Plans, Phases
<1>9. planner' \in Bridge /\ planner'.generation = generation /\ planner'.goal = goal
  BY <1>2, <1>4, <1>6 DEF Bridge, Spot
<1>10. \A p \in plans : p.generation \in Nat /\ p.generation <= planner.generation
  BY DEF RouteInv, RouteShape, PlansAreKnown, Plans
<1> HIDE DEF generation, new
<1>11. \A p \in plans : p.generation <= generation /\ p.generation # generation
  BY <1>6, <1>10
<1>12. plans' \subseteq plans \cup {new}
  BY <1>4
<1>13. PlansAreKnown'
  <2>1. \A p \in plans' : p.generation <= generation /\ (p.generation = generation => p = new)
    BY <1>6, <1>8, <1>11, <1>12
  <2>2. \A p \in plans' : \A q \in plans' : p.generation = q.generation => p = q
    BY <1>8, <1>11, <1>12 DEF RouteInv, PlansAreKnown
  <2> QED  BY <1>8, <1>9, <2>1, <2>2 DEF PlansAreKnown, IsCurrent
<1>14. RouteShape'
  BY <1>4, <1>7, <1>8, <1>9, <1>12 DEF RouteInv, RouteShape
<1>15. ToldFits'
  BY <1>5, <1>7 DEF ToldFits, Fit
<1> QED  BY <1>13, <1>14, <1>15 DEF RouteInv

-----------------------------------------------------------------------------
(* Nav2's answers *)

LEMMA PlanFacts ==
  ASSUME RouteInv, NEW plan \in plans
  PROVE  /\ plan \in Plans /\ plan.goal # NoSpot /\ plan.goal \in Spot
         /\ IsCurrent(plan) => plan.goal = planner.goal
         /\ \A q \in plans \ {plan} : q.generation # plan.generation
BY WordsDiffer DEF RouteInv, RouteShape, PlansAreKnown, Plans, Spot

LEMMA AdvancesFacts ==
  ASSUME RouteInv, NEW plan \in plans,
         NEW phase \in Phases
  PROVE  /\ Advances(plan, phase) \subseteq Plans
         /\ \A p \in Advances(plan, phase) :
              \E q \in plans : p.generation = q.generation /\ p.goal = q.goal
         /\ \A p \in Advances(plan, phase) : \A q \in Advances(plan, phase) :
              p.generation = q.generation => p = q
<1> DEFINE new == [plan EXCEPT !.phase = phase]
<1>1. new \in Plans /\ new.generation = plan.generation /\ new.goal = plan.goal
  BY PlanFacts DEF Plans
<1>2. Advances(plan, phase) = (plans \ {plan}) \cup {new} /\ plans \subseteq Plans
  BY DEF Advances, RouteInv, RouteShape
<1> HIDE DEF new
<1>3. \A q \in plans \ {plan} : q.generation # new.generation
  BY <1>1, PlanFacts
<1>4. \A p \in plans : \A q \in plans : p.generation = q.generation => p = q
  BY DEF RouteInv, PlansAreKnown
<1> QED  BY <1>1, <1>2, <1>3, <1>4

\* Plans go on or end; generations and topics stay.
LEMMA PlansGoOn ==
  ASSUME RouteInv, planner' \in Bridge,
         planner'.generation = planner.generation, planner'.goal = planner.goal,
         plans' \subseteq Plans,
         \A p \in plans' : \E q \in plans : p.generation = q.generation /\ p.goal = q.goal,
         \A p \in plans' : \A q \in plans' : p.generation = q.generation => p = q,
         UNCHANGED <<shown, grid, browser>>
  PROVE  /\ wire' \in Topics => RouteShape'
         /\ PlansAreKnown'
         /\ UNCHANGED wire => RouteInv'
<1>1. PlansAreKnown'
  BY DEF RouteInv, PlansAreKnown, IsCurrent
<1>2. wire' \in Topics => RouteShape'
  BY DEF RouteInv, RouteShape
<1>3. ASSUME UNCHANGED wire PROVE ToldFits'
  <2>1. Clicked' <=> Clicked
    BY <1>3 DEF Clicked
  <2>2. ToldPath' = ToldPath /\ ToldStatus' = ToldStatus
    BY <1>3 DEF ToldPath, ToldStatus
  <2> SUFFICES ASSUME ~Clicked
               PROVE  /\ ToldPath' \in {NoSpot, planner'.goal}
                      /\ Fit(ToldPath, ToldStatus)'
                      /\ \A p \in plans' : IsCurrent(p)' => ToldPath' = NoSpot
    BY <2>1 DEF ToldFits
  <2>3. /\ ToldPath \in {NoSpot, planner.goal}
        /\ Fit(ToldPath, ToldStatus)
        /\ \A p \in plans : IsCurrent(p) => ToldPath = NoSpot
    BY DEF RouteInv, ToldFits
  <2> QED  BY <2>2, <2>3 DEF IsCurrent, Fit
<1> QED  BY <1>1, <1>2, <1>3 DEF RouteInv, RouteShape

\* The plan of the goal the bridge works on ends: no plan that is left is current.
LEMMA CurrentEnds ==
  ASSUME RouteInv, NEW plan \in plans, IsCurrent(plan), plans' = plans \ {plan},
         planner' = [planner EXCEPT !.active = 0],
         UNCHANGED <<shown, grid, browser>>
  PROVE  /\ planner' \in Bridge /\ planner'.generation = planner.generation
         /\ planner'.goal = planner.goal /\ PlansAreKnown'
         /\ wire' \in Topics => RouteShape'
         /\ \A p \in plans' : ~IsCurrent(p)'
<1>1. planner' \in Bridge /\ planner'.generation = planner.generation /\ planner'.goal = planner.goal
  BY DEF RouteInv, RouteShape, Bridge
<1>2. plans' \subseteq Plans
  BY DEF RouteInv, RouteShape
<1>3. \A p \in plans' : ~IsCurrent(p)'
  BY <1>1, PlanFacts DEF IsCurrent
<1>4. \A p \in plans' : \A q \in plans' : p.generation = q.generation => p = q
  BY DEF RouteInv, PlansAreKnown
<1> QED  BY <1>1, <1>2, <1>3, <1>4, PlansGoOn

LEMMA NavAnswers ==
  ASSUME RouteInv, NEW plan \in plans, OnGoalResponse(plan)
  PROVE  RouteInv'
<1>1. wire \in Topics /\ planner \in Bridge /\ plan \in Plans /\ UNCHANGED <<shown, grid, browser>>
  BY PlanFacts DEF RouteInv, RouteShape, OnGoalResponse
<1>2. CASE plan.phase = "accepted" /\ IsCurrent(plan)
  <2>1. planner' = [planner EXCEPT !.active = plan.generation] /\ plans' = Advances(plan, "running")
        /\ UNCHANGED wire
    BY <1>2 DEF OnGoalResponse
  <2>2. planner' \in Bridge /\ planner'.generation = planner.generation /\ planner'.goal = planner.goal
    BY <1>1, <2>1 DEF Bridge, Plans
  <2> QED  BY <1>1, <2>1, <2>2, AdvancesFacts, PlansGoOn DEF Phases
<1>3. CASE ~(plan.phase = "accepted" /\ IsCurrent(plan)) /\ ~IsCurrent(plan)
  <2>1. planner' = planner /\ plans' = plans \ {plan} /\ UNCHANGED wire
    BY <1>3 DEF OnGoalResponse
  <2>2. plans' \subseteq Plans /\ planner' \in Bridge
    BY <2>1 DEF RouteInv, RouteShape
  <2>3. \A p \in plans' : \A q \in plans' : p.generation = q.generation => p = q
    BY <2>1 DEF RouteInv, PlansAreKnown
  <2> QED  BY <1>1, <2>1, <2>2, <2>3, PlansGoOn
<1>4. CASE ~(plan.phase = "accepted" /\ IsCurrent(plan)) /\ IsCurrent(plan)
  <2>1. planner' = [planner EXCEPT !.active = 0] /\ plans' = plans \ {plan}
        /\ wire' = [wire EXCEPT !.status = "failed"]
    BY <1>4 DEF OnGoalResponse
  <2>2. wire' \in Topics /\ wire'.goals = wire.goals /\ wire'.clears = wire.clears
        /\ wire'.path = wire.path /\ wire'.status = "failed"
    BY <1>1, <2>1 DEF Topics, Statuses
  <2>3. RouteShape' /\ PlansAreKnown' /\ planner'.goal = planner.goal /\ \A p \in plans' : ~IsCurrent(p)'
    BY <1>1, <1>4, <2>1, <2>2, CurrentEnds
  <2>4. Clicked => Clicked'
    BY <1>1, <2>2 DEF Clicked
  <2>5. ToldPath' = ToldPath
    BY <1>1, <2>2 DEF ToldPath
  <2>6. ToldStatus' = "failed"
    BY <2>2 DEF ToldStatus, Unsent
  <2>7. ~Clicked => ToldPath = NoSpot
    BY <1>4 DEF RouteInv, ToldFits
  <2>8. ToldFits'
    BY <2>3, <2>4, <2>5, <2>6, <2>7 DEF ToldFits, Fit
  <2> QED  BY <2>3, <2>8 DEF RouteInv
<1> QED  BY <1>2, <1>3, <1>4

\* The failure of a plan that could not be submitted: a route may be there already, but
\* not the one of a plan that is current and has still to answer.
LEMMA NavRaises ==
  ASSUME RouteInv, NEW plan \in plans, OnGoalRaises(plan)
  PROVE  RouteInv'
<1>1. wire \in Topics /\ planner \in Bridge /\ plans' = plans \ {plan}
      /\ UNCHANGED <<shown, grid, browser, planner>> /\ wire' = [wire EXCEPT !.status = "failed"]
  BY DEF RouteInv, RouteShape, OnGoalRaises
<1>2. wire' \in Topics /\ wire'.goals = wire.goals /\ wire'.clears = wire.clears
      /\ wire'.path = wire.path /\ wire'.status = "failed"
  BY <1>1 DEF Topics, Statuses
<1>3. plans' \subseteq Plans /\ \A p \in plans' : \A q \in plans' : p.generation = q.generation => p = q
  BY <1>1 DEF RouteInv, RouteShape, PlansAreKnown
<1>4. RouteShape' /\ PlansAreKnown'
  BY <1>1, <1>2, <1>3, PlansGoOn
<1>5. ToldPath' = ToldPath /\ ToldStatus' = "failed" /\ (Clicked => Clicked')
  BY <1>1, <1>2 DEF ToldPath, ToldStatus, Clicked, Unsent
<1>6. ToldFits'
  <2> SUFFICES ASSUME ~Clicked
               PROVE  /\ ToldPath' \in {NoSpot, planner'.goal}
                      /\ Fit(ToldPath, ToldStatus)'
                      /\ \A p \in plans' : IsCurrent(p)' => ToldPath' = NoSpot
    BY <1>5 DEF ToldFits
  <2> QED  BY <1>1, <1>5 DEF RouteInv, ToldFits, Fit, IsCurrent
<1> QED  BY <1>4, <1>6 DEF RouteInv

LEMMA NavEnds ==
  ASSUME RouteInv, NEW plan \in plans, OnResult(plan)
  PROVE  RouteInv'
<1>1. wire \in Topics /\ planner \in Bridge /\ plan \in Plans /\ UNCHANGED <<shown, grid, browser>>
      /\ plans' = plans \ {plan}
  BY PlanFacts DEF RouteInv, RouteShape, OnResult
<1>2. CASE ~IsCurrent(plan)
  <2>1. planner' = planner /\ UNCHANGED wire
    BY <1>2 DEF OnResult
  <2>2. plans' \subseteq Plans /\ planner' \in Bridge
    BY <1>1, <2>1 DEF RouteInv, RouteShape
  <2>3. \A p \in plans' : \A q \in plans' : p.generation = q.generation => p = q
    BY <1>1 DEF RouteInv, PlansAreKnown
  <2> QED  BY <1>1, <2>1, <2>2, <2>3, PlansGoOn
<1>3. CASE IsCurrent(plan)
  <2>1. planner' = [planner EXCEPT !.active = 0]
        /\ wire' = IF plan.phase = "found" THEN Tells(wire, plan.goal, "ready")
                   ELSE Tells(wire, NoSpot, "failed")
    BY <1>3 DEF OnResult
  <2>2. "ready" \in Statuses /\ "failed" \in Statuses
    BY DEF Statuses
  <2>3. wire' \in Topics /\ ((ToldPath' = plan.goal /\ ToldStatus' = "ready")
                             \/ (ToldPath' = NoSpot /\ ToldStatus' = "failed"))
    <3>1. plan.goal \in Spot
      BY PlanFacts
    <3>2. CASE plan.phase = "found"
      <4>1. wire' = Tells(wire, plan.goal, "ready")
        BY <2>1, <3>2
      <4> QED  BY <1>1, <2>2, <3>1, <4>1, ToldNow
    <3>3. CASE plan.phase # "found"
      <4>1. wire' = Tells(wire, NoSpot, "failed")
        BY <2>1, <3>3
      <4> QED  BY <1>1, <2>2, <4>1, ToldNow, WordsDiffer
    <3> QED  BY <3>2, <3>3
  <2>4. RouteShape' /\ PlansAreKnown' /\ planner'.goal = planner.goal /\ \A p \in plans' : ~IsCurrent(p)'
    BY <1>1, <1>3, <2>1, <2>3, CurrentEnds
  <2>5. plan.goal = planner.goal /\ plan.goal # NoSpot
    BY <1>3, PlanFacts
  <2>6. ToldFits'
    BY <2>3, <2>4, <2>5 DEF ToldFits, Fit
  <2> QED  BY <2>4, <2>6 DEF RouteInv
<1> QED  BY <1>2, <1>3

LEMMA NavGoesOn ==
  ASSUME RouteInv, NEW plan \in plans, NavPlans(plan)
  PROVE  RouteInv'
<1>1. PICK phase \in Phases : plans' = Advances(plan, phase)
  <2>1. PICK phase \in CASE plan.phase = "sent" -> {"accepted", "rejected", "raised"}
                         [] plan.phase = "running" -> {"found", "none"}
                         [] OTHER -> {} : plans' = Advances(plan, phase)
    BY DEF NavPlans
  <2>2. phase \in {"accepted", "rejected", "raised", "found", "none"}
    BY <2>1
  <2> QED  BY <2>1, <2>2 DEF Phases
<1>2. UNCHANGED <<shown, grid, browser, wire, planner>> /\ planner \in Bridge
  BY DEF NavPlans, RouteInv, RouteShape
<1> QED  BY <1>1, <1>2, AdvancesFacts, PlansGoOn

-----------------------------------------------------------------------------

LEMMA RouteStepInv == RouteInv /\ [PreviewStep]_previewVars => RouteInv'
<1> SUFFICES ASSUME RouteInv, [PreviewStep]_previewVars PROVE RouteInv'
  OBVIOUS
<1>1. ASSUME NEW b \in Browsers, NEW spot \in Spots, AsksPreview(b, spot) PROVE RouteInv'
  <2>1. shown' \in [goal : Spot, path : Spot, status : Statuses]
    BY <1>1 DEF AsksPreview, Spot, Statuses
  <2> QED  BY <1>1, <2>1, PageClicks DEF AsksPreview
<1>2. ASSUME NEW b \in Browsers, ClearsPreview(b) PROVE RouteInv'
  <2>1. shown' \in [goal : Spot, path : Spot, status : Statuses]
    BY <1>2 DEF ClearsPreview, Spot, Statuses
  <2> QED  BY <1>2, <2>1, PageClicks DEF ClearsPreview
<1>3. CASE OnMap
  <2>1. UNCHANGED <<shown, browser, wire, planner, plans>> /\ grid' \subseteq Spots
    BY <1>3 DEF OnMap
  <2> QED  BY <2>1 DEF RouteInv, RouteShape, PlansAreKnown, ToldFits, Clicked, ToldPath, ToldStatus, IsCurrent
<1>4. CASE UNCHANGED previewVars
  BY <1>4 DEF previewVars, RouteInv, RouteShape, PlansAreKnown, ToldFits, Clicked, ToldPath, ToldStatus,
              IsCurrent
<1> QED
  BY <1>1, <1>2, <1>3, <1>4, PagePublishes, PageReads, BridgeClears, BridgeTakes, NavAnswers, NavRaises,
     NavEnds, NavGoesOn DEF PreviewStep

\* planner_bridge.py: no request at Nav2 is ahead of the bridge, two are never of one
\* generation, and once no click is under way, path, status and goal fit each other in what
\* is told to the page, whatever answers come late or raise.
THEOREM RouteInvariant == PreviewSpec => []RouteInv
<1> QED  BY RouteInitInv, RouteStepInv, PTL DEF PreviewSpec

\* When nothing is under way, the page shows the route of the last goal the bridge took and no
\* other, or none, and says "ready" of a route only (planner_bridge.py), however Nav2's
\* answers overtake each other.
THEOREM PreviewIsOfLastGoal == PreviewSpec => []PreviewSettles
<1> QED  BY RouteInvariant, RouteSettles, PTL

-----------------------------------------------------------------------------
(* The landmarks and the change of site: SemanticMap, SiteChange *)

(***************************************************************************)
(* OneSampleMovesNothing needs of every landmark, in memory and in the     *)
(* files a restart reads, that the samples that agreed on a new place were *)
(* all away from the old one: pending.count is no more than far.           *)
(*                                                                         *)
(* NothingWrittenIsLost needs that the backup is not newer than a file     *)
(* that can be read, so that spoiling the file loses no more than it may,  *)
(* and that between the two writes the store is still the one in the file. *)
(*                                                                         *)
(* NoRequestRunsTwice needs that a request in the page or in the inbox has *)
(* never run, carries the time it was confirmed at, and is later than the  *)
(* one the bridge has taken.                                               *)
(***************************************************************************)
Pending == [pos : Int, count : Nat, first : Int, last : Int]
Mark == [kind : Kinds, pos : Line, map : Int, seen : Int, confirmed : BOOLEAN, hits : Int,
         since : Int, anchor : Line, pending : Pending, far : Nat]
Target == [kind : Kinds, pos : Line, map : Int]

SoundMark(mark) ==
  /\ mark \in Mark
  /\ mark.pending.count <= mark.far /\ mark.pending.count < RelocationObservations
  /\ ~mark.confirmed => mark.pending.count = 0

SoundMarks(marks, next) ==
  /\ next \in Nat \ {0} /\ DOMAIN marks \subseteq 1..(next - 1)
  /\ \A id \in DOMAIN marks : SoundMark(marks[id])

Store == [marks : {store.marks}, next : Nat, revision : Nat, dirty : BOOLEAN, flushed : Int]

StoreInv == store \in Store /\ SoundMarks(store.marks, store.next) /\ now \in Nat

ThreadsInv ==
  /\ ros \in [at : {"idle", "checked", "fusing", "flush"}, targets : Seq(Target), matched : SUBSET Nat]
  /\ http \in {"idle", "flush"} /\ writer \in {"nobody", "ros", "http"}
  /\ writer # "nobody" => ros.at # "fusing"

DiskInv ==
  /\ disk = [main |-> disk.main, backup |-> disk.backup, kept |-> disk.kept]
  /\ disk.main.revision \in Int /\ disk.backup.revision \in Int /\ disk.kept \in Int
  /\ SoundMarks(disk.main.marks, disk.main.next) /\ SoundMarks(disk.backup.marks, disk.backup.next)
  /\ disk.main.revision >= 0 => disk.backup.revision <= disk.main.revision
  /\ Readable.revision <= store.revision /\ disk.kept <= Readable.revision
  /\ writer # "nobody" /\ disk.main.revision >= 0 => disk.main.revision = store.revision

LandmarkInv == StoreInv /\ ThreadsInv /\ DiskInv

Request0 == [sequence : 0..MaxRequests, at : Int]
Run == [asked : Int, count : {0, 1}, started : Int]
Page == [at : {"idle", "writing"}, sequence : 0..MaxRequests, since : Int]

\* The script was not started for request r, which was confirmed at the time given.
Waits(history, r, time) ==
  r \in 1..MaxRequests /\ history[r].count = 0 /\ history[r].asked = time

RequestInv ==
  /\ slam \in Int /\ runs \in [1..MaxRequests -> Run] /\ page \in Page
  /\ inbox \in [queued : Request0, processing : Request0]
  /\ \A r \in 1..MaxRequests : runs[r].count = 1 => runs[r].started - runs[r].asked <= StaleAfter
  /\ \A r \in 1..MaxRequests : r > page.sequence => runs[r].count = 0
  /\ page.at = "writing" =>
       inbox.queued = NoRequest0 /\ page.sequence >= 1 /\ Waits(runs, page.sequence, page.since)
  /\ inbox.queued # NoRequest0 =>
       inbox.queued.sequence \in 1..page.sequence /\ Waits(runs, inbox.queued.sequence, inbox.queued.at)
  /\ site = "taken" =>
       /\ inbox.processing.sequence \in 1..page.sequence
       /\ Waits(runs, inbox.processing.sequence, inbox.processing.at)
       /\ page.at = "writing" => page.sequence > inbox.processing.sequence
       /\ inbox.queued # NoRequest0 => inbox.queued.sequence > inbox.processing.sequence

ChangeInv == LandmarkInv /\ RequestInv

LEMMA ChangePromises == ChangeInv => NothingWrittenIsLost /\ NoRequestRunsTwice
<1>1. ChangeInv => NothingWrittenIsLost
  BY DEF ChangeInv, LandmarkInv, StoreInv, DiskInv, NothingWrittenIsLost, Readable
<1>2. ChangeInv => NoRequestRunsTwice
  BY DEF ChangeInv, RequestInv, NoRequestRunsTwice, Run, Waits
<1> QED  BY <1>1, <1>2

-----------------------------------------------------------------------------
(* Places *)

LEMMA DistanceFacts ==
  ASSUME NEW p \in Int, NEW q \in Int
  PROVE  Distance(p, q) \in Nat /\ Distance(p, p) = 0
BY DEF Distance

LEMMA BetweenFacts ==
  ASSUME NEW p \in Line, NEW q \in Line, NEW r \in Between(p, q)
  PROVE  r \in Line /\ Distance(p, r) <= Distance(p, q)
<1>1. r \in Line /\ Distance(p, r) + Distance(r, q) = Distance(p, q)
  BY DEF Between
<1>2. p \in Int /\ q \in Int /\ r \in Int
  BY <1>1, SemanticAssumption
<1>3. Distance(p, r) \in Nat /\ Distance(r, q) \in Nat /\ Distance(p, q) \in Nat
  BY <1>2, DistanceFacts
<1> QED  BY <1>1, <1>3

LEMMA PendingFacts ==
  NoPending \in Pending /\ NoPending.count = 0 /\ 0 < RelocationObservations /\ 1 < RelocationObservations
BY SemanticAssumption DEF NoPending, Pending

-----------------------------------------------------------------------------
(* What a sample makes of a landmark *)

\* A landmark with other pending samples, or another count of samples away from it.
LEMMA CountedPending ==
  ASSUME NEW old \in Pending, NEW p \in Int, NEW last \in Int, NEW count \in Nat
  PROVE  LET new == [old EXCEPT !.pos = p, !.last = last, !.count = count]
         IN new \in Pending /\ new.count = count
BY DEF Pending

LEMMA PendedMark ==
  ASSUME NEW mark \in Mark, NEW pending \in Pending
  PROVE  LET m == [mark EXCEPT !.pending = pending]
         IN m \in Mark /\ m.pos = mark.pos /\ m.pending = pending /\ m.kind = mark.kind
            /\ m.confirmed = mark.confirmed /\ m.far = mark.far
BY DEF Mark

LEMMA FarMark ==
  ASSUME NEW mark \in Mark, NEW far \in Nat
  PROVE  LET m == [mark EXCEPT !.far = far]
         IN m \in Mark /\ m.pos = mark.pos /\ m.pending = mark.pending /\ m.kind = mark.kind
            /\ m.confirmed = mark.confirmed /\ m.far = far
BY DEF Mark

LEMMA RelocatedMark ==
  ASSUME NEW mark, SoundMark(mark), NEW t \in Target, NEW m \in Relocated(mark, t), now \in Nat
  PROVE  /\ m \in Mark /\ m.confirmed = mark.confirmed
         /\ m.pending.count <= mark.far + 1 /\ m.pending.count < RelocationObservations
         /\ m.pos = mark.pos \/ mark.far + 1 >= RelocationObservations
<1> DEFINE count == mark.pending.count + 1
<1> DEFINE enough == count >= RelocationObservations /\ now - mark.pending.first >= MinimumDuration
<1> DEFINE counted == IF count < RelocationObservations THEN count ELSE mark.pending.count
<1>1. mark \in Mark /\ mark.pending \in Pending /\ mark.pending.count \in Nat /\ mark.far \in Nat
      /\ mark.pending.count <= mark.far /\ mark.pending.count < RelocationObservations
      /\ RelocationObservations \in Nat /\ mark.pending.pos \in Int
  BY SemanticAssumption DEF SoundMark, Mark, Pending
<1>2. t.pos \in Line /\ t.pos \in Int
  BY SemanticAssumption DEF Target
<1>3. CASE Distance(mark.pos, t.pos) > StaticJump
  <2>1. m = [mark EXCEPT !.pending = NoPending]
    BY <1>3 DEF Relocated
  <2> QED  BY <1>1, <2>1, PendingFacts, PendedMark
<1>4. CASE ~(Distance(mark.pos, t.pos) > StaticJump) /\ ~Agrees(mark, t)
  <2> DEFINE new == [pos |-> t.pos, count |-> 1, first |-> now, last |-> now]
  <2>1. m = [mark EXCEPT !.pending = new]
    BY <1>4 DEF Relocated
  <2>2. new \in Pending /\ new.count = 1
    BY <1>2 DEF Pending
  <2> HIDE DEF new
  <2> QED  BY <1>1, <2>1, <2>2, PendingFacts, PendedMark
<1>5. CASE ~(Distance(mark.pos, t.pos) > StaticJump) /\ Agrees(mark, t)
  <2>1. PICK p \in Between(mark.pending.pos, t.pos) :
          m = IF enough THEN [mark EXCEPT !.pos = p, !.pending = NoPending]
              ELSE [mark EXCEPT !.pending = [mark.pending EXCEPT !.pos = p, !.last = now, !.count = counted]]
    BY <1>5 DEF Relocated
  <2>2. p \in Line /\ p \in Int
    BY SemanticAssumption DEF Between
  <2>3. CASE enough
    <3>1. m = [mark EXCEPT !.pos = p, !.pending = NoPending]
      BY <2>1, <2>3
    <3>2. m \in Mark /\ m.pending = NoPending /\ m.confirmed = mark.confirmed
      BY <1>1, <2>2, <3>1, PendingFacts DEF Mark
    <3>3. mark.far + 1 >= RelocationObservations
      BY <1>1, <2>3
    <3> QED  BY <1>1, <3>2, <3>3, PendingFacts
  <2>4. CASE ~enough
    <3> DEFINE old == mark.pending
    <3> DEFINE new == [old EXCEPT !.pos = p, !.last = now, !.count = counted]
    <3>1. m = [mark EXCEPT !.pending = new]
      BY <2>1, <2>4
    <3>2. counted \in Nat /\ counted <= mark.far + 1 /\ counted < RelocationObservations
      BY <1>1
    <3> HIDE DEF counted
    <3>5. old \in Pending
      BY <1>1
    <3> HIDE DEF old
    <3>4. new \in Pending /\ new.count = counted
      <4>1. p \in Int /\ now \in Int /\ counted \in Nat /\ old \in Pending
        BY <2>2, <3>2, <3>5
      <4> HIDE DEF new
      <4>2. new = [old EXCEPT !.pos = p, !.last = now, !.count = counted]
        BY DEF new
      <4>3. new.count = counted
        BY <4>1, <4>2 DEF Pending
      <4>4. new \in Pending
        BY <4>1, <4>2, CountedPending
      <4> QED  BY <4>3, <4>4
    <3> HIDE DEF new
    <3> QED  BY <1>1, <3>1, <3>2, <3>4, PendedMark
  <2> QED  BY <2>3, <2>4
<1> QED  BY <1>3, <1>4, <1>5

LEMMA CandidateMark ==
  ASSUME NEW mark \in Mark, NEW t \in Target, NEW m \in Candidate(mark, t), now \in Nat
  PROVE  m \in Mark /\ m.pending = mark.pending
<1> DEFINE near == Distance(mark.anchor, t.pos) <= ConfirmationRadius
<1> DEFINE hits == IF near THEN mark.hits + 1 ELSE 1
<1> DEFINE since == IF near THEN mark.since ELSE now
<1> DEFINE done == hits >= MinimumObservations /\ now - since >= MinimumDuration
<1>1. PICK p \in IF near THEN Between(mark.anchor, t.pos) ELSE {t.pos} :
        m = [mark EXCEPT !.hits = hits, !.since = since, !.anchor = p, !.pos = p, !.confirmed = done]
  BY DEF Candidate
<1>2. p \in Line
  BY <1>1 DEF Between, Target
<1>3. hits \in Int /\ since \in Int /\ done \in BOOLEAN
  BY DEF Mark
<1> HIDE DEF near, hits, since, done
<1> QED  BY <1>1, <1>2, <1>3 DEF Mark

\* The branches of _update: what a sample leaves is sound, and a confirmed landmark that stands
\* still stays near its place unless enough samples were away from it.
LEMMA UpdatedMark ==
  ASSUME NEW mark, SoundMark(mark), NEW t \in Target, NEW m \in Updated(mark, t), now \in Nat
  PROVE  /\ SoundMark(m)
         /\ mark.confirmed /\ mark.kind \notin Dynamic =>
              \/ Distance(mark.pos, m.pos) <= Movement
              \/ m.far >= RelocationObservations
<1> DEFINE seen == [mark EXCEPT !.seen = now, !.map = t.map]
<1> DEFINE far == mark.confirmed /\ mark.kind \notin Dynamic /\ Distance(mark.pos, t.pos) > Movement
<1> DEFINE times == IF far THEN mark.far + 1 ELSE 0
<1>1. mark \in Mark /\ mark.far \in Nat /\ mark.pos \in Line /\ mark.pos \in Int
      /\ mark.pending.count \in Nat
  BY SemanticAssumption DEF SoundMark, Mark, Pending
<1>2. t.pos \in Line /\ t.pos \in Int /\ t.map \in Int
  BY SemanticAssumption DEF Target
<1>3. seen \in Mark /\ seen.pos = mark.pos /\ seen.pending = mark.pending /\ seen.kind = mark.kind
      /\ seen.confirmed = mark.confirmed /\ seen.far = mark.far
  <2> DEFINE map == t.map
  <2>1. map \in Int /\ now \in Int
    BY <1>2
  <2> HIDE DEF map
  <2>2. seen = [mark EXCEPT !.seen = now, !.map = map]
    BY DEF map
  <2> HIDE DEF seen
  <2> QED  BY <1>1, <2>1, <2>2 DEF Mark
<1>4. SoundMark(seen)
  BY <1>3 DEF SoundMark
<1>5. PICK n \in IF ~mark.confirmed THEN Candidate(seen, t)
                 ELSE IF mark.kind \in Dynamic \/ ~far THEN Near(seen, t)
                 ELSE Relocated(seen, t) :
        m = [n EXCEPT !.far = times]
  BY DEF Updated
<1>6. times \in Nat
  BY <1>1
<1> HIDE DEF seen
<1>7. ASSUME n \in Mark
      PROVE  m \in Mark /\ m.pos = n.pos /\ m.pending = n.pending /\ m.confirmed = n.confirmed /\ m.far = times
  <2> HIDE DEF times
  <2> QED  BY <1>5, <1>6, <1>7, FarMark
<1>8. CASE ~mark.confirmed
  <2>1. n \in Mark /\ n.pending = mark.pending
    BY <1>3, <1>5, <1>8, CandidateMark
  <2>2. mark.pending.count = 0 /\ times = 0
    BY <1>8 DEF SoundMark
  <2> QED  BY <1>7, <1>8, <2>1, <2>2, PendingFacts DEF SoundMark
<1>9. CASE mark.confirmed /\ (mark.kind \in Dynamic \/ ~far)
  <2>1. PICK p \in Between(mark.pos, t.pos) : n = [seen EXCEPT !.pos = p, !.pending = NoPending]
    BY <1>3, <1>5, <1>9 DEF Near
  <2>2. p \in Line /\ p \in Int /\ Distance(mark.pos, p) <= Distance(mark.pos, t.pos)
    BY <1>1, <1>2, BetweenFacts, SemanticAssumption
  <2>3. n \in Mark /\ n.pos = p /\ n.pending = NoPending /\ n.confirmed = mark.confirmed
    BY <1>3, <2>1, <2>2, PendingFacts DEF Mark
  <2>4. times = 0
    BY <1>9
  <2>5. SoundMark(m)
    BY <1>7, <1>9, <2>3, <2>4, PendingFacts DEF SoundMark
  <2>6. mark.kind \notin Dynamic => Distance(mark.pos, p) <= Movement
    <3>1. Distance(mark.pos, p) \in Nat /\ Distance(mark.pos, t.pos) \in Nat
      BY <1>1, <1>2, <2>2, DistanceFacts
    <3>2. mark.kind \notin Dynamic => Distance(mark.pos, t.pos) <= Movement
      BY <1>9, <3>1 DEF Movement
    <3> QED  BY <2>2, <3>1, <3>2 DEF Movement
  <2> QED  BY <1>7, <2>3, <2>5, <2>6
<1>10. CASE mark.confirmed /\ ~(mark.kind \in Dynamic \/ ~far)
  <2>1. n \in Relocated(seen, t)
    BY <1>5, <1>10
  <2>2. n \in Mark /\ n.confirmed = mark.confirmed /\ n.pending.count <= mark.far + 1
        /\ n.pending.count < RelocationObservations
        /\ (n.pos = mark.pos \/ mark.far + 1 >= RelocationObservations)
    BY <1>3, <1>4, <2>1, RelocatedMark
  <2>3. times = mark.far + 1
    BY <1>10
  <2>4. SoundMark(m)
    BY <1>7, <1>10, <2>2, <2>3 DEF SoundMark
  <2>5. m.pos = mark.pos => Distance(mark.pos, m.pos) <= Movement
    <3>1. Distance(mark.pos, mark.pos) = 0
      BY <1>1 DEF Distance
    <3> QED  BY <3>1 DEF Movement
  <2> QED  BY <1>7, <2>2, <2>3, <2>4, <2>5
<1> QED  BY <1>8, <1>9, <1>10

LEMMA CreatedMark ==
  ASSUME NEW t \in Target, now \in Nat
  PROVE  SoundMark(Created(t))
<1> DEFINE done == MinimumObservations = 1
<1>1. done \in BOOLEAN /\ t.kind \in Kinds /\ t.pos \in Line /\ t.map \in Int /\ now \in Int
  BY DEF Target
<1>2. Created(t) = [kind |-> t.kind, pos |-> t.pos, map |-> t.map, seen |-> now, confirmed |-> done,
                    hits |-> 1, since |-> now, anchor |-> t.pos, pending |-> NoPending, far |-> 0]
  BY DEF Created
<1> HIDE DEF done
<1>3. Created(t) \in Mark /\ Created(t).pending = NoPending /\ Created(t).far = 0
  BY <1>1, <1>2, PendingFacts DEF Mark
<1> QED  BY <1>3, PendingFacts DEF SoundMark

-----------------------------------------------------------------------------
(* What a change of the landmarks leaves *)

LEMMA SoundWith ==
  ASSUME NEW marks, NEW next, SoundMarks(marks, next), NEW mark, SoundMark(mark), NEW id \in DOMAIN marks
  PROVE  SoundMarks(With(marks, id, mark), next) /\ DOMAIN With(marks, id, mark) = DOMAIN marks
<1>1. DOMAIN With(marks, id, mark) = DOMAIN marks
  BY DEF With
<1>2. \A i \in DOMAIN marks : SoundMark(With(marks, id, mark)[i])
  BY DEF With, SoundMarks
<1> QED  BY <1>1, <1>2 DEF SoundMarks

LEMMA SoundNew ==
  ASSUME NEW marks, NEW next, SoundMarks(marks, next), NEW mark, SoundMark(mark)
  PROVE  SoundMarks(With(marks, next, mark), next + 1) /\ DOMAIN With(marks, next, mark) # DOMAIN marks
<1>1. DOMAIN With(marks, next, mark) = (DOMAIN marks) \cup {next} /\ next \in Nat \ {0}
      /\ DOMAIN marks \subseteq 1..(next - 1)
  BY DEF With, SoundMarks
<1>2. next \notin DOMAIN marks /\ (DOMAIN marks) \cup {next} \subseteq 1..(next + 1 - 1)
  BY <1>1
<1>3. \A i \in (DOMAIN marks) \cup {next} : SoundMark(With(marks, next, mark)[i])
  BY DEF With, SoundMarks
<1> QED  BY <1>1, <1>2, <1>3 DEF SoundMarks

LEMMA SoundLess ==
  ASSUME NEW marks, NEW next, SoundMarks(marks, next), NEW gone
  PROVE  SoundMarks(Less(marks, gone), next) /\ DOMAIN Less(marks, gone) = (DOMAIN marks) \ gone
<1>1. DOMAIN Less(marks, gone) = (DOMAIN marks) \ gone
  BY DEF Less
<1>2. \A i \in (DOMAIN marks) \ gone : Less(marks, gone)[i] = marks[i]
  BY DEF Less
<1> QED  BY <1>1, <1>2 DEF SoundMarks

LEMMA SoundNothing ==
  ASSUME NEW next \in Nat \ {0}
  PROVE  SoundMarks(<< >>, next)
<1>1. << >> \in Seq(Mark) /\ Len(<< >>) = 0
  OBVIOUS
<1>2. DOMAIN << >> = 1..0
  BY <1>1
<1> QED  BY <1>2 DEF SoundMarks

-----------------------------------------------------------------------------
(* The store after it *)

LEMMA StoreChange ==
  ASSUME StoreInv, NEW marks, SoundMarks(marks, store.next),
         store' = Changed(marks) \/ store' = [store EXCEPT !.marks = marks], now' = now
  PROVE  /\ StoreInv' /\ store'.marks = marks /\ store'.next = store.next
         /\ store'.revision \in Nat /\ store'.revision >= store.revision
         /\ store' = [store EXCEPT !.marks = marks] => store'.revision = store.revision
<1> DEFINE yes == TRUE
<1>1. store = [marks |-> store.marks, next |-> store.next, revision |-> store.revision,
               dirty |-> store.dirty, flushed |-> store.flushed]
      /\ store.next \in Nat /\ store.revision \in Nat /\ store.dirty \in BOOLEAN /\ store.flushed \in Int
  BY DEF StoreInv, Store
<1>2. store.revision + 1 \in Nat /\ yes \in BOOLEAN
  BY <1>1
<1>3. store' = [store EXCEPT !.marks = marks, !.revision = store.revision + 1, !.dirty = yes]
      \/ store' = [store EXCEPT !.marks = marks]
  BY DEF Changed
<1> DEFINE one == store.revision + 1
<1> HIDE DEF yes, one
<1>4. \/ store' = [marks |-> marks, next |-> store.next, revision |-> one, dirty |-> yes,
                   flushed |-> store.flushed]
      \/ store' = [marks |-> marks, next |-> store.next, revision |-> store.revision,
                   dirty |-> store.dirty, flushed |-> store.flushed]
  BY <1>1, <1>3 DEF one
<1>5. store'.marks = marks /\ store'.next = store.next /\ store'.revision \in {one, store.revision}
      /\ store'.dirty \in BOOLEAN /\ store'.flushed = store.flushed
      /\ store' = [marks |-> store'.marks, next |-> store'.next, revision |-> store'.revision,
                   dirty |-> store'.dirty, flushed |-> store'.flushed]
  BY <1>1, <1>2, <1>4
<1>6. store'.revision \in Nat /\ store'.revision >= store.revision
  BY <1>1, <1>5 DEF one
<1>7. store' \in Store'
  BY <1>1, <1>5, <1>6 DEF Store
<1>8. store' = [store EXCEPT !.marks = marks] => store'.revision = store.revision
  BY <1>1
<1> QED  BY <1>5, <1>6, <1>7, <1>8 DEF StoreInv

\* The files do not mind a change of the store under the lock.
LEMMA DiskKeeps ==
  ASSUME DiskInv, store.revision \in Nat, disk' = disk, store'.revision \in Nat,
         store'.revision >= store.revision,
         writer' # "nobody" => writer # "nobody" /\ store'.revision = store.revision
  PROVE  DiskInv'
<1>1. Readable' = Readable /\ Readable.revision \in Int
  BY DEF Readable, DiskInv
<1> QED  BY <1>1 DEF DiskInv



LEMMA TargetsFacts ==
  ASSUME ThreadsInv, ros.targets # << >>
  PROVE  Head(ros.targets) \in Target /\ Tail(ros.targets) \in Seq(Target)
BY DEF ThreadsInv

\* Steps that leave the store and the files alone.
LEMMA LandmarksStay ==
  ASSUME LandmarkInv, UNCHANGED <<store, disk>>, now' \in Nat, ThreadsInv',
         writer' # "nobody" => writer # "nobody"
  PROVE  LandmarkInv'
<1>1. StoreInv'
  BY DEF LandmarkInv, StoreInv, Store
<1>2. store.revision \in Nat /\ DiskInv
  BY DEF LandmarkInv, StoreInv, Store
<1>3. DiskInv'
  BY <1>2, DiskKeeps
<1> QED  BY <1>1, <1>3 DEF LandmarkInv

-----------------------------------------------------------------------------
(* The ROS thread *)

LEMMA CheckKeeps ==
  ASSUME LandmarkInv, NEW scene \in Scenes, NEW map \in Int, Check(scene, map)
  PROVE  LandmarkInv'
<1> DEFINE Seen == [kind : Kinds, pos : Line]
<1> DEFINE targets == [i \in DOMAIN scene |-> [kind |-> scene[i].kind, pos |-> scene[i].pos, map |-> map]]
<1>1. scene \in Seq(Seen)
  BY SemanticAssumption
<1>2. DOMAIN scene = 1..Len(scene) /\ Len(scene) \in Nat
  BY <1>1
<1>3. \A i \in DOMAIN scene : scene[i] \in Seen
  <2> HIDE DEF Seen
  <2> QED  BY <1>1, <1>2, ElementOfSeq
<1>4. \A i \in DOMAIN scene : [kind |-> scene[i].kind, pos |-> scene[i].pos, map |-> map] \in Target
  BY <1>3 DEF Target
<1>5. targets \in [1..Len(scene) -> Target]
  BY <1>2, <1>4
<1>6. targets \in Seq(Target)
  <2> HIDE DEF targets
  <2> QED  BY <1>2, <1>5, SeqDef
<1>7. ros' = [at |-> "checked", matched |-> {}, targets |-> targets]
      /\ UNCHANGED <<store, http, writer, disk, now, damage>>
  BY DEF Check
<1> HIDE DEF targets
<1>8. ThreadsInv'
  BY <1>6, <1>7 DEF LandmarkInv, ThreadsInv
<1>9. now' \in Nat
  BY <1>7 DEF LandmarkInv, StoreInv
<1> QED  BY <1>7, <1>8, <1>9, LandmarksStay

LEMMA BeginKeeps == LandmarkInv /\ Begin => LandmarkInv'
<1> SUFFICES ASSUME LandmarkInv, Begin PROVE LandmarkInv'
  OBVIOUS
<1>1. ros' = [ros EXCEPT !.at = "fusing"] /\ UNCHANGED <<store, http, writer, disk, now, damage>>
      /\ writer = "nobody"
  BY DEF Begin, Unlocked
<1>2. ThreadsInv' /\ now' \in Nat
  BY <1>1 DEF LandmarkInv, ThreadsInv, StoreInv
<1> QED  BY <1>1, <1>2, LandmarksStay

MovesEnough(old, new) ==
  \/ Distance(old.pos, new.pos) <= Movement
  \/ new.far >= RelocationObservations

LEMMA StaysPut ==
  ASSUME NEW mark, SoundMark(mark)
  PROVE  MovesEnough(mark, mark)
<1>1. mark.pos \in Int
  BY SemanticAssumption DEF SoundMark, Mark
<1>2. Distance(mark.pos, mark.pos) = 0
  BY <1>1, DistanceFacts
<1> QED  BY <1>2 DEF MovesEnough, Movement

LEMMA FuseKeeps ==
  ASSUME LandmarkInv, Fuse
  PROVE  /\ LandmarkInv'
         /\ DOMAIN store'.marks = DOMAIN store.marks =>
              \A id \in DOMAIN store.marks :
                store.marks[id].confirmed /\ store.marks[id].kind \notin Dynamic
                => MovesEnough(store.marks[id], store'.marks[id])
<1> DEFINE t == Head(ros.targets)
<1>1. t \in Target /\ Tail(ros.targets) \in Seq(Target) /\ ros.at = "fusing"
      /\ UNCHANGED <<http, writer, disk, now, damage>>
  BY TargetsFacts DEF LandmarkInv, Fuse
<1>2. StoreInv /\ ThreadsInv /\ DiskInv /\ SoundMarks(store.marks, store.next) /\ now \in Nat
      /\ store.revision \in Nat /\ store.next \in Nat
  BY DEF LandmarkInv, StoreInv, Store
<1>3. writer = "nobody"
  BY <1>1, <1>2 DEF ThreadsInv
<1>4. ASSUME NEW id \in Nat, ros' = [ros EXCEPT !.targets = Tail(@), !.matched = @ \cup {id}]
      PROVE  ThreadsInv'
  <2> DEFINE rest == Tail(ros.targets)
  <2> DEFINE matched == ros.matched \cup {id}
  <2>1. ros' = [ros EXCEPT !.targets = rest, !.matched = matched]
    BY <1>4
  <2>2. rest \in Seq(Target) /\ matched \in SUBSET Nat
    BY <1>1, <1>2 DEF ThreadsInv
  <2> HIDE DEF rest, matched
  <2> QED  BY <1>1, <1>2, <1>3, <2>1, <2>2 DEF ThreadsInv
<1>5. ASSUME store'.revision = store.revision PROVE DiskInv'
  BY <1>1, <1>2, <1>3, <1>5, DiskKeeps
<1>6. CASE /\ store' = [store EXCEPT !.marks = With(@, store.next, Created(t)), !.next = @ + 1]
           /\ ros' = [ros EXCEPT !.targets = Tail(@), !.matched = @ \cup {store.next}]
  <2> DEFINE marks == With(store.marks, store.next, Created(t))
  <2> DEFINE next == store.next + 1
  <2>1. SoundMarks(marks, next) /\ DOMAIN marks # DOMAIN store.marks
    BY <1>1, <1>2, CreatedMark, SoundNew
  <2>2. store' = [store EXCEPT !.marks = marks, !.next = next] /\ next \in Nat
    BY <1>2, <1>6
  <2> HIDE DEF marks, next
  <2>3. store'.marks = marks /\ store'.next = next /\ store'.revision = store.revision
        /\ store' \in [marks : {marks}, next : Nat, revision : Nat, dirty : BOOLEAN, flushed : Int]
    BY <1>2, <2>2 DEF StoreInv, Store
  <2>4. StoreInv'
    BY <1>1, <1>2, <2>1, <2>3 DEF StoreInv, Store
  <2>5. ThreadsInv' /\ DiskInv'
    BY <1>2, <1>4, <1>5, <1>6, <2>3
  <2> QED  BY <2>1, <2>3, <2>4, <2>5 DEF LandmarkInv
<1>7. CASE \E id \in Nearest(t), mark \in UNION {Updated(store.marks[i], t) : i \in Nearest(t)} :
             /\ mark \in Updated(store.marks[id], t)
             /\ store' = [store EXCEPT !.marks = With(@, id, mark)]
             /\ ros' = [ros EXCEPT !.targets = Tail(@), !.matched = @ \cup {id}]
  <2>1. PICK id \in Nearest(t), mark \in UNION {Updated(store.marks[i], t) : i \in Nearest(t)} :
             /\ mark \in Updated(store.marks[id], t)
             /\ store' = [store EXCEPT !.marks = With(store.marks, id, mark)]
             /\ ros' = [ros EXCEPT !.targets = Tail(@), !.matched = @ \cup {id}]
    BY <1>7
  <2>2. id \in DOMAIN store.marks
    BY DEF Nearest
  <2>3. SoundMark(store.marks[id]) /\ id \in Nat
    BY <1>2, <2>2 DEF SoundMarks
  <2>4. /\ SoundMark(mark)
        /\ store.marks[id].confirmed /\ store.marks[id].kind \notin Dynamic
             => MovesEnough(store.marks[id], mark)
    BY <1>1, <1>2, <2>1, <2>3, UpdatedMark DEF MovesEnough
  <2> DEFINE marks == With(store.marks, id, mark)
  <2>5. SoundMarks(marks, store.next)
    BY <1>2, <2>2, <2>4, SoundWith
  <2>6. marks[id] = mark /\ \A i \in DOMAIN store.marks : i # id => marks[i] = store.marks[i]
    BY <2>2 DEF With
  <2>7. store' = [store EXCEPT !.marks = marks]
    BY <2>1
  <2> HIDE DEF marks
  <2>8. StoreInv' /\ store'.marks = marks /\ store'.revision = store.revision
    BY <1>1, <1>2, <2>5, <2>7, StoreChange
  <2>9. ThreadsInv' /\ DiskInv'
    BY <1>4, <1>5, <2>1, <2>3, <2>8
  <2>10. ASSUME NEW i \in DOMAIN store.marks, store.marks[i].confirmed, store.marks[i].kind \notin Dynamic
         PROVE  MovesEnough(store.marks[i], store'.marks[i])
    <3>1. CASE i = id
      BY <2>4, <2>6, <2>8, <2>10, <3>1
    <3>2. CASE i # id
      <4>1. SoundMark(store.marks[i])
        BY <1>2 DEF SoundMarks
      <4> QED  BY <2>6, <2>8, <3>2, <4>1, StaysPut
    <3> QED  BY <3>1, <3>2
  <2> QED  BY <2>8, <2>9, <2>10 DEF LandmarkInv
<1> QED  BY <1>6, <1>7 DEF Fuse

LEMMA MergeRemoves ==
  ASSUME LandmarkInv, Merge
  PROVE  LandmarkInv' /\ DOMAIN store'.marks # DOMAIN store.marks
<1>1. UNCHANGED <<ros, http, writer, disk, now, damage>> /\ ros.at = "fusing"
  BY DEF Merge
<1>2. StoreInv /\ ThreadsInv /\ DiskInv /\ SoundMarks(store.marks, store.next) /\ now \in Nat
      /\ store.revision \in Nat
  BY DEF LandmarkInv, StoreInv, Store
<1>3. PICK pair \in Duplicates :
        LET keeper == store.marks[pair[1]]
            other == store.marks[pair[2]]
        IN \E p \in Between(keeper.pos, other.pos) :
             store' = [store EXCEPT !.marks = Less(With(@, pair[1],
                         [keeper EXCEPT !.pos = p, !.confirmed = @ \/ other.confirmed,
                            !.seen = IF other.seen > @ THEN other.seen ELSE @]), {pair[2]})]
  BY DEF Merge
<1> DEFINE keeper == store.marks[pair[1]]
<1> DEFINE other == store.marks[pair[2]]
<1> DEFINE sure == keeper.confirmed \/ other.confirmed
<1> DEFINE seen == IF other.seen > keeper.seen THEN other.seen ELSE keeper.seen
<1>4. PICK p \in Between(keeper.pos, other.pos) :
        store' = [store EXCEPT !.marks = Less(With(store.marks, pair[1],
                     [keeper EXCEPT !.pos = p, !.confirmed = sure, !.seen = seen]), {pair[2]})]
  BY <1>3
<1>5. pair[1] \in DOMAIN store.marks /\ pair[2] \in DOMAIN store.marks /\ pair[1] # pair[2]
  BY DEF Duplicates
<1>6. SoundMark(keeper) /\ SoundMark(other)
  BY <1>2, <1>5 DEF SoundMarks
<1>7. p \in Line
  BY DEF Between
<1>8. sure \in BOOLEAN /\ seen \in Int /\ (keeper.confirmed => sure)
  BY <1>6 DEF SoundMark, Mark
<1> HIDE DEF keeper, other, sure, seen
<1> DEFINE kept == [keeper EXCEPT !.pos = p, !.confirmed = sure, !.seen = seen]
<1>9. kept \in Mark /\ kept.pending = keeper.pending /\ kept.far = keeper.far /\ kept.confirmed = sure
  BY <1>6, <1>7, <1>8 DEF SoundMark, Mark
<1>10. store' = [store EXCEPT !.marks = Less(With(store.marks, pair[1], kept), {pair[2]})]
  BY <1>4
<1> HIDE DEF kept
<1>11. SoundMark(kept)
  BY <1>6, <1>8, <1>9 DEF SoundMark
<1> DEFINE with == With(store.marks, pair[1], kept)
<1>12. SoundMarks(with, store.next) /\ DOMAIN with = DOMAIN store.marks
  BY <1>2, <1>5, <1>11, SoundWith
<1> HIDE DEF with
<1> DEFINE marks == Less(with, {pair[2]})
<1>13. SoundMarks(marks, store.next) /\ DOMAIN marks = (DOMAIN with) \ {pair[2]}
  BY <1>12, SoundLess
<1>14. store' = [store EXCEPT !.marks = marks]
  BY <1>10 DEF with
<1> HIDE DEF marks
<1>15. StoreInv' /\ store'.marks = marks /\ store'.revision = store.revision
  BY <1>1, <1>2, <1>13, <1>14, StoreChange
<1>16. ThreadsInv' /\ writer' = "nobody"
  BY <1>1, <1>2 DEF ThreadsInv
<1>17. DiskInv'
  BY <1>1, <1>2, <1>15, <1>16, DiskKeeps
<1> QED  BY <1>5, <1>12, <1>13, <1>15, <1>16, <1>17 DEF LandmarkInv

LEMMA FusedKeeps == LandmarkInv /\ Fused => LandmarkInv'
<1> SUFFICES ASSUME LandmarkInv, Fused PROVE LandmarkInv'
  OBVIOUS
<1>1. UNCHANGED <<http, writer, disk, now, damage>> /\ ros' = [Idle0 EXCEPT !.at = "flush"]
      /\ ros.at = "fusing"
      /\ store' = IF ros.matched = {} /\ Expired = {} THEN store ELSE Changed(Less(store.marks, Expired))
  BY DEF Fused
<1>2. StoreInv /\ ThreadsInv /\ DiskInv /\ SoundMarks(store.marks, store.next) /\ now \in Nat
      /\ store.revision \in Nat
  BY DEF LandmarkInv, StoreInv, Store
<1>3. << >> \in Seq(Target)
  OBVIOUS
<1>4. ThreadsInv' /\ writer' = "nobody"
  BY <1>1, <1>2, <1>3 DEF ThreadsInv, Idle0
<1>5. CASE store' = store
  BY <1>1, <1>2, <1>4, <1>5, LandmarksStay
<1>6. CASE store' = Changed(Less(store.marks, Expired))
  <2>1. SoundMarks(Less(store.marks, Expired), store.next)
    BY <1>2, SoundLess
  <2>2. StoreInv' /\ store'.revision \in Nat /\ store'.revision >= store.revision
    BY <1>1, <1>2, <1>6, <2>1, StoreChange
  <2>3. DiskInv'
    BY <1>1, <1>2, <1>4, <2>2, DiskKeeps
  <2> QED  BY <1>4, <2>2, <2>3 DEF LandmarkInv
<1> QED  BY <1>1, <1>5, <1>6

-----------------------------------------------------------------------------
(* The page *)

LEMMA PageChanges ==
  ASSUME LandmarkInv, Unlocked, NEW marks, SoundMarks(marks, store.next), store' = Changed(marks),
         http' = "flush", UNCHANGED <<ros, writer, disk, now, damage>>
  PROVE  LandmarkInv'
<1>1. StoreInv /\ ThreadsInv /\ DiskInv /\ store.revision \in Nat
  BY DEF LandmarkInv, StoreInv, Store
<1>2. StoreInv' /\ store'.revision \in Nat /\ store'.revision >= store.revision
  BY <1>1, StoreChange
<1>3. ThreadsInv' /\ writer' = "nobody"
  BY <1>1 DEF ThreadsInv, Unlocked
<1>4. DiskInv'
  BY <1>1, <1>2, <1>3, DiskKeeps
<1> QED  BY <1>2, <1>3, <1>4 DEF LandmarkInv

LEMMA ClearKeeps == LandmarkInv /\ ClearMap => LandmarkInv'
<1> SUFFICES ASSUME LandmarkInv, ClearMap PROVE LandmarkInv'
  OBVIOUS
<1>1. SoundMarks(<< >>, store.next)
  BY SoundNothing DEF LandmarkInv, StoreInv, SoundMarks
<1> QED  BY <1>1, PageChanges DEF ClearMap

LEMMA LooksKeep ==
  ASSUME LandmarkInv, Look \/ \E id \in DOMAIN store.marks : RemoveMark(id)
  PROVE  LandmarkInv'
<1>1. \A gone : SoundMarks(Less(store.marks, gone), store.next)
  BY SoundLess DEF LandmarkInv, StoreInv
<1>2. CASE Look
  BY <1>1, <1>2, PageChanges DEF Look
<1>3. ASSUME NEW id, RemoveMark(id) PROVE LandmarkInv'
  BY <1>1, <1>3, PageChanges DEF RemoveMark
<1> QED  BY <1>2, <1>3

-----------------------------------------------------------------------------
(* The files *)

LEMMA Returns ==
  ASSUME ThreadsInv, NEW thread \in {"ros", "http"}, Returned(thread), writer' = "nobody"
  PROVE  ThreadsInv'
<1>1. << >> \in Seq(Target)
  OBVIOUS
<1>2. Idle0 \in [at : {"idle", "checked", "fusing", "flush"}, targets : Seq(Target), matched : SUBSET Nat]
  BY <1>1 DEF Idle0
<1> QED  BY <1>2 DEF ThreadsInv, Returned

LEMMA FilesFacts ==
  ASSUME LandmarkInv
  PROVE  /\ StoreInv /\ ThreadsInv /\ DiskInv /\ store.revision \in Nat /\ now \in Nat
         /\ SoundMarks(Snapshot.marks, Snapshot.next) /\ Snapshot.revision = store.revision
         /\ Readable.revision \in Int /\ SoundMarks(Readable.marks, Readable.next)
BY DEF LandmarkInv, StoreInv, Store, Snapshot, DiskInv, Readable

\* The files after one of them is replaced.
LEMMA DiskReplaced ==
  ASSUME DiskInv, NEW main, NEW backup, NEW kept, disk' = [main |-> main, backup |-> backup, kept |-> kept]
  PROVE  /\ disk'.main = main /\ disk'.backup = backup /\ disk'.kept = kept
         /\ disk' = [main |-> disk'.main, backup |-> disk'.backup, kept |-> disk'.kept]
         /\ Readable' = IF main.revision >= 0 THEN main ELSE backup
BY DEF Readable

LEMMA WritesMain ==
  ASSUME LandmarkInv, NEW thread \in {"ros", "http"}, WriteMain(thread)
  PROVE  LandmarkInv'
<1>1. UNCHANGED <<store, ros, http, now, damage>> /\ writer' = thread /\ Unlocked
      /\ disk' = [disk EXCEPT !.main = Snapshot, !.kept = store.revision]
  BY DEF WriteMain
<1>2. disk' = [main |-> Snapshot, backup |-> disk.backup, kept |-> store.revision]
  BY <1>1, FilesFacts DEF DiskInv
<1>3. disk'.main = Snapshot /\ disk'.backup = disk.backup /\ disk'.kept = store.revision
      /\ disk' = [main |-> disk'.main, backup |-> disk'.backup, kept |-> disk'.kept]
      /\ Readable' = Snapshot
  BY <1>2, FilesFacts, DiskReplaced
<1>4. disk.backup.revision <= store.revision
  BY FilesFacts DEF DiskInv, Readable
<1>5. DiskInv'
  BY <1>1, <1>3, <1>4, FilesFacts DEF DiskInv
<1>6. ThreadsInv' /\ StoreInv'
  BY <1>1, FilesFacts DEF ThreadsInv, StoreInv, Store, Unlocked
<1> QED  BY <1>5, <1>6 DEF LandmarkInv

LEMMA WritesBackup == LandmarkInv /\ WriteBackup => LandmarkInv'
<1> SUFFICES ASSUME LandmarkInv, WriteBackup PROVE LandmarkInv'
  OBVIOUS
<1> DEFINE no == FALSE
<1>1. writer # "nobody" /\ disk' = [disk EXCEPT !.backup = Snapshot]
      /\ store' = [store EXCEPT !.dirty = no, !.flushed = now]
      /\ writer' = "nobody" /\ Returned(writer) /\ UNCHANGED <<now, damage>> /\ no \in BOOLEAN
  BY DEF WriteBackup
<1> HIDE DEF no
<1>2. disk' = [main |-> disk.main, backup |-> Snapshot, kept |-> disk.kept]
  BY <1>1, FilesFacts DEF DiskInv
<1>3. disk'.main = disk.main /\ disk'.backup = Snapshot /\ disk'.kept = disk.kept
      /\ disk' = [main |-> disk'.main, backup |-> disk'.backup, kept |-> disk'.kept]
      /\ Readable' = IF disk.main.revision >= 0 THEN disk.main ELSE Snapshot
  BY <1>2, FilesFacts, DiskReplaced
<1>4. store'.marks = store.marks /\ store'.next = store.next /\ store'.revision = store.revision
      /\ store' \in [marks : {store.marks}, next : Nat, revision : Nat, dirty : BOOLEAN, flushed : Int]
  <2>1. store = [marks |-> store.marks, next |-> store.next, revision |-> store.revision,
                 dirty |-> store.dirty, flushed |-> store.flushed]
        /\ store.next \in Nat /\ store.revision \in Nat /\ now \in Int
    BY FilesFacts DEF StoreInv, Store
  <2>2. store' = [marks |-> store.marks, next |-> store.next, revision |-> store.revision,
                  dirty |-> no, flushed |-> now]
    BY <1>1, <2>1
  <2> QED  BY <1>1, <2>1, <2>2
<1>5. StoreInv'
  BY <1>1, <1>4, FilesFacts DEF StoreInv, Store
<1>6. writer \in {"ros", "http"}
  BY <1>1, FilesFacts DEF ThreadsInv
<1>7. ThreadsInv'
  BY <1>1, <1>6, FilesFacts, Returns
<1>8. Readable.revision <= store.revision /\ disk.kept <= Readable.revision
      /\ (disk.main.revision >= 0 => disk.main.revision = store.revision)
      /\ disk.main.revision \in Int /\ disk.kept \in Int
      /\ SoundMarks(disk.main.marks, disk.main.next)
  BY <1>1, FilesFacts DEF DiskInv
<1>9. Readable'.revision = store.revision
  BY <1>3, <1>8, FilesFacts
<1>10. DiskInv'
  BY <1>1, <1>3, <1>4, <1>8, <1>9, FilesFacts DEF DiskInv
<1> QED  BY <1>5, <1>7, <1>10 DEF LandmarkInv

LEMMA FlushEnds ==
  ASSUME LandmarkInv, NEW thread \in {"ros", "http"}, FlushSkipped(thread) \/ WriteFails(thread)
  PROVE  LandmarkInv'
<1>1. UNCHANGED <<store, disk, now>> /\ writer' \in {writer, "nobody"} /\ Returned(thread)
  BY DEF FlushSkipped, WriteFails
<1>2. FlushSkipped(thread) => writer = "nobody"
  BY DEF FlushSkipped, Unlocked
<1>3. writer' = "nobody"
  BY <1>1, <1>2 DEF FlushSkipped, WriteFails
<1>4. ThreadsInv' /\ now' \in Nat
  BY <1>1, <1>3, FilesFacts, Returns
<1> QED  BY <1>1, <1>3, <1>4, LandmarksStay

LEMMA FreshIsSound ==
  /\ Fresh \in [marks : {<< >>}, next : Nat, revision : Nat, dirty : BOOLEAN, flushed : Int]
  /\ SoundMarks(Fresh.marks, Fresh.next) /\ Fresh.revision = 0 /\ Fresh.marks = << >>
  /\ SoundMarks(NoFile.marks, NoFile.next) /\ NoFile.revision = -1
<1> DEFINE no == FALSE
<1> DEFINE past == -FlushPeriod
<1>1. Fresh = [marks |-> << >>, next |-> 1, revision |-> 0, dirty |-> no, flushed |-> past]
  BY DEF Fresh
<1>2. no \in BOOLEAN /\ past \in Int
  BY SemanticAssumption
<1>3. SoundMarks(<< >>, 1)
  BY SoundNothing
<1> HIDE DEF no, past
<1>4. NoFile = [revision |-> -1, marks |-> << >>, next |-> 1]
  BY DEF NoFile
<1> QED  BY <1>1, <1>2, <1>3, <1>4

LEMMA Restarts == LandmarkInv /\ RestartViewer => LandmarkInv'
<1> SUFFICES ASSUME LandmarkInv, RestartViewer PROVE LandmarkInv'
  OBVIOUS
<1>1. store' = Loaded /\ ros' = Idle0 /\ http' = "idle" /\ writer' = "nobody" /\ UNCHANGED <<disk, now>>
  BY DEF RestartViewer
<1>2. /\ store'.revision \in Nat /\ store'.revision >= Readable.revision
      /\ SoundMarks(store'.marks, store'.next)
      /\ store' \in [marks : {store'.marks}, next : Nat, revision : Nat, dirty : BOOLEAN, flushed : Int]
  <2>1. CASE Readable.revision < 0
    <3>1. store' = Fresh
      BY <1>1, <2>1 DEF Loaded
    <3> QED  BY <2>1, <3>1, FreshIsSound, FilesFacts
  <2>2. CASE ~(Readable.revision < 0)
    <3> DEFINE spoiled == disk.main.revision < 0
    <3> DEFINE past == -FlushPeriod
    <3>1. store' = [marks |-> Readable.marks, next |-> Readable.next, revision |-> Readable.revision,
                    dirty |-> spoiled, flushed |-> past]
      BY <1>1, <2>2 DEF Loaded
    <3>2. spoiled \in BOOLEAN /\ past \in Int
      BY SemanticAssumption
    <3>3. Readable.revision \in Nat /\ Readable.next \in Nat /\ SoundMarks(Readable.marks, Readable.next)
      BY <2>2, FilesFacts DEF SoundMarks
    <3> HIDE DEF spoiled, past
    <3> QED  BY <3>1, <3>2, <3>3
  <2> QED  BY <2>1, <2>2
<1>3. StoreInv'
  BY <1>1, <1>2, FilesFacts DEF StoreInv, Store
<1>4. << >> \in Seq(Target)
  OBVIOUS
<1>5. ThreadsInv'
  BY <1>1, <1>4 DEF ThreadsInv, Idle0
<1>6. Readable' = Readable
  BY <1>1 DEF Readable
<1>7. DiskInv'
  BY <1>1, <1>2, <1>6, FilesFacts DEF DiskInv
<1> QED  BY <1>3, <1>5, <1>7 DEF LandmarkInv

LEMMA Spoils == LandmarkInv /\ Spoil => LandmarkInv'
<1> SUFFICES ASSUME LandmarkInv, Spoil PROVE LandmarkInv'
  OBVIOUS
<1>1. UNCHANGED <<store, ros, http, writer, now>> /\ disk.main.revision >= 0
      /\ disk' = [disk EXCEPT !.main = NoFile, !.kept = disk.backup.revision]
  BY DEF Spoil
<1>2. disk' = [main |-> NoFile, backup |-> disk.backup, kept |-> disk.backup.revision]
  BY <1>1, FilesFacts DEF DiskInv
<1>3. NoFile.revision = -1 /\ SoundMarks(NoFile.marks, NoFile.next)
  BY FreshIsSound
<1>4. disk'.main = NoFile /\ disk'.backup = disk.backup /\ disk'.kept = disk.backup.revision
      /\ disk' = [main |-> disk'.main, backup |-> disk'.backup, kept |-> disk'.kept]
      /\ Readable' = disk.backup
  BY <1>2, <1>3, FilesFacts, DiskReplaced
<1>5. disk.backup.revision <= store.revision
  BY <1>1, FilesFacts DEF DiskInv, Readable
<1>6. DiskInv'
  BY <1>1, <1>3, <1>4, <1>5, FilesFacts DEF DiskInv
<1>7. ThreadsInv' /\ StoreInv'
  BY <1>1, FilesFacts DEF ThreadsInv, StoreInv, Store
<1> QED  BY <1>6, <1>7 DEF LandmarkInv

LEMMA TimePasses == LandmarkInv /\ Passes => LandmarkInv'
<1> SUFFICES ASSUME LandmarkInv, Passes PROVE LandmarkInv'
  OBVIOUS
<1>1. now' \in Nat /\ UNCHANGED <<store, ros, http, writer, disk, damage>>
  BY FilesFacts DEF Passes
<1>2. ThreadsInv'
  BY <1>1, FilesFacts DEF ThreadsInv
<1> QED  BY <1>1, <1>2, LandmarksStay

LEMMA LandmarkStepInv ==
  ASSUME LandmarkInv, NEW map \in Int, SemanticStep(map)
  PROVE  LandmarkInv'
<1>1. ASSUME NEW thread \in {"ros", "http"},
             FlushSkipped(thread) \/ WriteMain(thread) \/ WriteFails(thread)
      PROVE  LandmarkInv'
  BY <1>1, WritesMain, FlushEnds
<1>2. ASSUME NEW scene \in Scenes, Check(scene, map) PROVE LandmarkInv'
  BY <1>2, CheckKeeps
<1> QED
  BY <1>1, <1>2, BeginKeeps, FuseKeeps, MergeRemoves, FusedKeeps, LooksKeep, ClearKeeps, WritesBackup,
     Restarts, Spoils, TimePasses DEF SemanticStep

LEMMA LandmarkInitInv == SemanticInit => LandmarkInv
<1> SUFFICES ASSUME SemanticInit PROVE LandmarkInv
  OBVIOUS
<1>1. store = Fresh /\ ros = Idle0 /\ http = "idle" /\ writer = "nobody"
      /\ disk = [main |-> NoFile, backup |-> NoFile, kept |-> -1] /\ now = 0
  BY DEF SemanticInit
<1>2. StoreInv
  BY <1>1, FreshIsSound DEF StoreInv, Store
<1>3. << >> \in Seq(Target)
  OBVIOUS
<1>4. ThreadsInv
  BY <1>1, <1>3 DEF ThreadsInv, Idle0
<1>5. disk.main = NoFile /\ disk.backup = NoFile /\ disk.kept = -1 /\ Readable = NoFile
  BY <1>1, FreshIsSound DEF Readable
<1>6. DiskInv
  BY <1>1, <1>5, FreshIsSound DEF DiskInv
<1> QED  BY <1>2, <1>4, <1>6 DEF LandmarkInv

-----------------------------------------------------------------------------
(* The requests *)

LEMMA RequestInitInv == SiteInit => RequestInv
BY SiteAssumption DEF SiteInit, RequestInv, Request0, NoRequest0, NotRun, Run, Page, Maps

\* Steps that leave the page, the inbox and the runs alone, and do not take a request.
LEMMA RequestsStay ==
  ASSUME RequestInv, slam' \in Int, UNCHANGED <<page, inbox, runs>>, site' = "taken" => site = "taken"
  PROVE  RequestInv'
BY DEF RequestInv, Waits

LEMMA PageAdmits == RequestInv /\ now \in Nat /\ Admits => RequestInv'
<1> SUFFICES ASSUME RequestInv, now \in Nat, Admits PROVE RequestInv'
  OBVIOUS
<1> DEFINE n == page.sequence + 1
<1>1. page.sequence \in 0..MaxRequests /\ page.sequence < MaxRequests /\ inbox.queued = NoRequest0
      /\ UNCHANGED <<slam, inbox, site, status, voxels, depth>>
      /\ page' = [at |-> "writing", sequence |-> n, since |-> now]
      /\ runs' = [runs EXCEPT ![n] = [asked |-> now, count |-> 0, started |-> 0]]
  BY DEF Admits, RequestInv, Page, NotRun
<1>2. n \in 1..MaxRequests /\ n > page.sequence /\ page.sequence \in Nat
  BY <1>1, SiteAssumption
<1>3. page' \in Page
  BY <1>1, <1>2, SiteAssumption DEF Page
<1>4. page'.at = "writing" /\ page'.sequence = n /\ page'.since = now
  BY <1>1
<1> HIDE DEF n
<1>5. /\ runs' \in [1..MaxRequests -> Run] /\ runs'[n].count = 0 /\ runs'[n].asked = now
      /\ \A r \in 1..MaxRequests : r # n => runs'[r] = runs[r]
  BY <1>1, <1>2 DEF RequestInv, Run
<1>6. \A r \in 1..MaxRequests : runs'[r].count = 1 => runs'[r].started - runs'[r].asked <= StaleAfter
  BY <1>5 DEF RequestInv
<1>7. \A r \in 1..MaxRequests : r > n => runs'[r].count = 0
  BY <1>2, <1>5 DEF RequestInv
<1>8. Waits(runs', n, now)
  BY <1>1, <1>2, <1>5 DEF Waits
<1>9. ASSUME site = "taken"
      PROVE  /\ inbox.processing.sequence \in 1..n
             /\ Waits(runs', inbox.processing.sequence, inbox.processing.at)
             /\ n > inbox.processing.sequence
  <2>1. /\ inbox.processing.sequence \in 1..page.sequence
        /\ Waits(runs, inbox.processing.sequence, inbox.processing.at)
    BY <1>9 DEF RequestInv
  <2>2. inbox.processing.sequence \in 1..n /\ n > inbox.processing.sequence
    BY <2>1, <1>2
  <2> QED  BY <2>1, <2>2, <1>1, <1>5 DEF Waits
<1>10. slam' \in Int /\ inbox' \in [queued : Request0, processing : Request0]
  BY <1>1 DEF RequestInv
<1>11. Waits(runs', page'.sequence, page'.since)
  BY <1>4, <1>8
<1> QED  BY <1>1, <1>2, <1>3, <1>4, <1>5, <1>6, <1>7, <1>9, <1>10, <1>11 DEF RequestInv, Waits

LEMMA PageQueues == RequestInv /\ Queues => RequestInv'
<1> SUFFICES ASSUME RequestInv, Queues PROVE RequestInv'
  OBVIOUS
<1> DEFINE request == [sequence |-> page.sequence, at |-> page.since]
<1>1. page.at = "writing" /\ inbox' = [inbox EXCEPT !.queued = request] /\ page' = [page EXCEPT !.at = "idle"]
      /\ UNCHANGED <<slam, site, status, runs, voxels, depth>>
  BY DEF Queues
<1>2. request \in Request0 /\ request.sequence = page.sequence /\ request.at = page.since
  BY DEF RequestInv, Request0, Page
<1> HIDE DEF request
<1>3. inbox' \in [queued : Request0, processing : Request0] /\ inbox'.queued = request
      /\ inbox'.processing = inbox.processing
  BY <1>1, <1>2 DEF RequestInv
<1>4. page' \in Page /\ page'.at = "idle" /\ page'.sequence = page.sequence
  BY <1>1 DEF RequestInv, Page
<1>5. page.sequence \in 1..page.sequence /\ Waits(runs, page.sequence, page.since)
  BY <1>1, SiteAssumption DEF RequestInv, Page
<1>6. site = "taken" => page.sequence > inbox.processing.sequence
  BY <1>1 DEF RequestInv
<1> QED  BY <1>1, <1>2, <1>3, <1>4, <1>5, <1>6 DEF RequestInv, Waits

\* The request is not written: its number is not used.
LEMMA PageGivesUp == RequestInv /\ NotQueued => RequestInv'
<1> SUFFICES ASSUME RequestInv, NotQueued PROVE RequestInv'
  OBVIOUS
<1>1. page' = [page EXCEPT !.at = "idle"] /\ UNCHANGED <<slam, inbox, site, status, runs, voxels, depth>>
  BY DEF NotQueued
<1>2. page' \in Page /\ page'.at = "idle" /\ page'.sequence = page.sequence
  BY <1>1 DEF RequestInv, Page
<1> QED  BY <1>1, <1>2 DEF RequestInv, Waits

LEMMA BridgeTakesRequest == RequestInv /\ TakesRequest => RequestInv'
<1> SUFFICES ASSUME RequestInv, TakesRequest PROVE RequestInv'
  OBVIOUS
<1>1. inbox.queued # NoRequest0 /\ inbox' = [queued |-> NoRequest0, processing |-> inbox.queued]
      /\ site' = "taken" /\ UNCHANGED <<slam, page, status, runs, voxels, depth>>
  BY DEF TakesRequest, Moved
<1>2. NoRequest0 \in Request0
  BY SiteAssumption DEF NoRequest0, Request0
<1>3. inbox' \in [queued : Request0, processing : Request0] /\ inbox'.queued = NoRequest0
      /\ inbox'.processing = inbox.queued
  BY <1>1, <1>2 DEF RequestInv
<1>4. page.at # "writing"
  BY <1>1 DEF RequestInv
<1> QED  BY <1>1, <1>3, <1>4 DEF RequestInv, Waits

LEMMA BegunFacts ==
  ASSUME NEW run \in Run, run.count = 0, now \in Nat
  PROVE  Begun(run) \in Run /\ Begun(run).started = now /\ Begun(run).asked = run.asked
BY DEF Begun, Run

LEMMA ScriptStarts == RequestInv /\ now \in Nat /\ StartsScript => RequestInv'
<1> SUFFICES ASSUME RequestInv, now \in Nat, StartsScript PROVE RequestInv'
  OBVIOUS
<1> DEFINE s == inbox.processing.sequence
<1> DEFINE begun == Begun(runs[s])
<1>1. site = "taken" /\ runs' = [runs EXCEPT ![s] = begun] /\ site' = "save"
      /\ now - inbox.processing.at <= StaleAfter /\ UNCHANGED <<slam, page, inbox, voxels, depth>>
  BY DEF StartsScript
<1>2. s \in 1..page.sequence /\ s \in 1..MaxRequests /\ Waits(runs, s, inbox.processing.at)
      /\ (page.at = "writing" => page.sequence > s)
      /\ (inbox.queued # NoRequest0 => inbox.queued.sequence > s)
  BY <1>1 DEF RequestInv, Waits
<1>3. runs[s] \in Run /\ runs[s].count = 0
  BY <1>2 DEF RequestInv, Waits
<1>4. begun \in Run /\ begun.started = now /\ begun.asked = inbox.processing.at
  BY <1>2, <1>3, BegunFacts DEF Waits
<1> HIDE DEF s, begun
<1>5. runs' \in [1..MaxRequests -> Run] /\ runs'[s] = begun
      /\ \A r \in 1..MaxRequests : r # s => runs'[r] = runs[r]
  BY <1>1, <1>2, <1>4 DEF RequestInv
<1>6. page.sequence \in 0..MaxRequests /\ inbox.queued.sequence \in Nat
  BY SiteAssumption DEF RequestInv, Page, Request0
<1>7. \A r \in 1..MaxRequests : r > page.sequence => runs'[r].count = 0
  BY <1>2, <1>5, <1>6 DEF RequestInv
<1>8. \A r \in 1..MaxRequests : runs'[r].count = 1 => runs'[r].started - runs'[r].asked <= StaleAfter
  BY <1>1, <1>4, <1>5 DEF RequestInv
<1>9. ASSUME page.at = "writing"
      PROVE  inbox.queued = NoRequest0 /\ page.sequence >= 1 /\ Waits(runs', page.sequence, page.since)
  BY <1>1, <1>2, <1>5, <1>6, <1>9 DEF RequestInv, Waits
<1>10. ASSUME inbox.queued # NoRequest0
       PROVE  /\ inbox.queued.sequence \in 1..page.sequence
              /\ Waits(runs', inbox.queued.sequence, inbox.queued.at)
  BY <1>1, <1>2, <1>5, <1>6, <1>10 DEF RequestInv, Waits
<1>11. UNCHANGED <<slam, page, inbox>> /\ site' # "taken"
  BY <1>1
<1> QED  BY <1>5, <1>7, <1>8, <1>9, <1>10, <1>11 DEF RequestInv, Waits

LEMMA ScriptEnds ==
  ASSUME RequestInv, NEW state, NEW sequence, Ended(state, sequence), UNCHANGED <<slam, page, runs>>
  PROVE  RequestInv'
<1>1. NoRequest0 \in Request0
  BY SiteAssumption DEF NoRequest0, Request0
<1>2. inbox' \in [queued : Request0, processing : Request0] /\ inbox'.queued = inbox.queued
      /\ site' = "idle"
  BY <1>1 DEF Ended, RequestInv
<1> QED  BY <1>2 DEF RequestInv, Waits

-----------------------------------------------------------------------------

LEMMA SiteStepRequests == RequestInv /\ now \in Nat /\ SiteStep => RequestInv'
<1> SUFFICES ASSUME RequestInv, now \in Nat, SiteStep PROVE RequestInv'
  OBVIOUS
<1>1. CASE Refuses \/ Completes \/ ScriptFails
  BY <1>1, ScriptEnds DEF Refuses, Completes, ScriptFails
<1>2. CASE StatusAges \/ Saves \/ ClearsLandmarks \/ ClearsVoxels \/ BridgeDies \/ LooksUpDepth
           \/ IntegratesDepth \/ PrunesVoxels
  <2>1. UNCHANGED <<slam, page, inbox, runs>> /\ (site' = "taken" => site = "taken") /\ slam \in Int
    BY <1>2 DEF StatusAges, Saves, ClearsLandmarks, ClearsVoxels, BridgeDies, LooksUpDepth,
                IntegratesDepth, PrunesVoxels, RequestInv
  <2> QED  BY <2>1, RequestsStay
<1>3. CASE RestartsSlam
  <2>1. slam' \in Int /\ UNCHANGED <<page, inbox, runs>> /\ site' # "taken"
    BY <1>3 DEF RestartsSlam, RequestInv
  <2> QED  BY <2>1, RequestsStay
<1> QED
  BY <1>1, <1>2, <1>3, PageAdmits, PageQueues, PageGivesUp, BridgeTakesRequest, ScriptStarts DEF SiteStep

LEMMA SiteStepLandmarks == SiteStep => ClearMap \/ UNCHANGED semanticVars
BY DEF SiteStep, Admits, Queues, NotQueued, StatusAges, TakesRequest, Refuses, StartsScript, Saves, ClearsLandmarks,
       ClearsVoxels, RestartsSlam, Completes, ScriptFails, BridgeDies, LooksUpDepth, IntegratesDepth,
       PrunesVoxels, SemanticUnchanged

LEMMA UnchangedLandmarks == LandmarkInv /\ UNCHANGED semanticVars => LandmarkInv'
<1> SUFFICES ASSUME LandmarkInv, UNCHANGED semanticVars PROVE LandmarkInv'
  OBVIOUS
<1>1. UNCHANGED <<store, ros, http, writer, disk, now>>
  BY DEF semanticVars
<1>2. ThreadsInv' /\ now' \in Nat
  BY <1>1, FilesFacts DEF ThreadsInv
<1> QED  BY <1>1, <1>2, LandmarksStay

LEMMA ChangeStepInv == ChangeInv /\ [SiteStep \/ Landmarks]_<<siteVars, semanticVars>> => ChangeInv'
<1> SUFFICES ASSUME ChangeInv, [SiteStep \/ Landmarks]_<<siteVars, semanticVars>> PROVE ChangeInv'
  OBVIOUS
<1>1. LandmarkInv /\ RequestInv /\ now \in Nat /\ slam \in Int
  BY FilesFacts DEF ChangeInv, RequestInv
<1>2. CASE SiteStep
  BY <1>1, <1>2, SiteStepLandmarks, ClearKeeps, UnchangedLandmarks, SiteStepRequests DEF ChangeInv
<1>3. CASE Landmarks
  <2>1. SemanticStep(slam) /\ UNCHANGED <<slam, page, inbox, site, runs>>
    BY <1>3 DEF Landmarks, siteVars
  <2> QED  BY <1>1, <2>1, LandmarkStepInv, RequestsStay DEF ChangeInv
<1>4. CASE UNCHANGED <<siteVars, semanticVars>>
  <2>1. UNCHANGED <<slam, page, inbox, site, runs>> /\ UNCHANGED semanticVars
    BY <1>4 DEF siteVars
  <2> QED  BY <1>1, <2>1, UnchangedLandmarks, RequestsStay DEF ChangeInv
<1> QED  BY <1>2, <1>3, <1>4

\* semantic_map.py and prepare-new-site.sh together: the landmarks in memory and in the two
\* files, and the requests of the page, in every order of the threads, writes and crashes.
THEOREM SiteInvariant == SiteSpec => []ChangeInv
<1>1. SiteInit /\ SemanticInit => ChangeInv
  BY LandmarkInitInv, RequestInitInv DEF ChangeInv
<1> QED  BY <1>1, ChangeStepInv, PTL DEF SiteSpec

\* What the store has once written can be read again, whichever of its writes was cut short
\* (SemanticMapStore.flush, _load): one of the two files is at least as new.
THEOREM LandmarksSurvive == SiteSpec => []NothingWrittenIsLost
<1> QED  BY SiteInvariant, ChangePromises, PTL

\* The landmarks keep their kinds and places, and no identity but one that was given
\* out, while the viewer dies, files are spoiled and sites change.
THEOREM SemanticTypeCorrect == SiteSpec => []SemanticTypeOK
<1>1. ChangeInv => SemanticTypeOK
  BY DEF ChangeInv, LandmarkInv, StoreInv, ThreadsInv, SoundMarks, SoundMark, Mark, SemanticTypeOK
<1> QED BY <1>1, SiteInvariant, PTL

\* A request to prepare a new site is never carried out a second time nor after it grew too
\* old, although systemd may start the bridge again at any moment (web-new-map-bridge.py).
THEOREM RequestsRunOnce == SiteSpec => []NoRequestRunsTwice
<1> QED  BY SiteInvariant, ChangePromises, PTL

\* A step of the loop that fuses: a landmark goes away, comes, or moves far enough only.
LEMMA SamplesMoveLittle ==
  ASSUME LandmarkInv, NEW map, SemanticStep(map) \/ ClearMap \/ UNCHANGED semanticVars,
         ros.at = "fusing", ros'.at = "fusing", DOMAIN store.marks = DOMAIN store'.marks,
         NEW id \in DOMAIN store.marks,
         store.marks[id].confirmed, store.marks[id].kind \notin Dynamic
  PROVE  MovesEnough(store.marks[id], store'.marks[id])
<1>1. SoundMark(store.marks[id]) /\ writer = "nobody"
  BY FilesFacts DEF StoreInv, SoundMarks, ThreadsInv
<1>2. ~Unlocked
  BY DEF Unlocked
<1>3. CASE Fuse
  BY <1>3, FuseKeeps
<1>4. ~Merge
  BY MergeRemoves
<1>5. ~RestartViewer /\ ~Fused
  BY DEF RestartViewer, Fused, Idle0
<1>6. ~Begin /\ ~Look /\ ~ClearMap /\ ~WriteBackup
      /\ (\A i : ~RemoveMark(i)) /\ (\A scene : ~Check(scene, map))
      /\ \A thread : ~FlushSkipped(thread) /\ ~WriteMain(thread)
  BY <1>1, <1>2 DEF Begin, Look, ClearMap, WriteBackup, RemoveMark, Check, FlushSkipped, WriteMain
<1>7. CASE Spoil \/ Passes \/ UNCHANGED semanticVars \/ \E thread \in {"ros", "http"} : WriteFails(thread)
  <2>1. store' = store
    BY <1>7 DEF Spoil, Passes, semanticVars, WriteFails
  <2> QED  BY <1>1, <2>1, StaysPut
<1> QED  BY <1>3, <1>4, <1>5, <1>6, <1>7 DEF SemanticStep

\* A sample that is fused moves a confirmed landmark that stands still away from its place only
\* after enough samples that were away from it (SemanticMapStore.update): one detection,
\* however far away, moves none, whatever the other threads, files and restarts did before.
THEOREM OneSampleIsNotEnough == SiteSpec => OneSampleMovesNothing
<1>1. ChangeInv /\ [SiteStep \/ Landmarks]_<<siteVars, semanticVars>> =>
        [\A id \in (DOMAIN store.marks) \cap (DOMAIN store'.marks) :
           LET old == store.marks[id]
               new == store'.marks[id]
           IN /\ old.confirmed /\ old.kind \notin Dynamic
              /\ ros.at = "fusing" /\ ros'.at = "fusing" /\ DOMAIN store.marks = DOMAIN store'.marks
              => \/ Distance(old.pos, new.pos) <= Movement
                 \/ new.far >= RelocationObservations]_semanticVars
  <2> SUFFICES ASSUME ChangeInv, [SiteStep \/ Landmarks]_<<siteVars, semanticVars>>,
                      NEW id \in (DOMAIN store.marks) \cap (DOMAIN store'.marks),
                      store.marks[id].confirmed, store.marks[id].kind \notin Dynamic,
                      ros.at = "fusing", ros'.at = "fusing", DOMAIN store.marks = DOMAIN store'.marks
               PROVE  MovesEnough(store.marks[id], store'.marks[id])
    BY DEF MovesEnough
  <2>1. SemanticStep(slam) \/ ClearMap \/ UNCHANGED semanticVars
    BY SiteStepLandmarks DEF Landmarks
  <2> QED  BY <2>1, SamplesMoveLittle DEF ChangeInv
<1> QED  BY <1>1, SiteInvariant, PTL DEF SiteSpec, OneSampleMovesNothing

-----------------------------------------------------------------------------
(* The pictures: WebViewer *)

(***************************************************************************)
(* A page's answer is right when the thread that gives it knew enough at   *)
(* every step before: once it has seen a frame newer than the page's, the  *)
(* frame it copies is at least as new (Sure), and the cache it looks into  *)
(* holds pictures of its own frame only (CacheOfOneFrame), because the     *)
(* cache of another frame is thrown away as a whole.                       *)
(***************************************************************************)
ViewerRequests == [at : {"idle", "wait", "grab", "encode", "answered",
                   "lock", "status", "request", "collect", "gimbal", "shell"},
             what : Widths \cup Streams \cup Commands \cup {"none"},
             after : Sequence, frame : Sequence, picture : Sequence]
Cache == [sequence : Sequence, pictures : [Widths -> Sequence]]
Locks == [command : Handlers \cup {Nobody}, hardware : Handlers \cup {Nobody}]

Sure(request, newest) ==
  /\ request \in ViewerRequests
  /\ request.at \in {"wait", "grab", "encode"} => request.what \in Widths
  /\ request.at = "grab" => newest > request.after
  /\ request.at = "encode" => request.frame > request.after
  /\ request.at = "answered" => request.frame > request.after /\ request.picture = request.frame

OneFrame(cache) == \A w \in Widths : cache.pictures[w] \in {0, cache.sequence}
CacheOfOneFrame == jpeg \in Cache /\ OneFrame(jpeg)

PictureInv ==
  /\ ViewerTypeOK /\ CacheOfOneFrame
  /\ \A h \in Handlers : Sure(handler[h], frames["rgb"])

LEMMA PicturesAreNewer == PictureInv => PictureIsNewer
BY DEF PictureInv, Sure, PictureIsNewer

LEMMA Zeros ==
  /\ 0 \in Sequence /\ Sequence \subseteq Nat /\ 0 \in 0..MaxRestarts /\ "rgb" \in Streams
  /\ Free \in ViewerRequests /\ Free.at = "idle" /\ \A n : Sure(Free, n)
  /\ NoCache \in Cache /\ OneFrame(NoCache)
<1>1. 0 \in Sequence /\ Sequence \subseteq Nat /\ 0 \in 0..MaxRestarts /\ "rgb" \in Streams
  BY ViewerAssumption DEF Sequence, Streams
<1>2. Free \in ViewerRequests /\ Free.at = "idle"
  BY <1>1 DEF Free, ViewerRequests
<1>3. NoCache \in Cache /\ OneFrame(NoCache)
  BY <1>1 DEF NoCache, Cache, OneFrame
<1> QED  BY <1>1, <1>2, <1>3 DEF Sure

LEMMA PictureInitInv == ViewerInit => PictureInv
<1> DEFINE no == FALSE
<1> HIDE DEF no
<1> SUFFICES ASSUME ViewerInit PROVE PictureInv
  OBVIOUS
<1>1. hardware = [ready |-> no, pending |-> no] /\ no \in BOOLEAN /\ token = no
  BY DEF ViewerInit, no
<1>2. hardware \in [ready : BOOLEAN, pending : BOOLEAN] /\ token \in BOOLEAN
  BY <1>1
<1>3. locks \in Locks
  BY DEF ViewerInit, Locks
<1>4. frames \in [Streams -> Sequence] /\ handler \in [Handlers -> ViewerRequests] /\ jpeg \in Cache
      /\ restarts \in 0..MaxRestarts
  BY Zeros DEF ViewerInit
<1>5. ViewerTypeOK
  BY <1>2, <1>3, <1>4 DEF ViewerTypeOK, ViewerRequests, Cache, Locks
<1>6. CacheOfOneFrame /\ \A h \in Handlers : Sure(handler[h], frames["rgb"])
  BY Zeros DEF ViewerInit, CacheOfOneFrame
<1> QED  BY <1>5, <1>6 DEF PictureInv

-----------------------------------------------------------------------------
(* One request at a time *)

LEMMA ViewerTypes ==
  ASSUME PictureInv
  PROVE  /\ frames \in [Streams -> Sequence] /\ frames["rgb"] \in Nat
         /\ jpeg \in Cache /\ OneFrame(jpeg) /\ locks \in Locks
         /\ hardware \in [ready : BOOLEAN, pending : BOOLEAN]
         /\ handler \in [Handlers -> ViewerRequests] /\ token \in BOOLEAN /\ restarts \in 0..MaxRestarts
         /\ \A h \in Handlers : Sure(handler[h], frames["rgb"])
BY Zeros DEF PictureInv, ViewerTypeOK, CacheOfOneFrame, ViewerRequests, Cache, Locks

\* A thread's request changes; what is shared keeps its types.
LEMMA RequestMoves ==
  ASSUME PictureInv, NEW h \in Handlers, NEW s, Sure(s, frames["rgb"]),
         handler' = [handler EXCEPT ![h] = s], UNCHANGED <<frames, restarts>>,
         jpeg' \in Cache, OneFrame(jpeg'), locks' \in Locks,
         hardware' \in [ready : BOOLEAN, pending : BOOLEAN], token' \in BOOLEAN
  PROVE  PictureInv'
<1>1. handler' \in [Handlers -> ViewerRequests] /\ s \in ViewerRequests
  BY ViewerTypes DEF Sure
<1>2. ViewerTypeOK'
  BY <1>1, ViewerTypes DEF ViewerTypeOK, ViewerRequests, Cache, Locks
<1>3. \A g \in Handlers : handler'[g] = IF g = h THEN s ELSE handler[g]
  BY ViewerTypes
<1>4. \A g \in Handlers : Sure(handler'[g], frames'["rgb"])
  BY <1>3, ViewerTypes
<1> QED  BY <1>2, <1>4 DEF PictureInv, CacheOfOneFrame

LEMMA RequestGoes ==
  ASSUME PictureInv, NEW h \in Handlers,
         NEW at \in {"grab", "lock", "status", "request", "collect", "gimbal", "shell"},
         at = "grab" => handler[h].at = "wait" /\ frames["rgb"] > handler[h].after,
         Goes(h, at), UNCHANGED <<frames, jpeg, hardware, token, restarts>>, locks' \in Locks
  PROVE  PictureInv'
<1> DEFINE s == [handler[h] EXCEPT !.at = at]
<1>1. handler' = [handler EXCEPT ![h] = s]
  BY ViewerTypes DEF Goes
<1>2. Sure(handler[h], frames["rgb"]) /\ handler[h] \in ViewerRequests
  BY ViewerTypes
<1>3. s \in ViewerRequests /\ s.at = at /\ s.what = handler[h].what /\ s.after = handler[h].after
  BY <1>2 DEF ViewerRequests
<1> HIDE DEF s
<1>4. Sure(s, frames["rgb"])
  BY <1>2, <1>3 DEF Sure
<1> QED  BY <1>1, <1>4, ViewerTypes, RequestMoves

LEMMA RequestStarts ==
  ASSUME PictureInv, NEW h \in Handlers, NEW s, Sure(s, frames["rgb"]), Starts(h, s),
         UNCHANGED <<frames, jpeg, hardware, restarts>>, locks' \in Locks, token' \in BOOLEAN
  PROVE  PictureInv'
BY ViewerTypes, RequestMoves DEF Starts

LEMMA RequestFrees ==
  ASSUME PictureInv, NEW h \in Handlers, Frees(h), UNCHANGED <<frames, jpeg, token, restarts>>,
         locks' \in Locks, hardware' \in [ready : BOOLEAN, pending : BOOLEAN]
  PROVE  PictureInv'
BY ViewerTypes, RequestMoves, Zeros DEF Frees

\* A request that has nothing to do with pictures.
LEMMA OtherRequest ==
  ASSUME NEW at \in {"lock", "collect", "shell"}, NEW what \in Commands \cup {"none"}, NEW n
  PROVE  Sure([Free EXCEPT !.at = at, !.what = what], n)
<1> DEFINE s == [Free EXCEPT !.at = at, !.what = what]
<1>1. s \in ViewerRequests /\ s.at = at
  BY Zeros DEF ViewerRequests
<1>2. at \notin {"wait", "grab", "encode"} /\ at # "grab" /\ at # "encode" /\ at # "answered"
  OBVIOUS
<1> HIDE DEF s
<1>3. Sure(s, n)
  BY <1>1, <1>2 DEF Sure
<1> QED  BY <1>3 DEF s

LEMMA LocksFacts ==
  ASSUME PictureInv, NEW h \in Handlers \cup {Nobody}
  PROVE  [locks EXCEPT !.command = h] \in Locks /\ [locks EXCEPT !.hardware = h] \in Locks
BY ViewerTypes DEF Locks

-----------------------------------------------------------------------------
(* Pictures *)

LEMMA PollsFrame ==
  ASSUME PictureInv, NEW h \in Handlers, NEW stream \in Streams, NEW after \in Sequence,
         Polls(h, stream, after)
  PROVE  PictureInv'
<1> DEFINE s == [at |-> "answered", what |-> stream, after |-> after,
                 frame |-> frames[stream], picture |-> frames[stream]]
<1>1. UNCHANGED <<frames, jpeg, locks, hardware, token, restarts>>
  BY DEF Polls
<1>2. frames[stream] \in Sequence /\ frames[stream] \in Nat /\ after \in Nat
  BY ViewerTypes, Zeros
<1>3. CASE frames[stream] <= after
  <2>1. UNCHANGED handler
    BY <1>3 DEF Polls
  <2> QED  BY <1>1, <2>1 DEF PictureInv, ViewerTypeOK, CacheOfOneFrame
<1>4. CASE ~(frames[stream] <= after)
  <2>1. handler' = [handler EXCEPT ![h] = s]
    BY <1>4 DEF Polls
  <2>2. s \in ViewerRequests /\ s.at = "answered" /\ s.frame = frames[stream] /\ s.picture = frames[stream]
        /\ s.after = after
    BY <1>2 DEF ViewerRequests
  <2> HIDE DEF s
  <2>3. Sure(s, frames["rgb"])
    BY <1>2, <1>4, <2>2 DEF Sure
  <2> QED  BY <1>1, <2>1, <2>3, ViewerTypes, RequestMoves
<1> QED  BY <1>3, <1>4

LEMMA AsksForPicture ==
  ASSUME PictureInv, NEW h \in Handlers, NEW width \in Widths, NEW after \in Sequence,
         AsksPicture(h, width, after)
  PROVE  PictureInv'
<1> DEFINE s == [Free EXCEPT !.at = "wait", !.what = width, !.after = after]
<1>1. Starts(h, s) /\ UNCHANGED <<frames, jpeg, locks, hardware, token, restarts>>
  BY DEF AsksPicture
<1>2. s \in ViewerRequests /\ s.at = "wait" /\ s.what = width
  BY Zeros DEF ViewerRequests
<1> HIDE DEF s
<1>3. Sure(s, frames["rgb"])
  BY <1>2 DEF Sure
<1> QED  BY <1>1, <1>3, ViewerTypes, RequestStarts

LEMMA GrabsFrame ==
  ASSUME PictureInv, NEW h \in Handlers, Grabs(h)
  PROVE  PictureInv'
<1> DEFINE newest == frames["rgb"]
<1>1. handler[h].at = "grab" /\ UNCHANGED <<frames, jpeg, locks, hardware, token, restarts>>
  BY DEF Grabs
<1>2. Sure(handler[h], newest) /\ handler[h] \in ViewerRequests /\ newest \in Sequence
  BY ViewerTypes, Zeros
<1> DEFINE s == [handler[h] EXCEPT !.at = "encode", !.frame = newest]
<1>3. handler' = [handler EXCEPT ![h] = s]
  BY ViewerTypes DEF Grabs
<1> HIDE DEF newest
<1>4. s \in ViewerRequests /\ s.at = "encode" /\ s.frame = newest /\ s.what = handler[h].what
      /\ s.after = handler[h].after
  BY <1>2 DEF ViewerRequests
<1> HIDE DEF s
<1>5. Sure(s, frames["rgb"])
  BY <1>1, <1>2, <1>4 DEF Sure
<1> QED  BY <1>1, <1>3, <1>5, ViewerTypes, RequestMoves

LEMMA EncodesPicture ==
  ASSUME PictureInv, NEW h \in Handlers, Encodes(h)
  PROVE  PictureInv'
<1> DEFINE frame == handler[h].frame
<1> DEFINE width == handler[h].what
<1> DEFINE cache == IF SameFrame(frame) THEN jpeg ELSE [NoCache EXCEPT !.sequence = frame]
<1> DEFINE shows == IF cache.pictures[width] > 0 THEN cache.pictures[width] ELSE frame
<1>1. /\ handler[h].at = "encode" /\ jpeg' = [cache EXCEPT !.pictures[width] = shows]
      /\ Responds(h, frame, shows) /\ UNCHANGED <<frames, locks, hardware, token, restarts>>
  BY DEF Encodes
<1>2. Sure(handler[h], frames["rgb"]) /\ handler[h] \in ViewerRequests
  BY ViewerTypes
<1>3. frame \in Sequence /\ frame \in Nat /\ width \in Widths /\ handler[h].after \in Nat
      /\ frame > handler[h].after
  BY <1>1, <1>2, Zeros DEF Sure, ViewerRequests
<1>4. cache \in Cache /\ OneFrame(cache) /\ cache.sequence = frame
  <2>1. CASE SameFrame(frame)
    BY <2>1, ViewerTypes DEF SameFrame
  <2>2. CASE ~SameFrame(frame)
    <3>1. cache = [sequence |-> frame, pictures |-> NoCache.pictures]
      BY <2>2 DEF NoCache
    <3>2. NoCache.pictures \in [Widths -> Sequence] /\ \A w \in Widths : NoCache.pictures[w] = 0
      BY Zeros DEF NoCache
    <3> QED  BY <1>3, <3>1, <3>2 DEF Cache, OneFrame
  <2> QED  BY <2>1, <2>2
<1> HIDE DEF cache
<1>5. shows = frame
  BY <1>3, <1>4 DEF OneFrame
<1> HIDE DEF shows, frame, width
<1>6. jpeg' = [cache EXCEPT !.pictures = [cache.pictures EXCEPT ![width] = frame]]
  BY <1>1, <1>4, <1>5 DEF Cache
<1>7. [cache.pictures EXCEPT ![width] = frame] \in [Widths -> Sequence]
      /\ \A w \in Widths : [cache.pictures EXCEPT ![width] = frame][w] \in {0, frame}
  BY <1>3, <1>4 DEF Cache, OneFrame
<1>8. jpeg' \in Cache /\ OneFrame(jpeg')
  <2> DEFINE pictures == [cache.pictures EXCEPT ![width] = frame]
  <2>1. pictures \in [Widths -> Sequence] /\ \A w \in Widths : pictures[w] \in {0, frame}
    BY <1>7
  <2>2. jpeg' = [cache EXCEPT !.pictures = pictures]
    BY <1>6
  <2> HIDE DEF pictures
  <2>3. jpeg' \in Cache /\ jpeg'.sequence = frame /\ jpeg'.pictures = pictures
    BY <1>4, <2>1, <2>2 DEF Cache
  <2> QED  BY <2>1, <2>3 DEF OneFrame
<1> DEFINE s == [handler[h] EXCEPT !.at = "answered", !.frame = frame, !.picture = frame]
<1>9. handler' = [handler EXCEPT ![h] = s]
  BY <1>1, <1>5, ViewerTypes DEF Responds
<1>10. s \in ViewerRequests /\ s.at = "answered" /\ s.frame = frame /\ s.picture = frame
       /\ s.after = handler[h].after
  BY <1>2, <1>3 DEF ViewerRequests
<1> HIDE DEF s
<1>11. Sure(s, frames["rgb"])
  BY <1>3, <1>10 DEF Sure
<1> QED  BY <1>1, <1>8, <1>9, <1>11, ViewerTypes, RequestMoves

LEMMA StoresFrame ==
  ASSUME PictureInv, NEW stream \in Streams, Stores(stream)
  PROVE  PictureInv'
<1>1. UNCHANGED <<jpeg, handler, locks, hardware, token, restarts>> /\ frames[stream] < MaxFrames
      /\ frames' = [frames EXCEPT ![stream] = frames[stream] + 1]
  BY DEF Stores
<1>2. frames[stream] + 1 \in Sequence
  BY <1>1, ViewerTypes, ViewerAssumption DEF Sequence
<1>3. frames' \in [Streams -> Sequence] /\ frames'["rgb"] >= frames["rgb"]
  BY <1>1, <1>2, ViewerTypes, Zeros
<1>4. frames["rgb"] \in Nat /\ frames'["rgb"] \in Nat
  BY <1>3, ViewerTypes, Zeros
<1>5. \A h \in Handlers : Sure(handler'[h], frames'["rgb"])
  <2> SUFFICES ASSUME NEW h \in Handlers PROVE Sure(handler[h], frames'["rgb"])
    BY <1>1
  <2>1. Sure(handler[h], frames["rgb"]) /\ handler[h].after \in Nat
    BY ViewerTypes, Zeros DEF ViewerRequests
  <2> QED  BY <1>3, <1>4, <2>1 DEF Sure
<1> QED  BY <1>1, <1>3, <1>5 DEF PictureInv, ViewerTypeOK, CacheOfOneFrame

LEMMA RestartsFresh == PictureInv /\ ViewerRestarts => PictureInv'
<1> DEFINE no == FALSE
<1> HIDE DEF no
<1> SUFFICES ASSUME PictureInv, ViewerRestarts PROVE PictureInv'
  OBVIOUS
<1>1. hardware' = [ready |-> no, pending |-> no] /\ no \in BOOLEAN /\ token' = no
      /\ frames' = [s \in Streams |-> 0] /\ jpeg' = NoCache /\ handler' = [h \in Handlers |-> Free]
      /\ locks' = [command |-> Nobody, hardware |-> Nobody]
      /\ restarts' = restarts + 1 /\ restarts < MaxRestarts
  BY DEF ViewerRestarts, no
<1>2. hardware' \in [ready : BOOLEAN, pending : BOOLEAN] /\ token' \in BOOLEAN /\ locks' \in Locks
  BY <1>1 DEF Locks
<1>3. frames' \in [Streams -> Sequence] /\ handler' \in [Handlers -> ViewerRequests] /\ jpeg' \in Cache
      /\ restarts' \in 0..MaxRestarts
  BY <1>1, Zeros, ViewerTypes, ViewerAssumption
<1>4. ViewerTypeOK'
  BY <1>2, <1>3 DEF ViewerTypeOK, ViewerRequests, Cache, Locks
<1>5. CacheOfOneFrame' /\ \A h \in Handlers : Sure(handler'[h], frames'["rgb"])
  BY <1>1, Zeros DEF CacheOfOneFrame
<1> QED  BY <1>4, <1>5 DEF PictureInv

-----------------------------------------------------------------------------
(* The gimbal, the status and the terminal *)

LEMMA CommandSteps ==
  ASSUME PictureInv, NEW h \in Handlers,
         \/ \E command \in Commands : AsksCommand(h, command)
         \/ LocksCommand(h) \/ CommandEnds(h) \/ \E inside \in BOOLEAN : ChecksTarget(h, inside)
  PROVE  PictureInv'
<1>1. ASSUME NEW command \in Commands, AsksCommand(h, command) PROVE PictureInv'
  <2>1. Sure([Free EXCEPT !.at = "lock", !.what = command], frames["rgb"])
    BY OtherRequest
  <2> QED  BY <1>1, <2>1, ViewerTypes, RequestStarts DEF AsksCommand
<1>2. CASE LocksCommand(h)
  <2>1. Goes(h, IF handler[h].what = "set" THEN "status" ELSE "request") /\ locks' \in Locks
        /\ UNCHANGED <<frames, jpeg, hardware, token, restarts>>
    BY <1>2, LocksFacts DEF LocksCommand
  <2>2. PICK at \in {"status", "request"} : Goes(h, at)
    BY <2>1
  <2> QED  BY <2>1, <2>2, RequestGoes
<1>3. CASE CommandEnds(h)
  BY <1>3, LocksFacts, ViewerTypes, RequestFrees DEF CommandEnds
<1>4. ASSUME NEW inside \in BOOLEAN, ChecksTarget(h, inside) PROVE PictureInv'
  <2>1. UNCHANGED <<frames, jpeg, hardware, token, restarts>>
    BY <1>4 DEF ChecksTarget
  <2>2. CASE Goes(h, "request") /\ UNCHANGED locks
    BY <2>1, <2>2, ViewerTypes, RequestGoes
  <2>3. CASE Frees(h) /\ locks' = [locks EXCEPT !.command = Nobody]
    BY <2>1, <2>3, LocksFacts, ViewerTypes, RequestFrees
  <2> QED  BY <1>4, <2>2, <2>3 DEF ChecksTarget
<1> QED  BY <1>1, <1>2, <1>3, <1>4

LEMMA StatusSteps ==
  ASSUME PictureInv, NEW h \in Handlers,
         Collects(h) \/ KeepsStatus(h) \/ AsksStatus(h) \/ \E ready \in BOOLEAN : StatusRead(h, ready)
  PROVE  PictureInv'
<1>1. CASE Collects(h)
  <2>1. [Free EXCEPT !.at = "collect"] \in ViewerRequests /\ [Free EXCEPT !.at = "collect"].at = "collect"
    BY Zeros DEF ViewerRequests
  <2>2. Sure([Free EXCEPT !.at = "collect"], frames["rgb"])
    BY <2>1 DEF Sure
  <2> QED  BY <1>1, <2>2, LocksFacts, ViewerTypes, RequestStarts DEF Collects
<1>2. CASE KeepsStatus(h)
  <2> DEFINE yes == TRUE
  <2>1. hardware' = [hardware EXCEPT !.pending = yes] /\ yes \in BOOLEAN
    BY <1>2 DEF KeepsStatus
  <2> HIDE DEF yes
  <2>2. hardware' \in [ready : BOOLEAN, pending : BOOLEAN]
    BY <2>1, ViewerTypes
  <2> QED  BY <1>2, <2>2, LocksFacts, RequestFrees DEF KeepsStatus
<1>3. CASE AsksStatus(h)
  BY <1>3, ViewerTypes, RequestGoes DEF AsksStatus
<1>4. ASSUME NEW ready \in BOOLEAN, StatusRead(h, ready) PROVE PictureInv'
  <2> DEFINE no == FALSE
  <2>1. hardware' = [ready |-> ready, pending |-> no] /\ no \in BOOLEAN
    BY <1>4 DEF StatusRead
  <2> HIDE DEF no
  <2>2. hardware' \in [ready : BOOLEAN, pending : BOOLEAN]
    BY <2>1
  <2> QED  BY <1>4, <2>2, LocksFacts, RequestFrees DEF StatusRead
<1> QED  BY <1>1, <1>2, <1>3, <1>4

LEMMA ShellSteps ==
  ASSUME PictureInv, NEW h \in Handlers, OpensShell(h) \/ ShellEnds(h)
  PROVE  PictureInv'
<1>1. CASE OpensShell(h)
  <2>1. [Free EXCEPT !.at = "shell"] \in ViewerRequests /\ [Free EXCEPT !.at = "shell"].at = "shell"
    BY Zeros DEF ViewerRequests
  <2>2. Sure([Free EXCEPT !.at = "shell"], frames["rgb"])
    BY <2>1 DEF Sure
  <2>3. token' \in BOOLEAN
    BY <1>1 DEF OpensShell
  <2> QED  BY <1>1, <2>2, <2>3, ViewerTypes, RequestStarts DEF OpensShell
<1>2. CASE ShellEnds(h)
  BY <1>2, ViewerTypes, RequestFrees DEF ShellEnds
<1> QED  BY <1>1, <1>2

LEMMA PictureStepInv == PictureInv /\ [ViewerStep]_viewerVars => PictureInv'
<1> SUFFICES ASSUME PictureInv, [ViewerStep]_viewerVars PROVE PictureInv'
  OBVIOUS
<1>1. ASSUME NEW h \in Handlers, FrameArrived(h) PROVE PictureInv'
  BY <1>1, ViewerTypes, RequestGoes DEF FrameArrived
<1>2. ASSUME NEW h \in Handlers, WaitTimesOut(h) \/ Sent(h) PROVE PictureInv'
  BY <1>2, ViewerTypes, RequestFrees DEF WaitTimesOut, Sent
<1>3. CASE UNCHANGED viewerVars
  BY <1>3 DEF viewerVars, PictureInv, ViewerTypeOK, CacheOfOneFrame
<1> QED
  BY <1>1, <1>2, <1>3, StoresFrame, RestartsFresh, PollsFrame, AsksForPicture, GrabsFrame, EncodesPicture,
     CommandSteps, StatusSteps, ShellSteps DEF ViewerStep

\* server.py, under the camera's locks: the cache holds pictures of its own frame only, and a
\* thread that waits for a frame answers with one later than the page asked after.
THEOREM PictureInvariant == ViewerSpec => []PictureInv
<1> QED  BY PictureInitInv, PictureStepInv, PTL DEF ViewerSpec

\* A page of the lidar viewer never gets a picture older than the one it has (server.py,
\* /camera.jpg), however many threads take, encode and cache frames at a time.
THEOREM PagesGoForward == ViewerSpec => []PictureIsNewer
<1> QED  BY PictureInvariant, PicturesAreNewer, PTL

-----------------------------------------------------------------------------
(* The turns of the threads *)

\* A thread that commands or collects holds the lock, and no shell is open before the token
\* is spent.
Turns ==
  /\ handler = [g \in Handlers |-> handler[g]] /\ locks \in Locks
  /\ \A h \in Handlers :
       /\ Commanding(h) => locks.command = h
       /\ Collecting(h) => locks.hardware = h
       /\ InShell(h) => ~Unused
  /\ \A g, h \in Handlers : InShell(g) /\ InShell(h) => g = h

LEMMA TurnsAreTaken == Turns => ThreadsTakeTurns
<1> SUFFICES ASSUME Turns, NEW g \in Handlers, NEW h \in Handlers, g # h
             PROVE  /\ ~(Commanding(g) /\ Commanding(h)) /\ ~(Collecting(g) /\ Collecting(h))
                    /\ ~(InShell(g) /\ InShell(h))
  BY DEF ThreadsTakeTurns
<1> DEFINE commander == locks.command
<1> DEFINE collector == locks.hardware
<1>a. /\ Commanding(g) => commander = g
      /\ Commanding(h) => commander = h
      /\ Collecting(g) => collector = g
      /\ Collecting(h) => collector = h
  BY DEF Turns
<1> HIDE DEF commander, collector
<1>1. ~(Commanding(g) /\ Commanding(h))
  BY <1>a
<1>2. ~(Collecting(g) /\ Collecting(h))
  BY <1>a
<1>3. ~(InShell(g) /\ InShell(h))
  BY DEF Turns
<1> QED  BY <1>1, <1>2, <1>3

\* The places of the threads when one of them takes another.
LEMMA ThreadMoves ==
  ASSUME Turns, NEW h \in Handlers, NEW s, handler' = [handler EXCEPT ![h] = s]
  PROVE  /\ handler' = [g \in Handlers |-> handler'[g]] /\ handler'[h] = s
         /\ \A g \in Handlers : g # h => handler'[g] = handler[g]
BY DEF Turns

\* A thread that goes where it needs no lock and no token, or on with the ones it has.
LEMMA TurnsStay ==
  ASSUME Turns, NEW h \in Handlers, NEW s, handler' = [handler EXCEPT ![h] = s],
         UNCHANGED <<locks, token>>,
         s.at \in {"status", "request"} => Commanding(h),
         s.at \in {"collect", "gimbal"} => Collecting(h),
         s.at # "shell"
  PROVE  Turns'
BY ThreadMoves DEF Turns, Commanding, Collecting, InShell, Unused

\* A thread that gives a lock back is one that held it.
LEMMA TurnsEnd ==
  ASSUME Turns, NEW h \in Handlers, NEW s, handler' = [handler EXCEPT ![h] = s],
         UNCHANGED token, s.at \notin {"status", "request", "collect", "gimbal", "shell"},
         \/ Commanding(h) /\ locks' = [locks EXCEPT !.command = Nobody]
         \/ Collecting(h) /\ locks' = [locks EXCEPT !.hardware = Nobody]
  PROVE  Turns'
<1>1. /\ locks' \in Locks
      /\ \A g \in Handlers : g # h => (Commanding(g) => locks'.command = g)
      /\ \A g \in Handlers : g # h => (Collecting(g) => locks'.hardware = g)
  BY DEF Turns, Locks, Commanding, Collecting
<1> QED  BY <1>1, ThreadMoves DEF Turns, Commanding, Collecting, InShell, Unused

\* A thread that takes a lock found it free.
LEMMA TurnsBegin ==
  ASSUME Turns, NEW h \in Handlers, NEW s, handler' = [handler EXCEPT ![h] = s], UNCHANGED token,
         \/ /\ s.at \in {"status", "request"} /\ locks.command = Nobody
            /\ locks' = [locks EXCEPT !.command = h]
         \/ /\ s.at = "collect" /\ locks.hardware = Nobody
            /\ locks' = [locks EXCEPT !.hardware = h]
  PROVE  Turns'
<1>1. \A g \in Handlers : g # Nobody
  BY ViewerAssumption DEF Nobody
<1>2. CASE s.at \in {"status", "request"} /\ locks.command = Nobody /\ locks' = [locks EXCEPT !.command = h]
  <2>1. locks' \in Locks /\ locks'.command = h /\ locks'.hardware = locks.hardware
    BY <1>2 DEF Turns, Locks
  <2>2. \A g \in Handlers : ~Commanding(g)
    BY <1>1, <1>2 DEF Turns
  <2> QED  BY <1>2, <2>1, <2>2, ThreadMoves DEF Turns, Commanding, Collecting, InShell, Unused
<1>3. CASE s.at = "collect" /\ locks.hardware = Nobody /\ locks' = [locks EXCEPT !.hardware = h]
  <2>1. locks' \in Locks /\ locks'.hardware = h /\ locks'.command = locks.command
    BY <1>3 DEF Turns, Locks
  <2>2. \A g \in Handlers : ~Collecting(g)
    BY <1>1, <1>3 DEF Turns
  <2> QED  BY <1>3, <2>1, <2>2, ThreadMoves DEF Turns, Commanding, Collecting, InShell, Unused
<1> QED  BY <1>2, <1>3

LEMMA TurnsInit == ViewerInit => Turns
BY DEF ViewerInit, Turns, Locks, Free, Commanding, Collecting, InShell

\* The picture's requests and those that wait for the lock.
LEMMA PictureTurns ==
  ASSUME PictureInv, Turns, NEW h \in Handlers,
         \/ \E stream \in Streams, after \in Sequence : Polls(h, stream, after)
         \/ \E width \in Widths, after \in Sequence : AsksPicture(h, width, after)
         \/ FrameArrived(h) \/ WaitTimesOut(h) \/ Grabs(h) \/ Encodes(h) \/ Sent(h)
         \/ \E command \in Commands : AsksCommand(h, command)
  PROVE  Turns'
<1>1. handler[h] \in ViewerRequests
  BY ViewerTypes
<1>2. CASE FrameArrived(h) \/ Grabs(h) \/ Encodes(h)
  <2>1. UNCHANGED <<locks, token>>
    BY <1>2 DEF FrameArrived, Grabs, Encodes
  <2>2. PICK at \in {"grab", "encode", "answered"} : \E frame, shows :
          \/ handler' = [handler EXCEPT ![h].at = at]
          \/ handler' = [handler EXCEPT ![h].at = at, ![h].frame = frame]
          \/ handler' = [handler EXCEPT ![h].at = at, ![h].frame = frame, ![h].picture = shows]
    BY <1>2 DEF FrameArrived, Grabs, Encodes, Goes, Responds
  <2>3. PICK frame, shows :
          \/ handler' = [handler EXCEPT ![h].at = at]
          \/ handler' = [handler EXCEPT ![h].at = at, ![h].frame = frame]
          \/ handler' = [handler EXCEPT ![h].at = at, ![h].frame = frame, ![h].picture = shows]
    BY <2>2
  <2>4. PICK s : handler' = [handler EXCEPT ![h] = s] /\ s.at = at
    <3>1. CASE handler' = [handler EXCEPT ![h].at = at]
      <4> DEFINE s == [handler[h] EXCEPT !.at = at]
      <4>1. handler' = [handler EXCEPT ![h] = s] /\ s.at = at
        BY <1>1, <2>3, <3>1, ViewerTypes DEF ViewerRequests
      <4> HIDE DEF s
      <4> QED  BY <4>1
    <3>2. CASE handler' = [handler EXCEPT ![h].at = at, ![h].frame = frame]
      <4> DEFINE s == [handler[h] EXCEPT !.at = at, !.frame = frame]
      <4>1. handler' = [handler EXCEPT ![h] = s] /\ s.at = at
        BY <1>1, <2>3, <3>2, ViewerTypes DEF ViewerRequests
      <4> HIDE DEF s
      <4> QED  BY <4>1
    <3>3. CASE handler' = [handler EXCEPT ![h].at = at, ![h].frame = frame, ![h].picture = shows]
      <4> DEFINE s == [handler[h] EXCEPT !.at = at, !.frame = frame, !.picture = shows]
      <4>1. handler' = [handler EXCEPT ![h] = s] /\ s.at = at
        BY <1>1, <2>3, <3>3, ViewerTypes DEF ViewerRequests
      <4> HIDE DEF s
      <4> QED  BY <4>1
    <3> QED  BY <2>3, <3>1, <3>2, <3>3
  <2> QED  BY <2>1, <2>2, <2>4, TurnsStay
<1>3. CASE WaitTimesOut(h) \/ Sent(h)
  <2>1. handler' = [handler EXCEPT ![h] = Free] /\ UNCHANGED <<locks, token>>
    BY <1>3 DEF WaitTimesOut, Sent, Frees
  <2> QED  BY <2>1, Zeros, TurnsStay
<1>4. ASSUME NEW width \in Widths, NEW after \in Sequence, AsksPicture(h, width, after) PROVE Turns'
  <2> DEFINE s == [Free EXCEPT !.at = "wait", !.what = width, !.after = after]
  <2>1. handler' = [handler EXCEPT ![h] = s] /\ UNCHANGED <<locks, token>> /\ s.at = "wait"
    BY <1>4 DEF AsksPicture, Starts, Free
  <2> HIDE DEF s
  <2> QED  BY <2>1, TurnsStay
<1>5. ASSUME NEW command \in Commands, AsksCommand(h, command) PROVE Turns'
  <2> DEFINE s == [Free EXCEPT !.at = "lock", !.what = command]
  <2>1. handler' = [handler EXCEPT ![h] = s] /\ UNCHANGED <<locks, token>> /\ s.at = "lock"
    BY <1>5 DEF AsksCommand, Starts, Free
  <2> HIDE DEF s
  <2> QED  BY <2>1, TurnsStay
<1>6. ASSUME NEW stream \in Streams, NEW after \in Sequence, Polls(h, stream, after) PROVE Turns'
  <2>1. UNCHANGED <<locks, token>>
    BY <1>6 DEF Polls
  <2>2. CASE UNCHANGED handler
    BY <2>1, <2>2 DEF Turns, Commanding, Collecting, InShell, Unused
  <2> DEFINE s == [at |-> "answered", what |-> stream, after |-> after,
                   frame |-> frames[stream], picture |-> frames[stream]]
  <2>3. UNCHANGED handler \/ handler' = [handler EXCEPT ![h] = s]
    BY <1>6 DEF Polls
  <2>4. s.at = "answered"
    OBVIOUS
  <2> HIDE DEF s
  <2> QED  BY <2>1, <2>2, <2>3, <2>4, TurnsStay
<1> QED  BY <1>2, <1>3, <1>4, <1>5, <1>6

\* A command locks, is checked and ends.
LEMMA CommandTurns ==
  ASSUME PictureInv, Turns, NEW h \in Handlers,
         LocksCommand(h) \/ CommandEnds(h) \/ \E inside \in BOOLEAN : ChecksTarget(h, inside)
  PROVE  Turns'
<1>1. handler[h] \in ViewerRequests
  BY ViewerTypes
<1>2. CASE LocksCommand(h)
  <2>1. PICK at \in {"status", "request"} : Goes(h, at)
    BY <1>2 DEF LocksCommand
  <2> DEFINE s == [handler[h] EXCEPT !.at = at]
  <2>2. handler' = [handler EXCEPT ![h] = s] /\ s.at = at
    BY <1>1, <2>1 DEF Goes, ViewerRequests
  <2> HIDE DEF s
  <2> QED  BY <1>2, <2>1, <2>2, TurnsBegin DEF LocksCommand
<1>3. ASSUME Commanding(h), Frees(h), locks' = [locks EXCEPT !.command = Nobody], UNCHANGED token
      PROVE  Turns'
  BY <1>3, Zeros, TurnsEnd DEF Frees
<1>4. CASE CommandEnds(h)
  BY <1>3, <1>4 DEF CommandEnds, Commanding
<1>5. ASSUME NEW inside \in BOOLEAN, ChecksTarget(h, inside) PROVE Turns'
  <2>1. Commanding(h) /\ UNCHANGED token
    BY <1>5 DEF ChecksTarget, Commanding
  <2>2. CASE Goes(h, "request") /\ UNCHANGED locks
    <3> DEFINE s == [handler[h] EXCEPT !.at = "request"]
    <3>1. handler' = [handler EXCEPT ![h] = s] /\ s.at = "request"
      BY <1>1, <2>2 DEF Goes, ViewerRequests
    <3> HIDE DEF s
    <3> QED  BY <2>1, <2>2, <3>1, TurnsStay
  <2>3. CASE Frees(h) /\ locks' = [locks EXCEPT !.command = Nobody]
    BY <1>3, <2>1, <2>3
  <2> QED  BY <1>5, <2>2, <2>3 DEF ChecksTarget
<1> QED  BY <1>2, <1>4, <1>5

\* The hardware status is collected.
LEMMA StatusTurns ==
  ASSUME PictureInv, Turns, NEW h \in Handlers,
         Collects(h) \/ KeepsStatus(h) \/ AsksStatus(h) \/ \E ready \in BOOLEAN : StatusRead(h, ready)
  PROVE  Turns'
<1>1. handler[h] \in ViewerRequests
  BY ViewerTypes
<1>2. CASE Collects(h)
  <2> DEFINE s == [Free EXCEPT !.at = "collect"]
  <2>1. handler' = [handler EXCEPT ![h] = s] /\ s.at = "collect"
    BY <1>2 DEF Collects, Starts, Free
  <2> HIDE DEF s
  <2> QED  BY <1>2, <2>1, TurnsBegin DEF Collects
<1>3. CASE AsksStatus(h)
  <2> DEFINE s == [handler[h] EXCEPT !.at = "gimbal"]
  <2>1. handler' = [handler EXCEPT ![h] = s] /\ s.at = "gimbal" /\ Collecting(h) /\ UNCHANGED <<locks, token>>
    BY <1>1, <1>3 DEF AsksStatus, Goes, ViewerRequests, Collecting
  <2> HIDE DEF s
  <2> QED  BY <2>1, TurnsStay
<1>4. CASE KeepsStatus(h) \/ \E ready \in BOOLEAN : StatusRead(h, ready)
  <2>1. Collecting(h) /\ Frees(h) /\ locks' = [locks EXCEPT !.hardware = Nobody] /\ UNCHANGED token
    BY <1>4 DEF KeepsStatus, StatusRead, Collecting
  <2> QED  BY <2>1, Zeros, TurnsEnd DEF Frees
<1> QED  BY <1>2, <1>3, <1>4

\* The token opens a shell once.
LEMMA ShellTurns ==
  ASSUME Turns, NEW h \in Handlers, OpensShell(h) \/ ShellEnds(h)
  PROVE  Turns'
<1>1. CASE ShellEnds(h)
  BY <1>1, Zeros, TurnsStay DEF ShellEnds, Frees
<1>2. CASE OpensShell(h)
  <2> DEFINE s == [Free EXCEPT !.at = "shell"]
  <2>1. /\ handler' = [handler EXCEPT ![h] = s] /\ s.at = "shell" /\ UNCHANGED locks
        /\ Unused /\ ~Unused'
    BY <1>2 DEF OpensShell, Starts, Free, Unused
  <2> HIDE DEF s
  <2>2. \A g \in Handlers : ~InShell(g)
    BY <2>1 DEF Turns
  <2> QED  BY <2>1, <2>2, ThreadMoves DEF Turns, Commanding, Collecting, InShell
<1> QED  BY <1>1, <1>2

LEMMA TurnsStep == PictureInv /\ Turns /\ [ViewerStep]_viewerVars => Turns'
<1> SUFFICES ASSUME PictureInv, Turns, [ViewerStep]_viewerVars PROVE Turns'
  OBVIOUS
<1>1. CASE UNCHANGED viewerVars \/ \E stream \in Streams : Stores(stream)
  <2>1. UNCHANGED <<handler, locks, token>>
    BY <1>1 DEF viewerVars, Stores
  <2> QED  BY <2>1 DEF Turns, Commanding, Collecting, InShell, Unused
<1>2. CASE ViewerRestarts
  BY <1>2 DEF ViewerRestarts, Turns, Locks, Free, Commanding, Collecting, InShell
<1> QED  BY <1>1, <1>2, PictureTurns, CommandTurns, StatusTurns, ShellTurns DEF ViewerStep

\* Two threads of the viewer never command the gimbal, ask the hardware or have a shell at a
\* time (HardwareMonitor.command_gimbal and collect, TerminalServer._authorize in server.py).
THEOREM ViewerTakesTurns == ViewerSpec => []ThreadsTakeTurns
<1>1. PictureInv /\ Turns /\ [ViewerStep]_viewerVars => PictureInv' /\ Turns'
  BY PictureStepInv, TurnsStep
<1>2. ViewerInit => PictureInv /\ Turns
  BY PictureInitInv, TurnsInit
<1> QED  BY <1>1, <1>2, TurnsAreTaken, PTL DEF ViewerSpec
=============================================================================
