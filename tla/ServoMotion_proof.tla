------------------------- MODULE ServoMotion_proof -------------------------
(* Proofs about ServoMotion, for any number of servos, any ranges and poses. *)
EXTENDS ServoMotion, TLAPS

Ports == [ready : BOOLEAN, outputs : BOOLEAN, powered : SUBSET Servo,
          duty : [Servo -> Int], ok : BOOLEAN]

\* The powered channels of a port are within the range of their servos.
PortSafe(p) == \A i \in p.powered : SafeMin[i] <= p.duty[i] /\ p.duty[i] <= SafeMax[i]

-----------------------------------------------------------------------------
(* The port *)

\* Initialising never switches a channel on, and leaves safe channels safe.
LEMMA InitialisedPort ==
  ASSUME NEW p \in Ports, p.ok, NEW o \in Initialised(p)
  PROVE  /\ o \in Ports
         /\ PortSafe(p) => PortSafe(o)
<1> DEFINE Good == o \in Ports /\ (PortSafe(p) => PortSafe(o))
<1>1. ASSUME NEW on \in SUBSET p.powered,
             o = [ready |-> TRUE, outputs |-> FALSE, powered |-> on,
                  duty |-> SafeReference, ok |-> TRUE]
      PROVE  Good
  <2>1. on \in SUBSET Servo
    BY DEF Ports
  <2>2. o \in Ports
    BY <1>1, <2>1, ServoAssumption DEF Ports
  <2>3. PortSafe(o)
    BY <1>1, <2>1, ServoAssumption DEF PortSafe
  <2> QED BY <2>2, <2>3
<1>2. ASSUME NEW on \in SUBSET p.powered, NEW n \in Servo,
             o = [p EXCEPT !.powered = on, !.duty = Prefix(p.duty, n, SafeReference), !.ok = FALSE]
      PROVE  Good
  <2>1. on \in SUBSET Servo /\ p.duty \in [Servo -> Int] /\ p.powered \subseteq Servo
    BY DEF Ports
  <2>2. Prefix(p.duty, n, SafeReference) \in [Servo -> Int]
    BY <2>1, ServoAssumption DEF Prefix
  <2>3. o \in Ports
    BY <1>2, <2>1, <2>2 DEF Ports
  <2>4. o.powered = on /\ o.duty = Prefix(p.duty, n, SafeReference)
    BY <1>2 DEF Ports
  <2>5. \A i \in Servo : o.duty[i] \in {p.duty[i], SafeReference[i]}
    BY <2>4 DEF Prefix
  <2>6. PortSafe(p) => PortSafe(o)
    BY <2>1, <2>4, <2>5, ServoAssumption DEF PortSafe
  <2> QED BY <2>3, <2>6
<1>3. CASE p.ready
  <2>1. o = p
    BY <1>3 DEF Initialised
  <2> QED BY <2>1
<1>4. CASE ~p.ready
  <2> DEFINE Reset(on) == [ready |-> TRUE, outputs |-> FALSE, powered |-> on,
                           duty |-> SafeReference, ok |-> TRUE]
             Failed(on, n) == [p EXCEPT !.powered = on,
                                        !.duty = Prefix(p.duty, n, SafeReference), !.ok = FALSE]
  <2>1. o \in {Reset(on) : on \in SUBSET p.powered}
            \cup UNION {{Failed(on, n) : on \in SUBSET p.powered} : n \in Servo}
    BY <1>4 DEF Initialised
  <2>2. ASSUME NEW on \in SUBSET p.powered, o = Reset(on) PROVE Good
    BY <1>1, <2>2
  <2>3. ASSUME NEW on \in SUBSET p.powered, NEW n \in Servo, o = Failed(on, n) PROVE Good
    BY <1>2, <2>3
  <2> HIDE DEF Good, Reset, Failed
  <2>4. Good
    BY <2>1, <2>2, <2>3
  <2> QED BY <2>4 DEF Good
<1> QED BY <1>3, <1>4

\* What setting all channels does: a safe port given a safe pose stays safe
\* wherever it fails, and any port that took all of a safe pose is safe.
LEMMA SetAllPort ==
  ASSUME NEW q \in Ports, q.ok, NEW pose \in [Servo -> Int], NEW o \in SetAll(q, pose)
  PROVE  /\ o \in Ports
         /\ LegAnglesAreSafe(pose) /\ (PortSafe(q) \/ o.ok) => PortSafe(o)
<1>1. PICK p \in Initialised(q) :
        o \in IF ~p.ok THEN {p} ELSE IF p.outputs THEN Adjusted(p, pose) ELSE SwitchedOn(p, pose)
  BY DEF SetAll
<1>2. p \in Ports /\ (PortSafe(q) => PortSafe(p))
  BY InitialisedPort
<1>3. p.duty \in [Servo -> Int] /\ p.powered \subseteq Servo
  BY <1>2 DEF Ports
<1>4. CASE ~p.ok
  BY <1>1, <1>2, <1>4
<1>5. CASE p.ok /\ p.outputs
  <2>1. PICK F \in SUBSET Servo :
          o = [p EXCEPT !.duty = [i \in Servo |-> IF i \in F THEN p.duty[i] ELSE pose[i]],
                        !.ok = (F = {})]
    BY <1>1, <1>5 DEF Adjusted
  <2>2. /\ o.powered = p.powered /\ o.ok = (F = {})
        /\ o.duty = [i \in Servo |-> IF i \in F THEN p.duty[i] ELSE pose[i]]
    BY <1>2, <2>1 DEF Ports
  <2>3. o.duty \in [Servo -> Int]
    BY <1>3, <2>2
  <2>4. o \in Ports
    BY <1>2, <2>1, <2>2, <2>3 DEF Ports
  <2>5. LegAnglesAreSafe(pose) /\ PortSafe(p) => PortSafe(o)
    BY <1>3, <2>2 DEF PortSafe, LegAnglesAreSafe
  <2>6. LegAnglesAreSafe(pose) /\ F = {} => PortSafe(o)
    BY <1>3, <2>2 DEF PortSafe, LegAnglesAreSafe
  <2>7. o.ok => F = {}
    BY <2>2
  <2> QED BY <1>2, <2>4, <2>5, <2>6, <2>7
<1>6. CASE p.ok /\ ~p.outputs
  <2>1. CASE o = [p EXCEPT !.duty = pose, !.powered = Servo, !.outputs = TRUE]
    <3>1. o \in Ports /\ o.duty = pose /\ o.powered = Servo
      BY <1>2, <2>1 DEF Ports
    <3> QED BY <3>1 DEF PortSafe, LegAnglesAreSafe
  <2>2. ASSUME NEW n \in Servo, o = [p EXCEPT !.duty = Prefix(p.duty, n, pose), !.ok = FALSE]
        PROVE  o \in Ports /\ ~o.ok /\ (LegAnglesAreSafe(pose) /\ PortSafe(p) => PortSafe(o))
    <3>1. Prefix(p.duty, n, pose) \in [Servo -> Int]
      BY <1>3 DEF Prefix
    <3>2. o \in Ports /\ ~o.ok /\ o.powered = p.powered /\ o.duty = Prefix(p.duty, n, pose)
      BY <1>2, <2>2, <3>1 DEF Ports
    <3>3. \A i \in Servo : o.duty[i] \in {p.duty[i], pose[i]}
      BY <3>2 DEF Prefix
    <3>4. LegAnglesAreSafe(pose) /\ PortSafe(p) => PortSafe(o)
      BY <1>3, <3>2, <3>3 DEF PortSafe, LegAnglesAreSafe
    <3> QED BY <3>2, <3>4
  <2> QED BY <1>1, <1>2, <1>6, <2>1, <2>2 DEF SwitchedOn
<1> QED BY <1>4, <1>5, <1>6

\* Switching off, and testing one channel.
LEMMA DisabledPort ==
  ASSUME NEW p \in Ports
  PROVE  Disabled(p) \in Ports /\ (PortSafe(p) => PortSafe(Disabled(p)))
<1>1. /\ Disabled(p) \in Ports
      /\ Disabled(p).duty = p.duty /\ Disabled(p).powered \subseteq p.powered
  BY DEF Disabled, Ports
<1> QED BY <1>1 DEF PortSafe

LEMMA SinglePort ==
  ASSUME NEW q \in Ports, q.ok, NEW i \in Servo, NEW angle \in Int, NEW o \in Single(q, i, angle)
  PROVE  o \in Ports
<1>1. PICK p \in Initialised(q) :
        o \in IF ~p.ok THEN {p}
              ELSE {[Disabled(p) EXCEPT !.ok = FALSE],
                    [Disabled(p) EXCEPT !.duty[i] = angle, !.powered = @ \cup {i}, !.outputs = TRUE]}
  BY DEF Single
<1>2. p \in Ports /\ Disabled(p) \in Ports
  BY InitialisedPort, DisabledPort
<1>3. CASE ~p.ok
  BY <1>1, <1>2, <1>3
<1>4. CASE o = [Disabled(p) EXCEPT !.ok = FALSE]
  BY <1>2, <1>4 DEF Ports
<1>5. CASE o = [Disabled(p) EXCEPT !.duty[i] = angle, !.powered = @ \cup {i}, !.outputs = TRUE]
  <2>1. /\ [Disabled(p).duty EXCEPT ![i] = angle] \in [Servo -> Int]
        /\ Disabled(p).powered \cup {i} \in SUBSET Servo
    BY <1>2 DEF Ports
  <2> QED BY <1>2, <1>5, <2>1 DEF Ports
<1> QED BY <1>1, <1>3, <1>4, <1>5

-----------------------------------------------------------------------------
(* A trajectory stays between its ends *)

LEMMA DivBounds ==
  ASSUME NEW x \in Nat, NEW d \in Nat \ {0}, NEW m \in Nat, x <= m * d
  PROVE  x \div d \in Int /\ 0 <= x \div d /\ x \div d <= m
<1> DEFINE q == x \div d
<1>1. q \in Int
  OBVIOUS
<1>2. q \in Int /\ d * q <= x /\ x < d * q + d
  BY <1>1
<1> HIDE DEF q
<1>3. 0 <= q
  <2> SUFFICES ASSUME q <= -1 PROVE FALSE
    BY <1>2
  <2>1. d * q <= d * (-1)
    BY <1>2
  <2> QED BY <1>2, <2>1
<1>4. q <= m
  <2> SUFFICES ASSUME q >= m + 1 PROVE FALSE
    BY <1>2
  <2>1. d * q >= d * (m + 1)
    BY <1>2
  <2> QED BY <1>2, <2>1
<1> QED BY <1>2, <1>3, <1>4 DEF q

LEMMA Between ==
  ASSUME NEW s \in Int, NEW t \in Int, NEW n \in 0..Duration
  PROVE  LET q == s + Quotient((t - s) * n, Duration)
         IN  q \in Int /\ ((s <= q /\ q <= t) \/ (t <= q /\ q <= s))
<1>1. Duration \in Nat \ {0}
  BY ServoAssumption
<1>2. CASE s <= t
  <2>1. t - s \in Nat /\ (t - s) * n \in Nat /\ (t - s) * n <= (t - s) * Duration
    BY <1>1, <1>2
  <2>2. /\ ((t - s) * n) \div Duration \in Int
        /\ 0 <= ((t - s) * n) \div Duration
        /\ ((t - s) * n) \div Duration <= t - s
    BY <1>1, <2>1, DivBounds
  <2>3. Quotient((t - s) * n, Duration) = ((t - s) * n) \div Duration
    BY <2>1 DEF Quotient
  <2> QED BY <2>2, <2>3
<1>3. CASE t < s
  <2>1. /\ s - t \in Nat /\ (s - t) * n \in Nat /\ (s - t) * n <= (s - t) * Duration
        /\ -((t - s) * n) = (s - t) * n
    <3>1. s - t \in Nat
      BY <1>3
    <3>2. (s - t) * n \in Nat
      BY <3>1
    <3>3. (s - t) * n <= (s - t) * Duration
      BY <1>1, <3>1
    <3>4. -((t - s) * n) = (s - t) * n
      OBVIOUS
    <3> QED BY <3>1, <3>2, <3>3, <3>4
  <2>2. /\ ((s - t) * n) \div Duration \in Int
        /\ 0 <= ((s - t) * n) \div Duration
        /\ ((s - t) * n) \div Duration <= s - t
    BY <1>1, <2>1, DivBounds
  <2>3. CASE (t - s) * n < 0
    <3>1. Quotient((t - s) * n, Duration) = -(((s - t) * n) \div Duration)
      BY <2>1, <2>3 DEF Quotient
    <3> QED BY <2>2, <3>1
  <2>4. CASE (t - s) * n = 0
    <3>1. Quotient((t - s) * n, Duration) = 0
      BY <1>1, <2>4 DEF Quotient
    <3> QED BY <1>3, <3>1
  <2>5. (t - s) * n < 0 \/ (t - s) * n = 0
    BY <2>1
  <2> QED BY <2>3, <2>4, <2>5
<1> QED BY <1>2, <1>3

-----------------------------------------------------------------------------
(* The motion controller *)

PoweredSafe == \A i \in powered : SafeMin[i] <= duty[i] /\ duty[i] <= SafeMax[i]

\* Every angle a later step may use is safe, not only those of powered channels.
AnglesSafe ==
  /\ PoweredSafe
  /\ LegAnglesAreSafe(current) /\ LegAnglesAreSafe(target)
  /\ legs = "MOVING" => LegAnglesAreSafe(start)

ServoInv == ServoTypeOK /\ (raw \/ AnglesSafe)

LEMMA PortOfState ==
  ASSUME ServoTypeOK PROVE Port \in Ports /\ Port.ok /\ (PoweredSafe => PortSafe(Port))
BY DEF ServoTypeOK, Port, Ports, PoweredSafe, PortSafe

LEMMA StateOfPort ==
  ASSUME NEW o \in Ports, PortIs(o)
  PROVE  /\ ready' \in BOOLEAN /\ outputs' \in BOOLEAN
         /\ powered' \in SUBSET Servo /\ duty' \in [Servo -> Int]
         /\ PortSafe(o) => PoweredSafe'
BY DEF PortIs, Ports, PortSafe, PoweredSafe

LEMMA ReferenceIsSafe == LegAnglesAreSafe(SafeReference) /\ SafeReference \in [Servo -> Int]
BY ServoAssumption DEF LegAnglesAreSafe

LEMMA ServoInitHolds == ServoInit => ServoInv
<1> SUFFICES ASSUME ServoInit PROVE ServoInv
  OBVIOUS
<1>1. ServoTypeOK
  <2>1. ready \in BOOLEAN /\ outputs \in BOOLEAN /\ raw \in BOOLEAN
    BY DEF ServoInit
  <2>2. /\ legs \in LegStates /\ powered \in SUBSET Servo
        /\ current \in [Servo -> Int] /\ target \in [Servo -> Int]
        /\ start \in [Servo -> Int] /\ duty \in [Servo -> Int]
    BY ReferenceIsSafe DEF ServoInit, LegStates
  <2> QED BY <2>1, <2>2 DEF ServoTypeOK
<1>2. AnglesSafe
  BY ReferenceIsSafe DEF ServoInit, AnglesSafe, PoweredSafe
<1> QED BY <1>1, <1>2 DEF ServoInv

\* Legs that take their reference are safe again, if all of it was programmed.
LEMMA EnableKeeps ==
  ASSUME ServoInv, NEW p \in Ports, p.ok, PoweredSafe => PortSafe(p),
         NEW pose \in [Servo -> Int], EnableAtTarget(p, pose)
  PROVE  ServoInv'
<1>1. CASE legs \in Busy
  <2>1. /\ UNCHANGED <<legs, current, target, start, raw>> /\ PortIs(p)
    BY <1>1 DEF EnableAtTarget
  <2>2. ServoTypeOK'
    BY <2>1, StateOfPort DEF ServoInv, ServoTypeOK
  <2>3. AnglesSafe => AnglesSafe'
    BY <2>1, StateOfPort DEF AnglesSafe
  <2> QED BY <2>1, <2>2, <2>3 DEF ServoInv
<1>2. CASE legs \notin Busy
  <2>1. PICK o \in SetAll(p, pose) :
          /\ PortIs(o)
          /\ legs' = IF o.ok THEN "STARTING" ELSE "FAULT"
          /\ current' = IF o.ok THEN pose ELSE current
          /\ target' = IF o.ok THEN pose ELSE target
          /\ raw' = (pose # SafeReference \/ (raw /\ ~o.ok))
          /\ UNCHANGED start
    BY <1>2 DEF EnableAtTarget
  <2>2. o \in Ports /\ (LegAnglesAreSafe(pose) /\ (PortSafe(p) \/ o.ok) => PortSafe(o))
    BY SetAllPort
  <2>3. ServoTypeOK'
    <3>1. raw' \in BOOLEAN /\ legs' \in LegStates /\ start' \in [Servo -> Int]
      BY <2>1 DEF ServoInv, ServoTypeOK, LegStates
    <3>2. current' \in [Servo -> Int] /\ target' \in [Servo -> Int]
      BY <2>1 DEF ServoInv, ServoTypeOK
    <3> QED BY <2>1, <2>2, <3>1, <3>2, StateOfPort DEF ServoTypeOK
  <2>4. ASSUME ~raw' PROVE AnglesSafe'
    <3>1. pose = SafeReference /\ (o.ok \/ AnglesSafe)
      BY <2>1, <2>4 DEF ServoInv
    <3>2. PoweredSafe'
      BY <2>1, <2>2, <3>1, StateOfPort, ReferenceIsSafe DEF AnglesSafe
    <3>3. LegAnglesAreSafe(current)' /\ LegAnglesAreSafe(target)' /\ legs' # "MOVING"
      BY <2>1, <3>1, ReferenceIsSafe DEF AnglesSafe, LegAnglesAreSafe
    <3> QED BY <3>2, <3>3 DEF AnglesSafe
  <2> QED BY <2>3, <2>4 DEF ServoInv
<1> QED BY <1>1, <1>2

LEMMA StopKeeps == ASSUME ServoInv, StopLegs PROVE ServoInv'
<1>1. Disabled(Port) \in Ports /\ (PoweredSafe => PortSafe(Disabled(Port)))
  BY PortOfState, DisabledPort DEF ServoInv
<1>2. ServoTypeOK'
  BY <1>1, StateOfPort DEF StopLegs, ServoInv, ServoTypeOK, LegStates
<1>3. AnglesSafe => AnglesSafe'
  BY <1>1, StateOfPort DEF StopLegs, AnglesSafe, LegAnglesAreSafe
<1> QED BY <1>2, <1>3 DEF ServoInv, StopLegs

LEMMA TestKeeps ==
  ASSUME ServoInv, NEW i \in Servo, NEW angle \in Int, TestOne(i, angle) PROVE ServoInv'
<1>1. PICK o \in Single(Port, i, angle) :
        /\ PortIs(o)
        /\ legs' = IF o.ok THEN "TESTING" ELSE "FAULT"
        /\ current' = IF o.ok THEN [current EXCEPT ![i] = angle] ELSE current
        /\ target' = IF o.ok THEN [target EXCEPT ![i] = angle] ELSE target
        /\ raw' = TRUE
        /\ UNCHANGED start
  BY DEF TestOne
<1>2. o \in Ports
  BY PortOfState, SinglePort DEF ServoInv
<1>3. legs' \in LegStates /\ current' \in [Servo -> Int] /\ target' \in [Servo -> Int]
  BY <1>1 DEF ServoInv, ServoTypeOK, LegStates
<1>4. ServoTypeOK'
  BY <1>1, <1>2, <1>3, StateOfPort DEF ServoInv, ServoTypeOK
<1> QED BY <1>1, <1>4 DEF ServoInv

LEMMA StartKeeps ==
  ASSUME ServoInv, NEW pose \in [Servo -> Int], StartMotion(pose),
         raw' \in BOOLEAN, raw' \/ (LegAnglesAreSafe(pose) /\ ~raw)
  PROVE  ServoInv'
<1>1. ServoTypeOK'
  BY DEF StartMotion, ServoInv, ServoTypeOK, LegStates, portVars
<1>2. LegAnglesAreSafe(pose) /\ AnglesSafe => AnglesSafe'
  BY DEF StartMotion, AnglesSafe, PoweredSafe, LegAnglesAreSafe, portVars
<1> QED BY <1>1, <1>2 DEF ServoInv

\* The angles on the way between two safe poses are safe.
LEMMA InterpolatedIsSafe ==
  ASSUME ServoTypeOK, NEW n \in 0..Duration
  PROVE  /\ Interpolated(n) \in [Servo -> Int]
         /\ LegAnglesAreSafe(start) /\ LegAnglesAreSafe(target) => LegAnglesAreSafe(Interpolated(n))
<1>1. \A i \in Servo : start[i] \in Int /\ target[i] \in Int
  BY DEF ServoTypeOK
<1> DEFINE q(i) == start[i] + Quotient((target[i] - start[i]) * n, Duration)
<1>2. \A i \in Servo : /\ q(i) \in Int
                       /\ \/ start[i] <= q(i) /\ q(i) <= target[i]
                          \/ target[i] <= q(i) /\ q(i) <= start[i]
  BY <1>1, Between
<1>3. Interpolated(n) = [i \in Servo |-> q(i)]
  BY DEF Interpolated
<1> HIDE DEF q
<1>4. Interpolated(n) \in [Servo -> Int] /\ \A i \in Servo : Interpolated(n)[i] = q(i)
  BY <1>2, <1>3
<1> QED BY <1>1, <1>2, <1>4, ServoAssumption DEF LegAnglesAreSafe

LEMMA PollKeeps == ASSUME ServoInv, NEW late, ServoPoll(late) PROVE ServoInv'
<1>1. CASE UNCHANGED servoVars
  BY <1>1 DEF servoVars, portVars, ServoInv, ServoTypeOK, AnglesSafe, PoweredSafe, LegAnglesAreSafe
<1>2. CASE StopLegs
  BY <1>2, StopKeeps
<1>3. CASE /\ legs = "STARTING" /\ legs' \in {"IDLE", "STARTING"}
           /\ UNCHANGED <<current, target, start, portVars, raw>>
  BY <1>3 DEF portVars, ServoInv, ServoTypeOK, LegStates, AnglesSafe, PoweredSafe, LegAnglesAreSafe
<1>4. ASSUME legs = "MOVING", NEW n \in 0..Duration, NEW o \in SetAll(Port, Interpolated(n)),
             PortIs(o),
             current' = IF o.ok THEN Interpolated(n) ELSE current,
             legs' \in {"FAULT", "IDLE", "MOVING"},
             UNCHANGED <<target, start, raw>>
      PROVE  ServoInv'
  <2>1. Interpolated(n) \in [Servo -> Int]
    BY InterpolatedIsSafe DEF ServoInv
  <2>2. o \in Ports /\ (LegAnglesAreSafe(Interpolated(n)) /\ PoweredSafe => PortSafe(o))
    BY <2>1, PortOfState, SetAllPort DEF ServoInv
  <2>3. current' \in [Servo -> Int] /\ legs' \in LegStates
    BY <1>4, <2>1 DEF ServoInv, ServoTypeOK, LegStates
  <2>4. ServoTypeOK'
    BY <1>4, <2>2, <2>3, StateOfPort DEF ServoInv, ServoTypeOK
  <2>5. ASSUME AnglesSafe PROVE AnglesSafe'
    <3>1. LegAnglesAreSafe(Interpolated(n))
      BY <1>4, <2>5, InterpolatedIsSafe DEF ServoInv, AnglesSafe
    <3>2. PoweredSafe'
      BY <1>4, <2>2, <2>5, <3>1, StateOfPort DEF AnglesSafe
    <3>3. LegAnglesAreSafe(current)'
      BY <1>4, <2>5, <3>1 DEF AnglesSafe, LegAnglesAreSafe
    <3>4. LegAnglesAreSafe(target)' /\ LegAnglesAreSafe(start)'
      BY <1>4, <2>5 DEF AnglesSafe, LegAnglesAreSafe
    <3> QED BY <3>2, <3>3, <3>4 DEF AnglesSafe
  <2> QED BY <1>4, <2>4, <2>5 DEF ServoInv
<1>5. Duration \in 0..Duration /\ 0..(Duration - 1) \subseteq 0..Duration
  BY ServoAssumption
<1>6. \/ UNCHANGED servoVars
      \/ StopLegs
      \/ /\ legs = "STARTING" /\ legs' \in {"IDLE", "STARTING"}
         /\ UNCHANGED <<current, target, start, portVars, raw>>
      \/ /\ legs = "MOVING"
         /\ \E n \in 0..Duration : \E o \in SetAll(Port, Interpolated(n)) :
              /\ PortIs(o)
              /\ current' = IF o.ok THEN Interpolated(n) ELSE current
              /\ legs' \in {"FAULT", "IDLE", "MOVING"}
              /\ UNCHANGED <<target, start, raw>>
  BY <1>5 DEF ServoPoll
<1> QED BY <1>1, <1>2, <1>3, <1>4, <1>6
=============================================================================
