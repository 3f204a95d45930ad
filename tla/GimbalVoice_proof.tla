-------------------------- MODULE GimbalVoice_proof --------------------------
(***************************************************************************)
(* Proofs about the gimbal daemon and the voice programs that use it, for  *)
(* every value of the constants.  First the daemon alone: what its socket  *)
(* to the broker holds, and what a reply says of the gimbal.  Then the     *)
(* voice among the daemon's other clients: what it may believe of the      *)
(* camera while its requests, and others', are under way.                  *)
(***************************************************************************)
EXTENDS GimbalVoice, SequenceTheorems, TLAPS

\* The transactions of controlled_shutdown.
Ending == {"endStatus", "endDisable", "endStop"}

\* The transactions of a request, in GimbalService.handle.
StagesOf(cmd) ==
  CASE cmd = "status" -> {"status"} [] cmd = "estop" -> {"estop"}
    [] cmd = "enable" -> {"limits", "enable", "unsafe"} [] cmd = "disable" -> {"query", "disable"}
    [] cmd = "set" -> {"check", "set", "wait"}

\* Where the daemon is: a request is being served exactly between receive and its
\* answer, and the transaction is one of that request.
Control ==
  /\ pc # "handle" => stage = "none" /\ ~awaiting
  /\ pc = "handle" => stage # "none"
  /\ pc \in {"accept", "ended"} => job = NoJob
  /\ pc = "receive" => job \in Connections
  /\ pc = "handle" => IF stage \in Ending THEN job = NoJob
                                          ELSE job \in Connections /\ stage \in StagesOf(job.cmd)
  /\ settled < SettleSamples

\* The sequence k requests before s.
Behind(s, k) == IF s >= k THEN s - k ELSE s - k + SequenceMod

\* What the daemon's socket still brings: replies, and frames not yet carried out.
InFlight == Len(inbox) + Len(wire)

\* How many replies the daemon waits for.
Due == IF awaiting THEN 1 ELSE 0

\* Replies come in the order of the requests, one for each. More than the one due
\* are in flight only after a timeout; after a cut none is the daemon's own.
InOrder ==
  /\ link => Due <= InFlight /\ InFlight <= faults + Due
  /\ link => \A i \in DOMAIN inbox : inbox[i].of.seq = Behind(sequence, InFlight - i)
  /\ link => \A i \in DOMAIN wire : wire[i].seq = Behind(sequence, Len(wire) - i)
  /\ link /\ awaiting =>
       IF wire # <<>> THEN ~wire[Len(wire)].late ELSE ~inbox[Len(inbox)].of.late
  /\ ~link => /\ faults > 0 /\ wire = <<>>
              /\ awaiting => \A i \in DOMAIN inbox : inbox[i].of.seq # sequence

\* Nothing but the reply that is due.
InSync == link /\ InFlight = Due

\* In sync, what is under way is the present transaction.
DueFrame ==
  InSync => /\ wire # <<>> => Head(wire).cmd = CommandOf(stage) /\ Head(wire).yaw = job.yaw
            /\ inbox # <<>> => Head(inbox).of.cmd = CommandOf(stage)

\* The reply that recv returns next.
Here == Head(inbox).tel

\* In sync, a reply says what the gimbal can still be: it may have moved on towards
\* its goal, or failed, since.
Snapshot ==
  InSync /\ inbox # <<>> =>
    /\ Here.state \in Stopped => gimbal.state \in Stopped
    /\ Here.state = "active" =>
         /\ gimbal.state \in {"active", "fault"}
         /\ gimbal.state = "active" => gimbal.yaw \in {Here.yaw, gimbal.goal}
    /\ CommandOf(stage) = "estop" => gimbal.state = "disabled"
    /\ CommandOf(stage) = "disable" => gimbal.state \notin Moving

\* A target that was accepted is the goal until the wait for it ends: nobody else's
\* request is carried out meanwhile.
TargetTaken ==
  InSync =>
    /\ stage = "wait" \/ (stage = "set" /\ inbox # <<>> /\ Here.status = "ok")
         => gimbal.state \in {"active", "fault"} /\ gimbal.goal = job.yaw
    /\ stage = "wait" /\ inbox # <<>> /\ Here.state = "active" /\ Here.yaw = job.yaw
         => gimbal.yaw = job.yaw

\* Without a fault, a start from an unsafe position is known and being stopped.
UnsafeIsHandled ==
  faults = 0 /\ gimbal.state \in Moving /\ gimbal.startup = "unsafe"
    => \/ stage = "unsafe"
       \/ stage = "enable" /\ inbox # <<>> /\ Here.status = "ok" /\ Here.startup = "unsafe"

-----------------------------------------------------------------------------
(* Constants and values. *)

LEMMA MapIsSeq ==
  ASSUME NEW S, NEW n \in Nat, NEW f \in [1..n -> S]
  PROVE  f \in Seq(S) /\ Len(f) = n /\ DOMAIN f = 1..n
<1>1. f \in Seq(S)
  BY SeqDef
<1>2. DOMAIN f = 1..Len(f) /\ Len(f) \in Nat /\ DOMAIN f = 1..n
  BY <1>1, LenProperties
<1>3. Len(f) = n
  BY <1>2
<1> QED BY <1>1, <1>2, <1>3

LEMMA Consts ==
  /\ Limit \in Nat /\ Margin \in Nat /\ Margin < Limit /\ Inset \in Margin..(Limit - 1)
  /\ EnableTries \in Nat /\ MaxPolls \in Nat /\ MaxPolls > 0 /\ SettleSamples \in Nat /\ SettleSamples > 0
  /\ MaxFaults \in Nat /\ SequenceMod \in Nat /\ SequenceMod > MaxFaults
  /\ 0 \in Yaw /\ Yaw \subseteq Int
BY LimitAssumption, CountAssumption, FaultAssumption, VoiceAssumption DEF Yaw

LEMMA ToldIsAnswer == /\ \A r \in {"none", "ok", "error"} : Told(r) \in Answers
                      /\ NoJob.from = NoClient /\ NoJob \notin Connections
BY Consts, ClientAssumption DEF Told, Answers, NoJob, Connections, Commands

LEMMA TellIsAnswer ==
  ASSUME TypeOK, NEW c, NEW told \in Answers
  PROVE  Tell(c, told) \in [Listener -> Answers]
BY DEF Tell, TypeOK

LEMMA FinishTyped ==
  ASSUME TypeOK, Control, pc = "handle", NEW told \in Answers, FinishWith(told),
         UNCHANGED gimbal
  PROVE  /\ backlog' \in Seq(Connections) /\ pc' \in {"accept", "ended"} /\ job' = NoJob
         /\ stage' = "none" /\ count' = 0 /\ settled' = 0 /\ awaiting' = FALSE
         /\ answer' \in [Listener -> Answers]
         /\ Control'
<1>1. stage \in Ending => pc' = "ended" /\ backlog' = <<>>
  BY DEF FinishWith, Ending
<1>2. stage \notin Ending => pc' = "accept" /\ backlog' = backlog
  BY DEF FinishWith, Ending
<1>3. /\ stage' = "none" /\ count' = 0 /\ settled' = 0 /\ awaiting' = FALSE /\ job' = NoJob
  BY DEF FinishWith
<1>4. answer' \in [Listener -> Answers]
  <2>1. CASE stage \in Ending
    BY <2>1, ToldIsAnswer DEF FinishWith, Ending, TypeOK
  <2>2. CASE stage \notin Ending
    BY <2>2, TellIsAnswer DEF FinishWith, Ending, TypeOK
  <2> QED BY <2>1, <2>2
<1>5. backlog' \in Seq(Connections)
  BY <1>1, <1>2, EmptySeq DEF TypeOK
<1>6. Control'
  BY <1>1, <1>2, <1>3, Consts DEF Control
<1> QED BY <1>1, <1>2, <1>3, <1>4, <1>5, <1>6

-----------------------------------------------------------------------------
(* Types: what every step leaves in the variables. *)

\* Types, and where the daemon is.
Typed == TypeOK /\ Control

LEMMA ConnectTyped ==
  ASSUME Typed, NEW c \in Client, NEW r \in Requests, NEW sent \in BOOLEAN, Connect(c, r, sent)
  PROVE  Typed'
<1> DEFINE k == [from |-> c, cmd |-> r.cmd, yaw |-> r.yaw, live |-> TRUE, sent |-> sent]
<1>1. k \in Connections
  BY DEF Connections, Requests
<1>2. backlog' = Append(backlog, k)
  BY DEF Connect
<1>3. backlog' \in Seq(Connections)
  BY <1>1, <1>2, AppendProperties DEF Typed, TypeOK
<1>4. answer' \in [Listener -> Answers]
  BY TellIsAnswer, ToldIsAnswer DEF Connect, Typed
<1> QED BY <1>3, <1>4 DEF Typed, TypeOK, Control, Connect, daemonVars, faultVars

LEMMA SpeakTyped ==
  ASSUME Typed, NEW c \in Client, Speak(c)
  PROVE  /\ Typed' /\ job'.from = job.from /\ job'.cmd = job.cmd /\ job'.yaw = job.yaw
         /\ job'.live = job.live /\ (job = NoJob => job' = NoJob)
         /\ Len(backlog') = Len(backlog) /\ DOMAIN backlog' = DOMAIN backlog
         /\ \A i \in DOMAIN backlog :
              /\ backlog'[i].from = backlog[i].from /\ backlog'[i].cmd = backlog[i].cmd
              /\ backlog'[i].yaw = backlog[i].yaw /\ backlog'[i].live = backlog[i].live
<1>1. backlog \in Seq(Connections) /\ DOMAIN backlog = 1..Len(backlog) /\ Len(backlog) \in Nat
      /\ backlog \in [1..Len(backlog) -> Connections] /\ job \in Connections \cup {NoJob}
  BY LenProperties DEF Typed, TypeOK
<1>2. /\ UNCHANGED <<pc, stage, count, settled, awaiting, sequence, answer, wire, inbox,
                     link, faults, gimbal>>
  BY DEF Speak, faultVars
<1>3. CASE job.from = c /\ ~job.sent /\ job' = [job EXCEPT !.sent = TRUE] /\ UNCHANGED backlog
  <2>1. job \in Connections
    BY <1>1, <1>3, ToldIsAnswer, ClientAssumption
  <2>2. job' \in Connections /\ job'.from = job.from /\ job'.cmd = job.cmd /\ job'.yaw = job.yaw
        /\ job'.live = job.live /\ job # NoJob
    BY <1>3, <2>1, ToldIsAnswer DEF Connections
  <2> QED BY <1>1, <1>2, <1>3, <2>1, <2>2 DEF Typed, TypeOK, Control
<1>4. CASE \E i \in DOMAIN backlog :
             /\ backlog[i].from = c /\ ~backlog[i].sent
             /\ backlog' = [backlog EXCEPT ![i].sent = TRUE]
             /\ UNCHANGED job
  <2>1. PICK i \in 1..Len(backlog) : backlog' = [backlog EXCEPT ![i].sent = TRUE] /\ UNCHANGED job
    BY <1>1, <1>4
  <2>2. backlog' = [backlog EXCEPT ![i] = [backlog[i] EXCEPT !.sent = TRUE]]
    BY <2>1
  <2>3. [backlog[i] EXCEPT !.sent = TRUE] \in Connections /\ backlog[i] \in Connections
    BY <1>1 DEF Connections
  <2>4. /\ backlog' \in Seq(Connections) /\ Len(backlog') = Len(backlog)
        /\ \A j \in 1..Len(backlog) :
             backlog'[j] = IF j = i THEN [backlog[i] EXCEPT !.sent = TRUE] ELSE backlog[j]
    BY <1>1, <2>2, <2>3, ExceptSeq
  <2>5. \A j \in 1..Len(backlog) :
              /\ backlog'[j].from = backlog[j].from /\ backlog'[j].cmd = backlog[j].cmd
              /\ backlog'[j].yaw = backlog[j].yaw /\ backlog'[j].live = backlog[j].live
    BY <1>1, <2>3, <2>4 DEF Connections
  <2>6. DOMAIN backlog' = DOMAIN backlog
    BY <1>1, <2>4, LenProperties
  <2> QED BY <1>1, <1>2, <2>1, <2>4, <2>5, <2>6 DEF Typed, TypeOK, Control
<1> QED BY <1>3, <1>4 DEF Speak

LEMMA GiveUpTyped ==
  ASSUME Typed, NEW c \in Client, GiveUp(c)
  PROVE  /\ Typed' /\ job'.from = job.from /\ job'.cmd = job.cmd /\ job'.yaw = job.yaw
         /\ (job'.live <=> job.live /\ job.from # c) /\ (job = NoJob => job' = NoJob)
         /\ Len(backlog') = Len(backlog) /\ DOMAIN backlog' = DOMAIN backlog
         /\ \A i \in DOMAIN backlog :
              /\ backlog'[i].from = backlog[i].from /\ backlog'[i].cmd = backlog[i].cmd
              /\ backlog'[i].yaw = backlog[i].yaw
              /\ backlog'[i].live <=> backlog[i].live /\ backlog[i].from # c
<1>1. backlog \in Seq(Connections) /\ DOMAIN backlog = 1..Len(backlog) /\ Len(backlog) \in Nat
      /\ backlog \in [1..Len(backlog) -> Connections] /\ job \in Connections \cup {NoJob}
  BY LenProperties DEF Typed, TypeOK
<1>2. /\ UNCHANGED <<pc, stage, count, settled, awaiting, sequence, wire, inbox,
                     link, faults, gimbal>>
      /\ backlog' = [i \in 1..Len(backlog) |->
                   IF backlog[i].from = c THEN [backlog[i] EXCEPT !.live = FALSE, !.sent = TRUE]
                                          ELSE backlog[i]]
      /\ job' = IF job.from = c THEN [job EXCEPT !.live = FALSE, !.sent = TRUE] ELSE job
  BY <1>1 DEF GiveUp, faultVars
<1>3. answer' \in [Listener -> Answers]
  BY TellIsAnswer, ToldIsAnswer DEF GiveUp, Typed
<1>4. \A k \in Connections : [k EXCEPT !.live = FALSE, !.sent = TRUE] \in Connections
  BY DEF Connections
<1>5. backlog' \in [1..Len(backlog) -> Connections]
  BY <1>1, <1>2, <1>4
<1>6. backlog' \in Seq(Connections) /\ Len(backlog') = Len(backlog) /\ DOMAIN backlog' = 1..Len(backlog)
  BY <1>1, <1>5, MapIsSeq
<1>7. \A i \in 1..Len(backlog) :
              /\ backlog'[i].from = backlog[i].from /\ backlog'[i].cmd = backlog[i].cmd
              /\ backlog'[i].yaw = backlog[i].yaw
              /\ backlog'[i].live <=> backlog[i].live /\ backlog[i].from # c
  BY <1>1, <1>2 DEF Connections
<1>8. /\ job = NoJob => job' = NoJob
      /\ job \in Connections => job' \in Connections
      /\ job'.from = job.from /\ job'.cmd = job.cmd /\ job'.yaw = job.yaw
      /\ job'.live <=> job.live /\ job.from # c
  <2>1. CASE job = NoJob
    BY <1>2, <2>1, ToldIsAnswer, ClientAssumption DEF NoJob
  <2>2. CASE job \in Connections
    BY <1>2, <2>2, ToldIsAnswer DEF Connections
  <2> QED BY <1>1, <2>1, <2>2
<1> QED BY <1>1, <1>2, <1>3, <1>6, <1>7, <1>8 DEF Typed, TypeOK, Control

LEMMA AcceptTyped ==
  ASSUME Typed, AcceptClient
  PROVE  /\ Typed' /\ job' = Head(backlog) /\ Head(backlog) \in Connections /\ Len(backlog) > 0
         /\ Head(backlog) = backlog[1] /\ Len(backlog') = Len(backlog) - 1
         /\ \A i \in 1..Len(backlog') : backlog'[i] = backlog[i + 1]
<1>1. backlog \in Seq(Connections) /\ backlog # <<>>
  BY DEF Typed, TypeOK, AcceptClient
<1>2. /\ Head(backlog) \in Connections /\ Tail(backlog) \in Seq(Connections)
      /\ Len(Tail(backlog)) = Len(backlog) - 1 /\ Len(backlog) > 0
      /\ \A i \in 1..Len(Tail(backlog)) : Tail(backlog)[i] = backlog[i + 1]
      /\ Head(backlog) = backlog[1]
  BY <1>1, HeadTailProperties, EmptySeq
<1>3. /\ pc = "accept" /\ pc' = "receive" /\ job' = Head(backlog) /\ backlog' = Tail(backlog)
      /\ UNCHANGED <<stage, count, settled, awaiting, sequence, answer, wire, inbox,
                     link, faults, gimbal>>
  BY DEF AcceptClient, faultVars
<1>4. TypeOK'
  BY <1>2, <1>3 DEF Typed, TypeOK
<1>5. Control'
  BY <1>2, <1>3 DEF Typed, Control
<1> QED BY <1>2, <1>3, <1>4, <1>5 DEF Typed

LEMMA ReceiveTyped ==
  ASSUME Typed, Receive
  PROVE  /\ Typed' /\ stage' \in {"limits", "query", "estop", "status", "check"}
         /\ job \in Connections /\ stage' \in StagesOf(job.cmd)
<1>1. job \in Connections /\ job.cmd \in Commands
  BY DEF Typed, Control, Receive, Connections
<1>2. stage' \in {"limits", "query", "estop", "status", "check"} /\ stage' \in StagesOf(job.cmd)
  BY <1>1 DEF Receive, FirstStage, StagesOf, Commands
<1>3. /\ pc = "receive" /\ pc' = "handle"
      /\ UNCHANGED <<backlog, job, count, settled, awaiting, sequence, answer, wire, inbox,
                     link, faults, gimbal>>
  BY DEF Receive, faultVars
<1>4. TypeOK'
  BY <1>2, <1>3 DEF Typed, TypeOK, Stages
<1>5. Control'
  BY <1>1, <1>2, <1>3 DEF Typed, Control, Ending
<1> QED BY <1>1, <1>2, <1>4, <1>5 DEF Typed

LEMMA ShutdownTyped ==
  ASSUME Typed, Shutdown
  PROVE  Typed' /\ job = NoJob
<1>1. /\ pc = "accept" /\ pc' = "handle" /\ stage' = "endStatus"
      /\ UNCHANGED <<backlog, job, count, settled, awaiting, sequence, answer, wire, inbox,
                     link, faults, gimbal>>
  BY DEF Shutdown, faultVars
<1>2. TypeOK'
  BY <1>1 DEF Typed, TypeOK, Stages
<1>3. Control' /\ job = NoJob
  BY <1>1 DEF Typed, Control, Ending
<1> QED BY <1>2, <1>3 DEF Typed

LEMMA SendTyped ==
  ASSUME Typed, Send
  PROVE  /\ Typed'
         /\ sequence' = IF sequence = SequenceMod - 1 THEN 0 ELSE sequence + 1
         /\ sequence \in 0..(SequenceMod - 1)
         /\ link => /\ [cmd |-> CommandOf(stage), seq |-> sequence', yaw |-> job.yaw,
                        late |-> FALSE] \in Frames
                    /\ wire' = Append(wire, [cmd |-> CommandOf(stage), seq |-> sequence',
                                             yaw |-> job.yaw, late |-> FALSE])
                    /\ awaiting' = TRUE
                    /\ UNCHANGED <<backlog, pc, job, stage, count, settled, answer>>
         /\ ~link => wire' = wire /\ Finish("error")
<1>1. sequence \in 0..(SequenceMod - 1) /\ sequence' = (sequence + 1) % SequenceMod
  BY DEF Send, Typed, TypeOK
<1>2. sequence' = (IF sequence = SequenceMod - 1 THEN 0 ELSE sequence + 1)
      /\ sequence' \in 0..(SequenceMod - 1)
  <2>1. CASE sequence = SequenceMod - 1
    <3>1. SequenceMod % SequenceMod = 0
      BY Consts
    <3> QED BY <1>1, <2>1, <3>1, Consts
  <2>2. CASE sequence # SequenceMod - 1
    <3>1. sequence + 1 \in 0..(SequenceMod - 1)
      BY <1>1, <2>2, Consts
    <3> QED BY <1>1, <2>2, <3>1, Consts
  <2> QED BY <2>1, <2>2
<1>3. pc = "handle" /\ stage # "none"
  BY DEF Send, Typed, Control
<1> DEFINE f == [cmd |-> CommandOf(stage), seq |-> sequence', yaw |-> job.yaw, late |-> FALSE]
<1>4. f \in Frames
  <2>1. job.yaw \in Yaw
    BY Consts DEF Typed, TypeOK, Connections, NoJob
  <2>2. CommandOf(stage) \in {"limits", "status", "enable", "disable", "estop", "set"}
    BY DEF CommandOf
  <2> QED BY <1>2, <2>1, <2>2 DEF Frames
<1>5. CASE link
  <2>1. /\ wire' = Append(wire, f) /\ awaiting' = TRUE
        /\ UNCHANGED <<backlog, pc, job, stage, count, settled, answer, inbox, faults, link, gimbal>>
    BY <1>5 DEF Send, faultVars
  <2>2. wire' \in Seq(Frames)
    BY <1>4, <2>1, AppendProperties DEF Typed, TypeOK
  <2> QED BY <1>2, <1>1, <1>4, <1>5, <2>1, <2>2, <1>3 DEF Typed, TypeOK, Control
<1>6. CASE ~link
  <2>1. Finish("error") /\ UNCHANGED <<wire, inbox, faults, link, gimbal>>
    BY <1>6 DEF Send, faultVars
  <2>2. Told("error") \in Answers
    BY ToldIsAnswer
  <2>3. /\ backlog' \in Seq(Connections) /\ pc' \in {"accept", "ended"} /\ job' = NoJob
        /\ stage' = "none" /\ count' = 0 /\ settled' = 0 /\ awaiting' = FALSE
        /\ answer' \in [Listener -> Answers] /\ Control'
    BY <1>3, <2>1, <2>2, FinishTyped DEF Typed, Finish
  <2>4. TypeOK'
    <3>1. count' \in 0..(EnableTries + MaxPolls) /\ settled' \in 0..SettleSamples
      BY <2>3, Consts
    <3>2. stage' \in Stages /\ pc' \in {"accept", "receive", "handle", "ended"} /\ awaiting' \in BOOLEAN
      BY <2>3 DEF Stages
    <3>3. wire' = wire /\ inbox' = inbox /\ faults' = faults /\ link' = link /\ gimbal' = gimbal
      BY <2>1
    <3> QED BY <1>2, <2>3, <3>1, <3>2, <3>3 DEF Typed, TypeOK
  <2>5. wire' = wire /\ Typed'
    BY <2>1, <2>3, <2>4 DEF Typed
  <2> QED BY <1>1, <1>2, <1>6, <2>1, <2>5
<1> QED BY <1>5, <1>6

\* The same request goes on with transaction s.
Stays(s) == stage' = s /\ awaiting' = FALSE /\ UNCHANGED <<backlog, pc, job, answer>>

\* What the next transaction is, given the telemetry.
Goes(t) ==
  \/ stage = "limits" /\ Stays("enable")
  \/ stage = "enable" /\ t.status # "ok" /\ Stays("enable")
  \/ stage = "enable" /\ Stays("unsafe")
  \/ stage = "query" /\ Stays("disable")
  \/ stage = "check" /\ Stays("set")
  \/ stage = "set" /\ t.status = "ok" /\ Stays("wait")
  \/ stage = "wait" /\ Stays("wait")
  \/ stage = "endStatus" /\ (Stays("endDisable") \/ Stays("endStop"))

\* What an answer rests on.
Verdict(t, told) ==
  /\ told.ready => stage = "status" /\ told.result = "ok" /\ t.state = "active" /\ told.yaw = t.yaw
  /\ told.result = "ok" => stage \notin {"check", "set"}
  /\ told.result = "ok" /\ stage = "wait" => t.state = "active" /\ t.yaw = job.yaw
  /\ stage = "enable" /\ t.status = "ok" => t.startup = "safe"
  /\ stage = "endStatus" => t.state \in Stopped

\* The counters of a request that goes on.
Bounded == count' \in 0..(EnableTries + MaxPolls) /\ settled' \in 0..(SettleSamples - 1)

LEMMA GoToStays ==
  ASSUME NEW s, GoTo(s) PROVE Stays(s) /\ count' = count /\ settled' = settled
BY DEF GoTo, Stays

LEMMA FinishVerdict ==
  ASSUME NEW t, NEW result \in {"ok", "error"}, Finish(result),
         result = "ok" => stage \notin {"check", "set", "wait"},
         stage = "enable" /\ t.status = "ok" => t.startup = "safe",
         stage = "endStatus" => t.state \in Stopped
  PROVE  \E told \in Answers : FinishWith(told) /\ Verdict(t, told)
<1>1. Told(result) \in Answers /\ Told(result).result = result /\ Told(result).ready = FALSE
  BY ToldIsAnswer DEF Told
<1>2. Verdict(t, Told(result))
  BY <1>1 DEF Verdict
<1> QED BY <1>1, <1>2 DEF Finish

LEMMA SampledIs ==
  ASSUME NEW tel \in Telemetry, NEW t \in Sampled(tel)
  PROVE  /\ t.status = tel.status /\ t.state = tel.state /\ t.startup = tel.startup
         /\ t.yaw = tel.yaw /\ t.yaw \in Yaw /\ t.still \in BOOLEAN /\ t.ready \in BOOLEAN
<1>1. {FALSE, tel.state # "fault"} \subseteq BOOLEAN
  OBVIOUS
<1>2. PICK r \in {FALSE, tel.state # "fault"}, q \in BOOLEAN :
        t = [status |-> tel.status, state |-> tel.state, startup |-> tel.startup, yaw |-> tel.yaw,
             ready |-> r, still |-> q]
  BY DEF Sampled
<1>3. r \in BOOLEAN
  BY <1>1
<1> QED BY <1>2, <1>3 DEF Telemetry

LEMMA WaitHandled ==
  ASSUME Typed, stage = "wait", NEW tel \in Telemetry, NEW t \in Sampled(tel), WaitForTarget(t)
  PROVE  \/ \E told \in Answers : FinishWith(told) /\ Verdict(tel, told)
         \/ Goes(tel) /\ Bounded
<1>1. /\ t.status = tel.status /\ t.state = tel.state /\ t.startup = tel.startup /\ t.yaw = tel.yaw
  BY SampledIs
<1> DEFINE reached == t.yaw = job.yaw /\ t.still
<1>2. \/ Finish("error")
      \/ MotionReady(t) /\ reached /\ Finish("ok")
      \/ /\ count + 1 < MaxPolls /\ count' = count + 1
         /\ settled' = (IF reached THEN settled + 1 ELSE 0)
         /\ (reached => settled + 1 # SettleSamples)
         /\ Stays("wait")
  BY DEF WaitForTarget, Stays
<1>3. CASE Finish("error")
  BY <1>3, FinishVerdict
<1>4. CASE MotionReady(t) /\ reached /\ Finish("ok")
  <2>1. Told("ok") \in Answers /\ Told("ok").result = "ok" /\ Told("ok").ready = FALSE
    BY ToldIsAnswer DEF Told
  <2>2. Verdict(tel, Told("ok"))
    BY <1>1, <1>4, <2>1 DEF Verdict, MotionReady
  <2> QED BY <1>4, <2>1, <2>2 DEF Finish
<1>5. CASE /\ count + 1 < MaxPolls /\ count' = count + 1
           /\ settled' = (IF reached THEN settled + 1 ELSE 0)
           /\ (reached => settled + 1 # SettleSamples)
           /\ Stays("wait")
  <2>1. count \in 0..(EnableTries + MaxPolls) /\ settled \in 0..SettleSamples /\ settled < SettleSamples
    BY DEF Typed, TypeOK, Control
  <2>2. count' \in 0..(EnableTries + MaxPolls)
    BY <1>5, <2>1, Consts
  <2>3. settled' \in 0..(SettleSamples - 1)
    BY <1>5, <2>1, Consts
  <2> QED BY <1>5, <2>2, <2>3 DEF Bounded, Goes
<1> QED BY <1>2, <1>3, <1>4, <1>5

LEMMA ReplyHandled ==
  ASSUME Typed, pc = "handle", stage \notin Ending, NEW tel \in Telemetry, NEW t \in Sampled(tel),
         HandleReply(t)
  PROVE  \/ \E told \in Answers : FinishWith(told) /\ Verdict(tel, told)
         \/ Goes(tel) /\ Bounded
<1>1. /\ t.status = tel.status /\ t.state = tel.state /\ t.startup = tel.startup
      /\ t.yaw = tel.yaw /\ t.yaw \in Yaw /\ t.still \in BOOLEAN /\ t.ready \in BOOLEAN
  BY SampledIs
<1>2. /\ count \in 0..(EnableTries + MaxPolls) /\ settled \in 0..SettleSamples
      /\ settled < SettleSamples /\ stage \in Stages /\ stage # "none"
  BY DEF Typed, TypeOK, Control
<1>3. Result(t) \in {"ok", "error"} /\ (Result(t) = "ok" <=> tel.status = "ok")
  BY <1>1 DEF Result
<1>4. UNCHANGED <<count, settled>> => Bounded
  <2> SUFFICES ASSUME UNCHANGED <<count, settled>> PROVE Bounded
    OBVIOUS
  <2>1. count' = count /\ settled' = settled
    OBVIOUS
  <2> QED BY <1>2, <2>1, Consts DEF Bounded
<1>5. \A s : GoTo(s) => Stays(s) /\ Bounded
  BY <1>4, GoToStays
<1>6. CASE stage = "status"
  <2> DEFINE told == [result |-> Result(t), ready |-> MotionReady(t), still |-> t.still, yaw |-> t.yaw]
  <2>1. FinishWith(told)
    BY <1>6 DEF HandleReply
  <2>2. MotionReady(t) \in BOOLEAN
    BY <1>1 DEF MotionReady
  <2>3. told \in Answers
    BY <1>1, <1>3, <2>2 DEF Answers
  <2>4. Verdict(tel, told)
    BY <1>1, <1>3, <1>6 DEF Verdict, MotionReady
  <2> QED BY <2>1, <2>3, <2>4
<1>7. CASE stage \in {"estop", "disable"}
  <2>1. Finish(Result(t))
    BY <1>7 DEF HandleReply
  <2> QED BY <1>3, <1>7, <2>1, FinishVerdict
<1>8. CASE stage = "limits"
  <2>1. GoTo("enable") \/ Finish(Result(t))
    BY <1>8 DEF HandleReply
  <2>2. CASE Finish(Result(t))
    BY <1>3, <1>8, <2>2, FinishVerdict
  <2> QED BY <1>5, <1>8, <2>1, <2>2 DEF Goes
<1>9. CASE stage = "enable"
  <2>1. EnableReply(t)
    BY <1>9 DEF HandleReply
  <2>2. \/ /\ tel.status = "no_feedback" /\ count < EnableTries /\ count' = count + 1
           /\ settled' = settled /\ Stays("enable")
        \/ GoTo("unsafe")
        \/ (tel.status = "ok" => tel.startup = "safe") /\ Finish(Result(t))
    BY <1>1, <1>9, <2>1 DEF EnableReply, ReturnIsSafe, Stays, Telemetry
  <2>3. CASE /\ tel.status = "no_feedback" /\ count < EnableTries /\ count' = count + 1
             /\ settled' = settled /\ Stays("enable")
    <3>1. count' \in 0..(EnableTries + MaxPolls) /\ settled' \in 0..(SettleSamples - 1)
      BY <1>2, <2>3, Consts
    <3> QED BY <1>9, <2>3, <3>1 DEF Goes, Bounded
  <2>4. CASE GoTo("unsafe")
    BY <1>5, <1>9, <2>4 DEF Goes
  <2>5. CASE (tel.status = "ok" => tel.startup = "safe") /\ Finish(Result(t))
    BY <1>3, <1>9, <2>5, FinishVerdict
  <2> QED BY <2>2, <2>3, <2>4, <2>5
<1>10. CASE stage = "unsafe"
  <2>1. Finish("error")
    BY <1>10 DEF HandleReply
  <2> QED BY <1>10, <2>1, FinishVerdict
<1>11. CASE stage = "query"
  <2>1. GoTo("disable") \/ Finish("error")
    BY <1>11 DEF HandleReply
  <2>2. CASE Finish("error")
    BY <1>11, <2>2, FinishVerdict
  <2> QED BY <1>5, <1>11, <2>1, <2>2 DEF Goes
<1>12. CASE stage = "check"
  <2>1. GoTo("set") \/ Finish("error")
    BY <1>12 DEF HandleReply
  <2>2. CASE Finish("error")
    BY <1>12, <2>2, FinishVerdict
  <2> QED BY <1>5, <1>12, <2>1, <2>2 DEF Goes
<1>13. CASE stage = "set"
  <2>1. (tel.status = "ok" /\ GoTo("wait")) \/ (tel.status # "ok" /\ Finish(Result(t)))
    BY <1>1, <1>13 DEF HandleReply
  <2>2. CASE tel.status # "ok" /\ Finish(Result(t))
    BY <1>3, <1>13, <2>2, FinishVerdict
  <2> QED BY <1>5, <1>13, <2>1, <2>2 DEF Goes
<1>14. CASE stage = "wait"
  BY <1>14, WaitHandled DEF HandleReply
<1> QED BY <1>2, <1>6, <1>7, <1>8, <1>9, <1>10, <1>11, <1>12, <1>13, <1>14 DEF Stages, Ending

LEMMA ShutdownHandled ==
  ASSUME Typed, pc = "handle", stage \in Ending, NEW tel \in Telemetry, ControlledShutdown(tel)
  PROVE  \/ \E told \in Answers : FinishWith(told) /\ Verdict(tel, told)
         \/ Goes(tel) /\ Bounded
<1>1. /\ count \in 0..(EnableTries + MaxPolls) /\ settled \in 0..SettleSamples
      /\ settled < SettleSamples
  BY DEF Typed, TypeOK, Control
<1>2. \A s : GoTo(s) => Stays(s) /\ Bounded
  <2> SUFFICES ASSUME NEW s, GoTo(s) PROVE Stays(s) /\ Bounded
    OBVIOUS
  <2>1. Stays(s) /\ count' = count /\ settled' = settled
    BY GoToStays
  <2> QED BY <1>1, <2>1, Consts DEF Bounded
<1>3. \/ stage = "endStatus" /\ (GoTo("endDisable") \/ GoTo("endStop"))
      \/ (stage = "endStatus" => tel.state \in Stopped) /\ Finish("ok")
  BY DEF ControlledShutdown
<1>4. CASE stage = "endStatus" /\ (GoTo("endDisable") \/ GoTo("endStop"))
  BY <1>2, <1>4 DEF Goes
<1>5. CASE (stage = "endStatus" => tel.state \in Stopped) /\ Finish("ok")
  BY <1>5, FinishVerdict DEF Ending
<1> QED BY <1>3, <1>4, <1>5

LEMMA RecvOutcome ==
  ASSUME Typed, Recv
  PROVE  /\ awaiting /\ pc = "handle" /\ inbox # <<>> /\ inbox' = Tail(inbox)
         /\ UNCHANGED <<sequence, wire, link, faults, gimbal>>
         /\ Head(inbox) \in [of : Frames, tel : Telemetry]
         /\ \/ ~OwnReply(Head(inbox)) /\ Finish("error")
            \/ /\ OwnReply(Head(inbox))
               /\ \/ \E told \in Answers : FinishWith(told) /\ Verdict(Head(inbox).tel, told)
                  \/ Goes(Head(inbox).tel) /\ Bounded
<1>1. /\ awaiting /\ inbox # <<>> /\ inbox' = Tail(inbox)
      /\ UNCHANGED <<sequence, wire, link, faults, gimbal>>
  BY DEF Recv, faultVars
<1>2. pc = "handle" /\ inbox \in Seq([of : Frames, tel : Telemetry])
  BY <1>1 DEF Typed, TypeOK, Control
<1>3. Head(inbox) \in [of : Frames, tel : Telemetry]
  BY <1>1, <1>2, HeadTailProperties
<1>4. Head(inbox).tel \in Telemetry
  BY <1>3
<1>5. \/ ~OwnReply(Head(inbox)) /\ Finish("error")
      \/ OwnReply(Head(inbox)) /\ stage \in Ending /\ ControlledShutdown(Head(inbox).tel)
      \/ OwnReply(Head(inbox)) /\ stage \notin Ending
           /\ \E t \in Sampled(Head(inbox).tel) : HandleReply(t)
  BY DEF Recv, Ending
<1>6. CASE OwnReply(Head(inbox)) /\ stage \in Ending /\ ControlledShutdown(Head(inbox).tel)
  BY <1>1, <1>2, <1>3, <1>4, <1>6, ShutdownHandled
<1>7. CASE OwnReply(Head(inbox)) /\ stage \notin Ending
             /\ \E t \in Sampled(Head(inbox).tel) : HandleReply(t)
  <2>1. PICK t \in Sampled(Head(inbox).tel) : HandleReply(t)
    BY <1>7
  <2>2. \/ \E told \in Answers : FinishWith(told) /\ Verdict(Head(inbox).tel, told)
        \/ Goes(Head(inbox).tel) /\ Bounded
    BY <1>2, <1>4, <1>7, <2>1, ReplyHandled
  <2> QED BY <1>1, <1>2, <1>3, <1>7, <2>2
<1> QED BY <1>1, <1>2, <1>3, <1>5, <1>6, <1>7

\* The firmware's state, and a reply with its frame.
Gimbals == [state : State, startup : {"safe", "unsafe"}, yaw : Yaw, goal : Yaw]

Replies == [of : Frames, tel : Telemetry]

LEMMA StagesByCommand ==
  ASSUME NEW cmd \in Commands, NEW s \in StagesOf(cmd)
  PROVE  /\ s \notin Ending /\ s # "none" /\ s \in Stages
         /\ s \in {"check", "set", "wait"} <=> cmd = "set"
         /\ s \in {"limits", "enable", "unsafe"} <=> cmd = "enable"
         /\ s \in {"query", "disable"} <=> cmd = "disable"
         /\ s = "status" <=> cmd = "status"
         /\ s = "estop" <=> cmd = "estop"
BY DEF Commands, StagesOf, Ending, Stages

LEMMA JobOfStage ==
  ASSUME Typed, pc = "handle"
  PROVE  /\ stage \in Stages /\ stage # "none"
         /\ stage \in Ending => job = NoJob
         /\ stage \notin Ending => /\ job \in Connections /\ job.cmd \in Commands
                                   /\ stage \in StagesOf(job.cmd)
BY DEF Typed, TypeOK, Control, Connections

\* The transactions that follow one another.
Follows == {<<"limits", "enable">>, <<"enable", "enable">>, <<"enable", "unsafe">>,
            <<"query", "disable">>, <<"check", "set">>, <<"set", "wait">>, <<"wait", "wait">>,
            <<"endStatus", "endDisable">>, <<"endStatus", "endStop">>}

LEMMA GoesTyped ==
  ASSUME Typed, pc = "handle", NEW t, Goes(t), Bounded, UNCHANGED <<sequence, wire, link, faults, gimbal>>,
         inbox' \in Seq(Replies)
  PROVE  Typed'
<1>1. /\ stage \in Stages /\ stage # "none" /\ (stage \in Ending => job = NoJob)
      /\ stage \notin Ending => /\ job \in Connections /\ job.cmd \in Commands
                                /\ stage \in StagesOf(job.cmd)
  BY JobOfStage
<1>2. /\ awaiting' = FALSE /\ backlog' = backlog /\ pc' = pc /\ job' = job /\ answer' = answer
      /\ <<stage, stage'>> \in Follows
  <2>1. PICK s : Stays(s) /\ <<stage, s>> \in Follows
    BY DEF Goes, Follows
  <2> QED BY <2>1 DEF Stays
<1>3. /\ stage' \in Stages /\ stage' # "none" /\ (stage' \in Ending <=> stage \in Ending)
      /\ stage' \notin Ending => stage' \in StagesOf(job.cmd)
  <2>1. CASE stage \in Ending
    BY <1>2, <2>1 DEF Ending, Stages, Follows
  <2>2. CASE stage \notin Ending
    <3>1. /\ stage \in {"check", "set", "wait"} <=> job.cmd = "set"
          /\ stage \in {"limits", "enable", "unsafe"} <=> job.cmd = "enable"
          /\ stage \in {"query", "disable"} <=> job.cmd = "disable"
      BY <1>1, <2>2, StagesByCommand
    <3>2. /\ stage' \in {"set", "wait"} => job.cmd = "set"
          /\ stage' \in {"enable", "unsafe"} => job.cmd = "enable"
          /\ stage' = "disable" => job.cmd = "disable"
          /\ stage' \in {"set", "wait", "enable", "unsafe", "disable"}
      BY <1>2, <2>2, <3>1 DEF Ending, Follows
    <3>3. stage' \in StagesOf(job.cmd)
      BY <3>2 DEF StagesOf
    <3> QED BY <2>2, <3>2, <3>3 DEF Ending, Stages
  <2> QED BY <2>1, <2>2
<1>4. count' \in 0..(EnableTries + MaxPolls) /\ settled' \in 0..SettleSamples /\ settled' < SettleSamples
  BY Consts DEF Bounded
<1>5. /\ sequence' = sequence /\ wire' = wire /\ link' = link /\ faults' = faults /\ gimbal' = gimbal
  OBVIOUS
<1>6. TypeOK'
  BY <1>2, <1>3, <1>4, <1>5 DEF Typed, TypeOK, Replies
<1>7. Control'
  BY <1>1, <1>2, <1>3, <1>4 DEF Typed, Control
<1> QED BY <1>6, <1>7 DEF Typed

LEMMA FinishKeepsTyped ==
  ASSUME Typed, pc = "handle", NEW told \in Answers, FinishWith(told),
         sequence' \in 0..(SequenceMod - 1), wire' \in Seq(Frames), inbox' \in Seq(Replies),
         link' \in BOOLEAN, faults' \in 0..MaxFaults, gimbal' = gimbal
  PROVE  Typed' /\ job' = NoJob /\ stage' = "none" /\ awaiting' = FALSE /\ pc' \in {"accept", "ended"}
<1>1. /\ backlog' \in Seq(Connections) /\ pc' \in {"accept", "ended"} /\ job' = NoJob
      /\ stage' = "none" /\ count' = 0 /\ settled' = 0 /\ awaiting' = FALSE
      /\ answer' \in [Listener -> Answers] /\ Control'
  BY FinishTyped DEF Typed
<1>2. count' \in 0..(EnableTries + MaxPolls) /\ settled' \in 0..SettleSamples
  BY <1>1, Consts
<1>3. stage' \in Stages /\ pc' \in {"accept", "receive", "handle", "ended"} /\ awaiting' \in BOOLEAN
  BY <1>1 DEF Stages
<1>4. TypeOK'
  BY <1>1, <1>2, <1>3 DEF Typed, TypeOK, Replies
<1> QED BY <1>1, <1>4 DEF Typed

LEMMA RecvTyped ==
  ASSUME Typed, Recv
  PROVE  Typed'
<1>1. /\ pc = "handle" /\ inbox # <<>> /\ inbox' = Tail(inbox)
      /\ UNCHANGED <<sequence, wire, link, faults, gimbal>>
  BY RecvOutcome
<1>2. inbox' \in Seq(Replies)
  BY <1>1, HeadTailProperties DEF Typed, TypeOK, Replies
<1>3. /\ sequence' \in 0..(SequenceMod - 1) /\ wire' \in Seq(Frames)
      /\ link' \in BOOLEAN /\ faults' \in 0..MaxFaults /\ gimbal' = gimbal
  BY <1>1 DEF Typed, TypeOK
<1>4. ASSUME NEW told \in Answers, FinishWith(told) PROVE Typed'
  BY <1>1, <1>2, <1>3, <1>4, FinishKeepsTyped
<1>5. ASSUME Goes(Head(inbox).tel), Bounded PROVE Typed'
  BY <1>1, <1>2, <1>5, GoesTyped
<1>6. Finish("error") => Typed'
  BY <1>4, ToldIsAnswer DEF Finish
<1> QED BY <1>4, <1>5, <1>6, RecvOutcome

LEMMA TimeoutTyped ==
  ASSUME Typed, ReplyTimeout
  PROVE  /\ Typed' /\ awaiting /\ inbox = <<>> /\ link /\ faults' = faults + 1
         /\ UNCHANGED <<sequence, inbox, link, gimbal>> /\ Finish("error") /\ pc = "handle"
         /\ Len(wire') = Len(wire)
         /\ \A i \in 1..Len(wire) : wire'[i].seq = wire[i].seq /\ wire'[i].cmd = wire[i].cmd
                                    /\ wire'[i].yaw = wire[i].yaw
<1>1. /\ awaiting /\ inbox = <<>> /\ link /\ faults' = faults + 1 /\ faults < MaxFaults
      /\ UNCHANGED <<sequence, inbox, link, gimbal>> /\ Finish("error")
      /\ wire' = [i \in DOMAIN wire |-> [wire[i] EXCEPT !.late = TRUE]]
  BY DEF ReplyTimeout
<1>2. pc = "handle" /\ wire \in Seq(Frames) /\ faults \in 0..MaxFaults
  BY <1>1 DEF Typed, TypeOK, Control
<1>3. wire \in [1..Len(wire) -> Frames] /\ DOMAIN wire = 1..Len(wire) /\ Len(wire) \in Nat
  BY <1>2, LenProperties
<1>4. wire' \in [1..Len(wire) -> Frames]
  BY <1>1, <1>3 DEF Frames
<1>5. wire' \in Seq(Frames) /\ Len(wire') = Len(wire)
  BY <1>3, <1>4, MapIsSeq
<1>6. \A i \in 1..Len(wire) : wire'[i].seq = wire[i].seq /\ wire'[i].cmd = wire[i].cmd
                                    /\ wire'[i].yaw = wire[i].yaw
  BY <1>1, <1>3 DEF Frames
<1>7. /\ sequence' \in 0..(SequenceMod - 1) /\ inbox' \in Seq(Replies)
      /\ link' \in BOOLEAN /\ faults' \in 0..MaxFaults /\ gimbal' = gimbal
  BY <1>1, <1>2, Consts DEF Typed, TypeOK, Replies
<1>8. Told("error") \in Answers /\ FinishWith(Told("error"))
  BY <1>1, ToldIsAnswer DEF Finish
<1>9. Typed'
  BY <1>2, <1>5, <1>7, <1>8, FinishKeepsTyped
<1> QED BY <1>1, <1>2, <1>5, <1>6, <1>9

LEMMA DisconnectedTyped ==
  ASSUME Typed, Disconnected
  PROVE  /\ Typed' /\ ~link /\ Finish("error") /\ pc = "handle"
         /\ UNCHANGED <<sequence, wire, inbox, link, faults, gimbal>>
<1>1. /\ awaiting /\ ~link /\ Finish("error") /\ UNCHANGED <<sequence, wire, inbox, link, faults, gimbal>>
  BY DEF Disconnected, faultVars
<1>2. pc = "handle"
  BY <1>1 DEF Typed, TypeOK, Control
<1>3. /\ sequence' \in 0..(SequenceMod - 1) /\ inbox' \in Seq(Replies) /\ wire' \in Seq(Frames)
      /\ link' \in BOOLEAN /\ faults' \in 0..MaxFaults /\ gimbal' = gimbal
  BY <1>1 DEF Typed, TypeOK, Replies
<1>4. Told("error") \in Answers /\ FinishWith(Told("error"))
  BY <1>1, ToldIsAnswer DEF Finish
<1>5. Typed'
  BY <1>2, <1>3, <1>4, FinishKeepsTyped
<1> QED BY <1>1, <1>2, <1>5

\* What the firmware makes of a frame.
LEMMA OutcomeIs ==
  ASSUME Typed, NEW f \in Frames, NEW o \in Outcomes(f)
  PROVE  /\ o.g \in Gimbals /\ o.status \in {"ok", "no_feedback", "refused"}
         /\ o.g.yaw = gimbal.yaw
         /\ o.g.startup # gimbal.startup => f.cmd = "enable"
         /\ f.cmd \in {"status", "limits"} => o.g = gimbal
         /\ f.cmd = "estop" => o.g.state = "disabled"
         /\ f.cmd = "disable" => /\ o.g.state \in {"returning", "disabled"}
         /\ f.cmd = "enable" => \/ o.g = gimbal /\ o.status # "ok"
                                \/ o.g.state = "homing" /\ o.status = "ok"
         /\ f.cmd = "set" => \/ o.g = gimbal /\ o.status # "ok"
                             \/ /\ gimbal.state = "active" /\ o.g.state = "active"
                                /\ o.g.goal = f.yaw
         /\ f.cmd # "enable" => o.g.state # "homing" \/ gimbal.state = "homing"
         /\ f.cmd # "enable" => o.g.state # "active" \/ gimbal.state = "active"
         /\ f.cmd \notin {"set", "enable"} /\ o.g.state = "active" => o.g.goal = gimbal.goal
<1>1. gimbal \in Gimbals /\ f.cmd \in {"limits", "status", "enable", "disable", "estop", "set"} /\ f.yaw \in Yaw
  BY DEF Typed, TypeOK, Gimbals, Frames
<1>2. gimbal.state \in State
  BY <1>1 DEF Gimbals
<1>3. CASE f.cmd \in {"status", "limits"}
  BY <1>1, <1>3 DEF Outcomes
<1>4. CASE f.cmd = "estop"
  BY <1>1, <1>4 DEF Outcomes, Gimbals, State, Stopped, Moving
<1>5. CASE f.cmd = "disable"
  <2>1. \/ /\ gimbal.state \in Moving
           /\ \E s \in {"returning", "disabled"} :
                o = [status |-> "ok", g |-> [gimbal EXCEPT !.state = s, !.goal = gimbal.yaw]]
        \/ gimbal.state = "fault" /\ o = [status |-> "ok", g |-> [gimbal EXCEPT !.state = "disabled"]]
        \/ gimbal.state \notin Moving \cup {"fault"} /\ o = [status |-> "ok", g |-> gimbal]
    BY <1>5 DEF Outcomes, Moving
  <2>2. CASE gimbal.state \notin Moving \cup {"fault"} /\ o = [status |-> "ok", g |-> gimbal]
    <3>1. gimbal.state \in {"returning", "disabled"}
      BY <1>2, <2>2 DEF State, Stopped, Moving
    <3> QED BY <1>1, <1>5, <2>2, <3>1
  <2>3. CASE gimbal.state = "fault" /\ o = [status |-> "ok", g |-> [gimbal EXCEPT !.state = "disabled"]]
    BY <1>1, <1>5, <2>3 DEF Gimbals, State, Stopped
  <2>4. CASE /\ gimbal.state \in Moving
             /\ \E s \in {"returning", "disabled"} :
                  o = [status |-> "ok", g |-> [gimbal EXCEPT !.state = s, !.goal = gimbal.yaw]]
    <3>1. PICK s \in {"returning", "disabled"} :
                  o = [status |-> "ok", g |-> [gimbal EXCEPT !.state = s, !.goal = gimbal.yaw]]
      BY <2>4
    <3>2. o.g.state = s /\ o.g.yaw = gimbal.yaw /\ o.g.startup = gimbal.startup /\ o.g.goal = gimbal.yaw
          /\ o.g \in Gimbals /\ o.status = "ok"
      BY <1>1, <3>1 DEF Gimbals, State, Stopped
    <3> QED BY <1>1, <1>5, <3>2
  <2> QED BY <2>1, <2>2, <2>3, <2>4
<1>6. CASE f.cmd = "enable"
  <2>1. CASE gimbal.state \notin Stopped
    BY <1>1, <1>6, <2>1 DEF Outcomes
  <2>2. CASE gimbal.state \in Stopped
    <3>1. \/ o = [status |-> "no_feedback", g |-> gimbal]
          \/ \E p \in {"safe", "unsafe"} :
               o = [status |-> "ok", g |-> [gimbal EXCEPT !.state = "homing", !.startup = p, !.goal = 0]]
      BY <1>6, <2>2 DEF Outcomes
    <3>2. ASSUME NEW p \in {"safe", "unsafe"},
                 o = [status |-> "ok", g |-> [gimbal EXCEPT !.state = "homing", !.startup = p, !.goal = 0]]
          PROVE  o.g.state = "homing" /\ o.g.yaw = gimbal.yaw /\ o.g \in Gimbals /\ o.status = "ok"
      BY <1>1, <3>2, Consts DEF Gimbals, State, Moving
    <3> QED BY <1>1, <1>6, <2>2, <3>1, <3>2
  <2> QED BY <2>1, <2>2
<1>7. CASE f.cmd = "set"
  BY <1>1, <1>7 DEF Outcomes, Gimbals, State, Moving
<1> QED BY <1>1, <1>3, <1>4, <1>5, <1>6, <1>7

LEMMA ServesTyped ==
  ASSUME Typed, BrokerServes
  PROVE  /\ Typed' /\ link /\ wire # <<>> /\ wire' = Tail(wire)
         /\ \E o \in Outcomes(Head(wire)) :
              gimbal' = o.g /\ inbox' = Append(inbox, Replied(Head(wire), o.status, o.g))
         /\ Head(wire) \in Frames /\ wire' \in Seq(Frames)
         /\ \A o \in Outcomes(Head(wire)) : Replied(Head(wire), o.status, o.g) \in Replies
         /\ UNCHANGED <<backlog, pc, job, stage, count, settled, awaiting, sequence, answer, link, faults>>
<1>1. /\ link /\ wire # <<>> /\ wire' = Tail(wire)
      /\ UNCHANGED <<backlog, pc, job, stage, count, settled, awaiting, sequence, answer, link, faults>>
  BY DEF BrokerServes, daemonVars, faultVars
<1>2. PICK o \in Outcomes(Head(wire)) :
          gimbal' = o.g /\ inbox' = Append(inbox, Replied(Head(wire), o.status, o.g))
  BY DEF BrokerServes
<1>3. Head(wire) \in Frames /\ Tail(wire) \in Seq(Frames)
  BY <1>1, HeadTailProperties DEF Typed, TypeOK
<1>4. \A p \in Outcomes(Head(wire)) : Replied(Head(wire), p.status, p.g) \in Replies
  <2> SUFFICES ASSUME NEW p \in Outcomes(Head(wire))
               PROVE  Replied(Head(wire), p.status, p.g) \in Replies
    OBVIOUS
  <2>1. p.g \in Gimbals /\ p.status \in {"ok", "no_feedback", "refused"}
    BY <1>3, OutcomeIs
  <2> QED BY <1>3, <2>1 DEF Replied, Replies, Telemetry, Gimbals
<1>5. inbox' \in Seq(Replies)
  BY <1>2, <1>4, AppendProperties DEF Typed, TypeOK, Replies
<1>6. gimbal' \in Gimbals
  BY <1>2, <1>3, OutcomeIs
<1>7. TypeOK'
  BY <1>1, <1>3, <1>5, <1>6 DEF Typed, TypeOK, Gimbals, Replies
<1>8. Control'
  BY <1>1 DEF Typed, Control
<1> QED BY <1>1, <1>2, <1>3, <1>4, <1>7, <1>8 DEF Typed

LEMMA CutsTyped ==
  ASSUME Typed, BrokerCuts
  PROVE  /\ Typed' /\ link /\ wire # <<>> /\ ~link' /\ wire' = <<>> /\ faults' = faults + 1
         /\ gimbal' = gimbal \/ \E o \in Outcomes(Head(wire)) : gimbal' = o.g
         /\ Head(wire) \in Frames
         /\ UNCHANGED <<backlog, pc, job, stage, count, settled, awaiting, sequence, answer, inbox>>
<1>1. /\ link /\ wire # <<>> /\ wire' = <<>> /\ link' = FALSE /\ faults' = faults + 1 /\ faults < MaxFaults
      /\ UNCHANGED <<backlog, pc, job, stage, count, settled, awaiting, sequence, answer, inbox>>
      /\ gimbal' = gimbal \/ \E o \in Outcomes(Head(wire)) : gimbal' = o.g
  BY DEF BrokerCuts, daemonVars
<1>3. Head(wire) \in Frames /\ gimbal \in Gimbals
  BY <1>1, HeadTailProperties DEF Typed, TypeOK, Gimbals
<1>4. gimbal' \in Gimbals
  BY <1>1, <1>3, OutcomeIs
<1>5. faults' \in 0..MaxFaults /\ wire' \in Seq(Frames) /\ link' \in BOOLEAN
  <2>1. faults \in 0..MaxFaults
    BY DEF Typed, TypeOK
  <2>2. faults' = faults + 1 /\ faults < MaxFaults
    BY <1>1
  <2>3. faults' \in 0..MaxFaults
    BY <2>1, <2>2, Consts
  <2>4. wire' = <<>> /\ link' = FALSE
    BY <1>1
  <2> QED BY <2>3, <2>4, EmptySeq
<1>6. TypeOK'
  BY <1>1, <1>4, <1>5 DEF Typed, TypeOK, Gimbals
<1>7. Control'
  BY <1>1 DEF Typed, Control
<1> QED BY <1>1, <1>3, <1>6, <1>7 DEF Typed

LEMMA MovesTyped ==
  ASSUME Typed, GimbalMoves
  PROVE  /\ Typed'
         /\ UNCHANGED <<backlog, pc, job, stage, count, settled, awaiting, sequence, answer,
                        wire, inbox, link, faults>>
         /\ gimbal'.startup = gimbal.startup /\ gimbal'.goal = gimbal.goal
         /\ \/ gimbal.state = "homing" /\ gimbal'.state = "active" /\ gimbal'.yaw = 0
            \/ gimbal.state = "active" /\ gimbal'.state = "active" /\ gimbal'.yaw = gimbal.goal
            \/ gimbal.state = "returning" /\ gimbal'.state = "disabled"
            \/ /\ gimbal.state \in Moving \cup {"returning"} /\ gimbal'.state = "fault"
               /\ gimbal'.yaw = gimbal.yaw
<1>1. gimbal \in Gimbals
  BY DEF Typed, TypeOK, Gimbals
<1>2. UNCHANGED <<backlog, pc, job, stage, count, settled, awaiting, sequence, answer,
                        wire, inbox, link, faults>>
  BY DEF GimbalMoves, daemonVars, faultVars
<1>3. /\ gimbal' \in Gimbals
      /\ gimbal'.startup = gimbal.startup /\ gimbal'.goal = gimbal.goal
      /\ \/ gimbal.state = "homing" /\ gimbal'.state = "active" /\ gimbal'.yaw = 0
         \/ gimbal.state = "active" /\ gimbal'.state = "active" /\ gimbal'.yaw = gimbal.goal
         \/ gimbal.state = "returning" /\ gimbal'.state = "disabled"
         \/ /\ gimbal.state \in Moving \cup {"returning"} /\ gimbal'.state = "fault"
            /\ gimbal'.yaw = gimbal.yaw
  BY <1>1, Consts DEF GimbalMoves, Gimbals, State, Stopped, Moving
<1>4. TypeOK'
  BY <1>2, <1>3 DEF Typed, TypeOK, Gimbals
<1>5. Control'
  BY <1>2 DEF Typed, Control
<1> QED BY <1>2, <1>3, <1>4, <1>5 DEF Typed

-----------------------------------------------------------------------------
(* Frames and replies stay in order. *)

LEMMA Lengths ==
  ASSUME Typed
  PROVE  /\ Len(inbox) \in Nat /\ Len(wire) \in Nat /\ InFlight \in Nat /\ Due \in {0, 1}
         /\ DOMAIN inbox = 1..Len(inbox) /\ DOMAIN wire = 1..Len(wire)
         /\ inbox \in Seq(Replies) /\ wire \in Seq(Frames)
         /\ (inbox = <<>> <=> Len(inbox) = 0) /\ (wire = <<>> <=> Len(wire) = 0)
         /\ inbox # <<>> => Head(inbox) = inbox[1]
         /\ wire # <<>> => Head(wire) = wire[1]
         /\ sequence \in 0..(SequenceMod - 1) /\ faults \in 0..MaxFaults /\ awaiting \in BOOLEAN
         /\ link \in BOOLEAN
<1>1. /\ inbox \in Seq(Replies) /\ wire \in Seq(Frames) /\ sequence \in 0..(SequenceMod - 1)
      /\ faults \in 0..MaxFaults /\ awaiting \in BOOLEAN /\ link \in BOOLEAN
  BY DEF Typed, TypeOK, Replies
<1>2. /\ Len(inbox) \in Nat /\ DOMAIN inbox = 1..Len(inbox) /\ (inbox = <<>> <=> Len(inbox) = 0)
      /\ inbox # <<>> => Head(inbox) = inbox[1]
  BY <1>1, LenProperties, EmptySeq
<1>3. /\ Len(wire) \in Nat /\ DOMAIN wire = 1..Len(wire) /\ (wire = <<>> <=> Len(wire) = 0)
      /\ wire # <<>> => Head(wire) = wire[1]
  BY <1>1, LenProperties, EmptySeq
<1> QED BY <1>1, <1>2, <1>3 DEF InFlight, Due

LEMMA BehindNext ==
  ASSUME NEW s \in 0..(SequenceMod - 1), NEW k \in 0..(SequenceMod - 2)
  PROVE  Behind(IF s = SequenceMod - 1 THEN 0 ELSE s + 1, k + 1) = Behind(s, k)
BY Consts DEF Behind

LEMMA BehindSelf ==
  ASSUME NEW s \in 0..(SequenceMod - 1), NEW k \in 0..(SequenceMod - 1)
  PROVE  Behind(s, 0) = s /\ (Behind(s, k) = s => k = 0)
BY Consts DEF Behind

\* In sync there is at most one frame or reply, that of the transaction under way.
LEMMA SyncIsOne ==
  ASSUME Typed, InSync
  PROVE  /\ link
         /\ ~awaiting => inbox = <<>> /\ wire = <<>>
         /\ inbox # <<>> => awaiting /\ wire = <<>> /\ Len(inbox) = 1
         /\ wire # <<>> => awaiting /\ inbox = <<>> /\ Len(wire) = 1
         /\ awaiting => inbox # <<>> \/ wire # <<>>
<1>1. link /\ Len(inbox) + Len(wire) = Due
  BY DEF InSync, InFlight
<1> QED BY <1>1, Lengths DEF Due

\* Only the reply to the frame just sent carries its number.
LEMMA OwnIsDue ==
  ASSUME Typed, InOrder, awaiting, inbox # <<>>, OwnReply(Head(inbox))
  PROVE  InSync /\ Len(inbox) = 1 /\ wire = <<>> /\ ~Head(inbox).of.late
<1>1. Head(inbox) = inbox[1] /\ inbox[1].of.seq = sequence /\ Len(inbox) > 0 /\ 1 \in DOMAIN inbox
  BY Lengths DEF OwnReply
<1>2. link
  BY <1>1 DEF InOrder
<1>3. Due = 1 /\ InFlight <= faults + 1 /\ inbox[1].of.seq = Behind(sequence, InFlight - 1)
  BY <1>1, <1>2 DEF InOrder, Due
<1>4. InFlight = Len(inbox) + Len(wire) /\ InFlight \in Nat
  BY Lengths DEF InFlight
<1>5. InFlight - 1 \in 0..(SequenceMod - 1)
  BY <1>1, <1>3, <1>4, Lengths, Consts
<1>6. InFlight = 1
  BY <1>1, <1>3, <1>4, <1>5, Lengths, BehindSelf
<1>7. Len(inbox) = 1 /\ wire = <<>>
  BY <1>1, <1>4, <1>6, Lengths
<1> QED BY <1>1, <1>2, <1>3, <1>6, <1>7 DEF InOrder, InSync

LEMMA SyncIsOwn ==
  ASSUME Typed, InOrder, DueFrame, InSync, inbox # <<>>
  PROVE  OwnReply(Head(inbox))
<1>1. link /\ awaiting /\ wire = <<>> /\ Len(inbox) = 1 /\ InFlight = 1
  BY SyncIsOne, Lengths DEF InFlight
<1>2. inbox[1].of.seq = Behind(sequence, InFlight - 1) /\ Head(inbox) = inbox[1]
  BY <1>1, Lengths DEF InOrder
<1>3. inbox[1].of.seq = sequence
  BY <1>1, <1>2, BehindSelf, Lengths, Consts
<1> QED BY <1>2, <1>3 DEF OwnReply, DueFrame

LEMMA UntouchedInOrder ==
  ASSUME InOrder, UNCHANGED <<awaiting, sequence, wire, inbox, link, faults>>
  PROVE  InOrder' /\ (InSync' => InSync) /\ (InSync => InSync')
<1>1. /\ awaiting' = awaiting /\ sequence' = sequence /\ wire' = wire /\ inbox' = inbox /\ link' = link
      /\ faults' = faults
  OBVIOUS
<1> QED BY <1>1 DEF InOrder, InSync, InFlight, Due

LEMMA SendInOrder ==
  ASSUME Typed, InOrder, Send
  PROVE  InOrder' /\ (InSync' => InSync)
<1>1. ~awaiting /\ inbox' = inbox /\ link' = link /\ faults' = faults
  BY DEF Send, faultVars
<1>2. CASE link
  <2> DEFINE f == [cmd |-> CommandOf(stage), seq |-> sequence', yaw |-> job.yaw, late |-> FALSE]
  <2>1. /\ f \in Frames /\ wire' = Append(wire, f) /\ awaiting' = TRUE
        /\ sequence' = IF sequence = SequenceMod - 1 THEN 0 ELSE sequence + 1
    BY <1>2, SendTyped
  <2>2. /\ Len(wire') = Len(wire) + 1 /\ wire'[Len(wire) + 1] = f /\ wire' # <<>>
        /\ \A i \in 1..Len(wire) : wire'[i] = wire[i]
        /\ wire' \in Seq(Frames)
    BY <2>1, AppendProperties, Lengths
  <2>3. f.seq = sequence' /\ f.late = FALSE
    OBVIOUS
  <2> HIDE DEF f
  <2>4. Due' = 1 /\ Due = 0 /\ InFlight' = InFlight + 1 /\ InFlight <= faults
    BY <1>1, <1>2, <2>1, <2>2, Lengths DEF Due, InFlight, InOrder
  <2>5. DOMAIN wire' = 1..(Len(wire) + 1) /\ DOMAIN inbox' = 1..Len(inbox)
    BY <1>1, <2>2, Lengths, LenProperties
  <2>6. \A i \in 1..Len(inbox) : inbox[i].of.seq = Behind(sequence, InFlight - i)
    BY <1>2, Lengths DEF InOrder
  <2>7. \A i \in 1..Len(wire) : wire[i].seq = Behind(sequence, Len(wire) - i)
    BY <1>2, Lengths DEF InOrder
  <2>8. ASSUME NEW i \in 1..Len(inbox) PROVE inbox'[i].of.seq = Behind(sequence', InFlight' - i)
    <3>1. InFlight - i \in 0..(SequenceMod - 2) /\ InFlight' - i = (InFlight - i) + 1
      BY <2>4, Lengths, Consts DEF InFlight
    <3> QED BY <1>1, <2>1, <2>6, <3>1, Lengths, BehindNext
  <2>9. ASSUME NEW i \in 1..(Len(wire) + 1) PROVE wire'[i].seq = Behind(sequence', Len(wire') - i)
    <3>1. CASE i = Len(wire) + 1
      <4>1. Len(wire') - i = 0 /\ sequence' \in 0..(SequenceMod - 1)
        <5>1. Len(wire) \in Nat /\ sequence \in 0..(SequenceMod - 1)
          BY Lengths
        <5>2. Len(wire') - i = 0
          BY <2>2, <3>1, <5>1
        <5>3. sequence' \in 0..(SequenceMod - 1)
          BY <2>1, <5>1, Consts
        <5> QED BY <5>2, <5>3
      <4> QED BY <2>2, <2>3, <3>1, <4>1, BehindSelf, Consts
    <3>2. CASE i \in 1..Len(wire)
      <4>1. Len(wire) - i \in 0..(SequenceMod - 2) /\ Len(wire') - i = (Len(wire) - i) + 1
        BY <2>2, <2>4, <3>2, Lengths, Consts DEF InFlight
      <4>2. wire'[i].seq = Behind(sequence, Len(wire) - i)
        BY <2>2, <2>7, <3>2
      <4> QED BY <2>1, <4>1, <4>2, Lengths, BehindNext
    <3> QED BY <3>1, <3>2, Lengths
  <2>10. Due' <= InFlight' /\ InFlight' <= faults' + Due'
    BY <1>1, <2>4, Lengths
  <2>11. ~wire'[Len(wire')].late
    BY <2>2, <2>3
  <2>12. InOrder'
    BY <1>1, <1>2, <2>2, <2>5, <2>8, <2>9, <2>10, <2>11 DEF InOrder
  <2>13. InSync' => InSync
    BY <1>2, <2>4, Lengths DEF InSync
  <2> QED BY <2>12, <2>13
<1>3. CASE ~link
  <2>1. wire' = wire /\ awaiting' = FALSE
    BY <1>3, SendTyped DEF Finish, FinishWith
  <2> QED BY <1>1, <1>3, <2>1 DEF InOrder, InSync
<1> QED BY <1>2, <1>3

LEMMA RecvInOrder ==
  ASSUME Typed, InOrder, Recv
  PROVE  InOrder' /\ (InSync' => InSync)
<1>1. /\ awaiting /\ inbox # <<>> /\ inbox' = Tail(inbox) /\ awaiting' = FALSE
      /\ sequence' = sequence /\ wire' = wire /\ link' = link /\ faults' = faults
  BY RecvOutcome DEF Finish, FinishWith, Goes, Stays
<1>2. /\ Len(inbox') = Len(inbox) - 1 /\ DOMAIN inbox' = 1..(Len(inbox) - 1)
      /\ \A i \in 1..(Len(inbox) - 1) : inbox'[i] = inbox[i + 1]
  <2>1. Tail(inbox) \in Seq(Replies) /\ Len(Tail(inbox)) = Len(inbox) - 1
        /\ \A i \in 1..Len(Tail(inbox)) : Tail(inbox)[i] = inbox[i + 1]
    BY <1>1, Lengths, HeadTailProperties
  <2> QED BY <1>1, <2>1, LenProperties
<1>3. Due = 1 /\ Due' = 0 /\ InFlight' = InFlight - 1
  BY <1>1, <1>2, Lengths DEF Due, InFlight
<1>4. CASE link
  <2>1. InFlight <= faults + 1 /\ 1 <= InFlight
    BY <1>3, <1>4 DEF InOrder
  <2>2. ASSUME NEW i \in 1..(Len(inbox) - 1) PROVE inbox'[i].of.seq = Behind(sequence', InFlight' - i)
    <3>1. i + 1 \in 1..Len(inbox) /\ InFlight - (i + 1) = InFlight' - i
      BY <1>3, Lengths
    <3>2. inbox[i + 1].of.seq = Behind(sequence, InFlight - (i + 1))
      BY <1>4, <3>1, Lengths DEF InOrder
    <3> QED BY <1>1, <1>2, <3>1, <3>2
  <2>3. InOrder'
    BY <1>1, <1>2, <1>3, <1>4, <2>1, <2>2, Lengths DEF InOrder
  <2>4. InSync' => InSync
    BY <1>3, <1>4, Lengths DEF InSync
  <2> QED BY <2>3, <2>4
<1>5. CASE ~link
  BY <1>1, <1>5 DEF InOrder, InSync
<1> QED BY <1>4, <1>5

LEMMA TimeoutInOrder ==
  ASSUME Typed, InOrder, ReplyTimeout
  PROVE  InOrder' /\ ~InSync'
<1>1. /\ awaiting /\ inbox = <<>> /\ link /\ faults' = faults + 1 /\ inbox' = inbox
      /\ sequence' = sequence /\ link' = link /\ awaiting' = FALSE
      /\ Len(wire') = Len(wire) /\ wire' \in Seq(Frames)
      /\ \A i \in 1..Len(wire) : wire'[i].seq = wire[i].seq
  BY TimeoutTyped DEF Finish, FinishWith, Typed, TypeOK
<1>2. Due = 1 /\ Due' = 0 /\ InFlight' = InFlight /\ 1 <= InFlight /\ InFlight <= faults + 1
  BY <1>1, Lengths DEF Due, InFlight, InOrder
<1>3. DOMAIN wire' = 1..Len(wire) /\ DOMAIN inbox' = {}
  BY <1>1, LenProperties, Lengths
<1>4. \A i \in 1..Len(wire) : wire[i].seq = Behind(sequence, Len(wire) - i)
  BY <1>1, Lengths DEF InOrder
<1>5. InOrder'
  BY <1>1, <1>2, <1>3, <1>4, Lengths DEF InOrder
<1> QED BY <1>2, <1>5, Lengths DEF InSync

LEMMA DisconnectedInOrder ==
  ASSUME Typed, InOrder, Disconnected
  PROVE  InOrder' /\ ~InSync'
<1>1. /\ ~link /\ inbox' = inbox /\ wire' = wire /\ link' = link /\ faults' = faults
      /\ awaiting' = FALSE
  BY DisconnectedTyped DEF Finish, FinishWith
<1> QED BY <1>1 DEF InOrder, InSync

LEMMA ServesInOrder ==
  ASSUME Typed, InOrder, BrokerServes
  PROVE  /\ InOrder' /\ (InSync' => InSync)
         /\ inbox' # <<>> /\ Len(wire') = Len(wire) - 1
         /\ inbox = <<>> => \E o \in Outcomes(Head(wire)) :
                              gimbal' = o.g /\ Head(inbox') = Replied(Head(wire), o.status, o.g)
<1>1. /\ link /\ wire # <<>> /\ wire' = Tail(wire)
      /\ awaiting' = awaiting /\ sequence' = sequence /\ link' = link /\ faults' = faults
  BY ServesTyped
<1>2. PICK o \in Outcomes(Head(wire)) :
        gimbal' = o.g /\ inbox' = Append(inbox, Replied(Head(wire), o.status, o.g))
  BY ServesTyped
<1> DEFINE r == Replied(Head(wire), o.status, o.g)
<1>3. r \in Replies /\ r.of = wire[1]
  BY <1>1, ServesTyped, Lengths DEF Replied
<1> HIDE DEF r
<1>4. /\ inbox' \in Seq(Replies) /\ Len(inbox') = Len(inbox) + 1 /\ inbox'[Len(inbox) + 1] = r
      /\ \A i \in 1..Len(inbox) : inbox'[i] = inbox[i]
      /\ inbox' # <<>>
  BY <1>2, <1>3, AppendProperties, Lengths DEF r
<1>5. /\ wire' \in Seq(Frames) /\ Len(wire') = Len(wire) - 1
      /\ \A i \in 1..(Len(wire) - 1) : wire'[i] = wire[i + 1]
  BY <1>1, HeadTailProperties, Lengths
<1>6. DOMAIN inbox' = 1..(Len(inbox) + 1) /\ DOMAIN wire' = 1..(Len(wire) - 1)
  BY <1>4, <1>5, LenProperties
<1>7. InFlight' = InFlight /\ Due' = Due /\ Len(wire) > 0 /\ InFlight = Len(inbox) + Len(wire)
  BY <1>1, <1>4, <1>5, Lengths DEF InFlight, Due
<1>8. \A i \in 1..Len(inbox) : inbox[i].of.seq = Behind(sequence, InFlight - i)
  BY <1>1, Lengths DEF InOrder
<1>9. \A i \in 1..Len(wire) : wire[i].seq = Behind(sequence, Len(wire) - i)
  BY <1>1, Lengths DEF InOrder
<1>10. ASSUME NEW i \in 1..(Len(inbox) + 1) PROVE inbox'[i].of.seq = Behind(sequence', InFlight' - i)
  <2>1. CASE i \in 1..Len(inbox)
    BY <1>1, <1>4, <1>7, <1>8, <2>1
  <2>2. CASE i = Len(inbox) + 1
    <3>1. InFlight' - i = Len(wire) - 1 /\ 1 \in 1..Len(wire)
      BY <1>7, <2>2, Lengths
    <3> QED BY <1>1, <1>3, <1>4, <1>9, <2>2, <3>1
  <2> QED BY <2>1, <2>2, Lengths
<1>11. ASSUME NEW i \in 1..(Len(wire) - 1) PROVE wire'[i].seq = Behind(sequence', Len(wire') - i)
  <2>1. i + 1 \in 1..Len(wire) /\ Len(wire) - (i + 1) = Len(wire') - i
    BY <1>5, <1>7, Lengths
  <2> QED BY <1>1, <1>5, <1>9, <2>1
<1>12. awaiting => IF wire' # <<>> THEN ~wire'[Len(wire')].late ELSE ~inbox'[Len(inbox')].of.late
  <2> SUFFICES ASSUME awaiting
               PROVE  IF wire' # <<>> THEN ~wire'[Len(wire')].late ELSE ~inbox'[Len(inbox')].of.late
    OBVIOUS
  <2>1. ~wire[Len(wire)].late
    BY <1>1 DEF InOrder
  <2>2. CASE wire' # <<>>
    <3>1. Len(wire') \in 1..(Len(wire) - 1) /\ Len(wire') + 1 = Len(wire)
      BY <1>5, <1>7, <2>2, Lengths, EmptySeq
    <3> QED BY <1>5, <2>1, <2>2, <3>1
  <2>3. CASE wire' = <<>>
    <3>1. Len(wire) = 1
      BY <1>5, <2>3, Lengths
    <3> QED BY <1>3, <1>4, <2>1, <2>3, <3>1
  <2> QED BY <2>2, <2>3
<1>13. InOrder'
  BY <1>1, <1>6, <1>7, <1>10, <1>11, <1>12 DEF InOrder
<1>14. InSync' => InSync
  BY <1>1, <1>7 DEF InSync
<1>15. inbox = <<>> => Head(inbox') = r
  BY <1>4, Lengths
<1> QED BY <1>2, <1>4, <1>5, <1>13, <1>14, <1>15 DEF r

LEMMA CutsInOrder ==
  ASSUME Typed, InOrder, BrokerCuts
  PROVE  InOrder' /\ ~InSync'
<1>1. /\ link /\ wire # <<>> /\ ~link' /\ wire' = <<>> /\ faults' = faults + 1
      /\ awaiting' = awaiting /\ sequence' = sequence /\ inbox' = inbox
  BY CutsTyped
<1>2. Len(wire) > 0 /\ InFlight = Len(inbox) + Len(wire) /\ faults' > 0
  BY <1>1, Lengths DEF InFlight
<1>3. ASSUME awaiting, NEW i \in 1..Len(inbox) PROVE inbox[i].of.seq # sequence
  <2>1. InFlight <= faults + 1 /\ inbox[i].of.seq = Behind(sequence, InFlight - i)
    BY <1>1, <1>3, Lengths DEF InOrder, Due
  <2>2. InFlight - i \in 0..(SequenceMod - 1) /\ InFlight - i # 0
    BY <1>2, <2>1, Lengths, Consts
  <2> QED BY <2>1, <2>2, BehindSelf, Lengths
<1>4. InOrder'
  BY <1>1, <1>2, <1>3, Lengths DEF InOrder
<1> QED BY <1>1, <1>4 DEF InSync

-----------------------------------------------------------------------------
(* What the daemon knows of the gimbal while nothing is late or lost. *)

\* What a reply in sync is worth.
Facts == DueFrame /\ Snapshot /\ TargetTaken /\ UnsafeIsHandled /\ EndedIsOff

LEMMA NoFaultInSync ==
  ASSUME Typed, InOrder, faults = 0
  PROVE  InSync
BY Lengths DEF InOrder, InSync

LEMMA CommandOfStage ==
  /\ CommandOf(stage) = "enable" => stage = "enable"
  /\ stage = "unsafe" => CommandOf(stage) = "estop"
  /\ stage = "wait" => CommandOf(stage) = "status"
  /\ stage = "set" => CommandOf(stage) = "set"
  /\ CommandOf(stage) = "set" => stage = "set"
  /\ stage = "endDisable" => CommandOf(stage) = "disable"
  /\ stage = "endStop" => CommandOf(stage) = "estop"
BY DEF CommandOf

\* The connections change, not the transaction.
LEMMA UntouchedFacts ==
  ASSUME InOrder, Facts, UNCHANGED <<stage, awaiting, sequence, wire, inbox, link, faults, gimbal>>,
         job'.yaw = job.yaw, pc' = pc
  PROVE  Facts'
<1>1. /\ stage' = stage /\ wire' = wire /\ inbox' = inbox /\ gimbal' = gimbal /\ faults' = faults
  OBVIOUS
<1>2. InSync' => InSync
  BY UntouchedInOrder
<1>3. DueFrame'
  BY <1>1, <1>2 DEF Facts, DueFrame, CommandOf
<1>4. Snapshot'
  BY <1>1, <1>2 DEF Facts, Snapshot, Here, CommandOf
<1>5. TargetTaken'
  BY <1>1, <1>2 DEF Facts, TargetTaken, Here
<1>6. UnsafeIsHandled' /\ EndedIsOff'
  BY <1>1 DEF Facts, UnsafeIsHandled, Here, EndedIsOff
<1> QED BY <1>3, <1>4, <1>5, <1>6 DEF Facts

\* Between two transactions nothing is in flight.
LEMMA IdleFacts ==
  ASSUME Typed', ~awaiting', stage' # "wait"
  PROVE  DueFrame' /\ Snapshot' /\ TargetTaken'
<1>1. InSync' => inbox' = <<>> /\ wire' = <<>>
  <2> SUFFICES ASSUME InSync' PROVE inbox' = <<>> /\ wire' = <<>>
    OBVIOUS
  <2>1. Len(inbox') + Len(wire') = 0
    BY DEF InSync, InFlight, Due
  <2>2. inbox' \in Seq(Replies) /\ wire' \in Seq(Frames)
    BY DEF Typed, TypeOK, Replies
  <2>3. /\ Len(inbox') \in Nat /\ Len(wire') \in Nat
        /\ inbox' # <<>> => Len(inbox') # 0
        /\ wire' # <<>> => Len(wire') # 0
    BY <2>2, EmptySeq, LenProperties
  <2> QED BY <2>1, <2>3
<1> QED BY <1>1 DEF DueFrame, Snapshot, TargetTaken

\* A request or the end of the daemon begins.
LEMMA BeginFacts ==
  ASSUME Typed, Facts, Typed', stage = "none", ~awaiting', stage' # "wait", pc' # "ended",
         gimbal' = gimbal, faults' = faults
  PROVE  Facts'
<1>1. DueFrame' /\ Snapshot' /\ TargetTaken'
  BY IdleFacts
<1>2. UnsafeIsHandled'
  BY DEF Facts, UnsafeIsHandled
<1>3. EndedIsOff'
  BY DEF EndedIsOff
<1> QED BY <1>1, <1>2, <1>3 DEF Facts

\* Out of step with its frames, the daemon knows nothing.
LEMMA LostFacts ==
  ASSUME ~InSync', faults' # 0
  PROVE  Facts'
BY DEF Facts, DueFrame, Snapshot, TargetTaken, UnsafeIsHandled, EndedIsOff

LEMMA SendFacts ==
  ASSUME Typed, InOrder, Facts, Send
  PROVE  Facts'
<1>1. ~awaiting /\ inbox' = inbox /\ link' = link /\ faults' = faults /\ gimbal' = gimbal
  BY DEF Send, faultVars
<1>2. InOrder' /\ (InSync' => InSync)
  BY SendInOrder
<1>3. CASE link
  <2> DEFINE f == [cmd |-> CommandOf(stage), seq |-> sequence', yaw |-> job.yaw, late |-> FALSE]
  <2>1. /\ f \in Frames /\ wire' = Append(wire, f) /\ stage' = stage /\ job' = job /\ pc' = pc
    BY <1>3, SendTyped
  <2>2. f.cmd = CommandOf(stage) /\ f.yaw = job.yaw
    OBVIOUS
  <2> HIDE DEF f
  <2>3. ASSUME InSync' PROVE inbox' = <<>> /\ Head(wire') = f
    <3>1. inbox = <<>> /\ wire = <<>>
      BY <1>1, <1>2, <2>3, SyncIsOne
    <3> QED BY <1>1, <2>1, <3>1
  <2>4. DueFrame' /\ Snapshot'
    BY <2>1, <2>2, <2>3 DEF DueFrame, Snapshot, CommandOf
  <2>5. TargetTaken'
    BY <1>1, <1>2, <2>1, <2>3 DEF Facts, TargetTaken
  <2>6. UnsafeIsHandled'
    <3>1. faults = 0 => inbox = <<>>
      BY <1>1, NoFaultInSync, SyncIsOne
    <3> QED BY <1>1, <2>1, <3>1 DEF Facts, UnsafeIsHandled
  <2>7. EndedIsOff'
    BY <1>1, <2>1 DEF Facts, EndedIsOff
  <2> QED BY <2>4, <2>5, <2>6, <2>7 DEF Facts
<1>4. CASE ~link
  <2>1. ~InSync' /\ faults' # 0
    BY <1>1, <1>4, Lengths DEF InSync, InOrder
  <2> QED BY <2>1, LostFacts
<1> QED BY <1>3, <1>4

LEMMA RecvFacts ==
  ASSUME Typed, InOrder, Facts, Recv
  PROVE  Facts'
<1>1. /\ awaiting /\ pc = "handle" /\ inbox # <<>>
      /\ faults' = faults /\ gimbal' = gimbal /\ inbox' = Tail(inbox) /\ wire' = wire
      /\ \/ ~OwnReply(Head(inbox)) /\ Finish("error")
         \/ /\ OwnReply(Head(inbox))
            /\ \/ \E told \in Answers : FinishWith(told) /\ Verdict(Here, told)
               \/ Goes(Here) /\ Bounded
  BY RecvOutcome DEF Here
<1>2. Typed' /\ InOrder' /\ (InSync' => InSync)
  BY RecvTyped, RecvInOrder
<1>3. CASE ~OwnReply(Head(inbox)) /\ Finish("error")
  <2>1. ~InSync
    BY <1>1, <1>3, SyncIsOwn DEF Facts
  <2>2. faults' # 0
    BY <1>1, <2>1, NoFaultInSync
  <2> QED BY <1>2, <2>1, <2>2, LostFacts
<1>4. ASSUME OwnReply(Head(inbox)), NEW told \in Answers, FinishWith(told), Verdict(Here, told)
      PROVE  Facts'
  <2>1. /\ awaiting' = FALSE /\ stage' = "none"
        /\ pc' = "ended" => stage \in Ending
    BY <1>4 DEF FinishWith, Ending
  <2>2. DueFrame' /\ Snapshot' /\ TargetTaken'
    BY <1>2, <2>1, IdleFacts
  <2>3. InSync
    BY <1>1, <1>4, OwnIsDue
  <2>4. /\ Here.state \in Stopped => gimbal.state \in Stopped
        /\ CommandOf(stage) = "estop" => gimbal.state = "disabled"
        /\ CommandOf(stage) = "disable" => gimbal.state \notin Moving
    BY <1>1, <2>3 DEF Facts, Snapshot
  <2>5. UnsafeIsHandled'
    <3>1. ~(faults = 0 /\ gimbal.state \in Moving /\ gimbal.startup = "unsafe")
      <4> SUFFICES ASSUME faults = 0, gimbal.state \in Moving, gimbal.startup = "unsafe"
                   PROVE  FALSE
        OBVIOUS
      <4>1. \/ stage = "unsafe"
            \/ stage = "enable" /\ Here.status = "ok" /\ Here.startup = "unsafe"
        BY DEF Facts, UnsafeIsHandled
      <4>2. stage # "unsafe"
        BY <2>4, CommandOfStage DEF Moving
      <4> QED BY <1>4, <4>1, <4>2 DEF Verdict
    <3> QED BY <1>1, <3>1 DEF UnsafeIsHandled
  <2>6. EndedIsOff'
    <3> SUFFICES ASSUME pc' = "ended" PROVE gimbal.state \notin Moving
      BY <1>1 DEF EndedIsOff
    <3>1. stage \in {"endStatus", "endDisable", "endStop"}
      BY <2>1 DEF Ending
    <3>2. CASE stage = "endStatus"
      BY <1>4, <2>4, <3>2 DEF Verdict, Stopped, Moving
    <3>3. CASE stage = "endDisable"
      BY <2>4, <3>3, CommandOfStage
    <3>4. CASE stage = "endStop"
      BY <2>4, <3>4, CommandOfStage DEF Moving
    <3> QED BY <3>1, <3>2, <3>3, <3>4
  <2> QED BY <2>2, <2>5, <2>6 DEF Facts
<1>5. ASSUME OwnReply(Head(inbox)), Goes(Here) PROVE Facts'
  <2>1. InSync
    BY <1>1, <1>5, OwnIsDue
  <2>2. awaiting' = FALSE /\ pc' = pc /\ job' = job
    BY <1>5 DEF Goes, Stays
  <2>3. CASE stage' # "wait"
    <3>1. DueFrame' /\ Snapshot' /\ TargetTaken'
      BY <1>2, <2>2, <2>3, IdleFacts
    <3>2. UnsafeIsHandled'
      <4>1. stage = "enable" /\ Here.status = "ok" => stage' = "unsafe"
        BY <1>5 DEF Goes, Stays
      <4>2. stage # "unsafe"
        BY <1>5 DEF Goes
      <4> QED BY <1>1, <4>1, <4>2 DEF Facts, UnsafeIsHandled
    <3>3. EndedIsOff'
      BY <1>1, <2>2 DEF EndedIsOff
    <3> QED BY <3>1, <3>2, <3>3 DEF Facts
  <2>4. CASE stage' = "wait"
    <3>1. stage = "wait" \/ (stage = "set" /\ Here.status = "ok")
      BY <1>5, <2>4 DEF Goes, Stays
    <3>2. gimbal'.state \in {"active", "fault"} /\ gimbal'.goal = job'.yaw
      BY <1>1, <2>1, <2>2, <3>1 DEF Facts, TargetTaken
    <3>3. InSync' => inbox' = <<>> /\ wire' = <<>>
      <4>1. Len(inbox) = 1 /\ wire = <<>>
        BY <1>1, <1>5, OwnIsDue
      <4>2. Tail(inbox) \in Seq(Replies) /\ Len(Tail(inbox)) = 0
        BY <1>1, <4>1, Lengths, HeadTailProperties
      <4> QED BY <1>1, <4>1, <4>2, EmptySeq
    <3>4. DueFrame' /\ Snapshot' /\ TargetTaken'
      BY <3>2, <3>3 DEF DueFrame, Snapshot, TargetTaken
    <3>5. UnsafeIsHandled'
      BY <1>1, <3>1 DEF Facts, UnsafeIsHandled
    <3>6. EndedIsOff'
      BY <1>1, <2>2 DEF EndedIsOff
    <3> QED BY <3>4, <3>5, <3>6 DEF Facts
  <2> QED BY <2>3, <2>4
<1> QED BY <1>1, <1>3, <1>4, <1>5

LEMMA ServesFacts ==
  ASSUME Typed, InOrder, Facts, BrokerServes
  PROVE  Facts'
<1>1. /\ link /\ wire # <<>> /\ pc' = pc /\ stage' = stage /\ job' = job /\ faults' = faults
      /\ awaiting' = awaiting /\ Head(wire) \in Frames
  BY ServesTyped
<1>2. /\ InSync' => InSync
      /\ inbox' # <<>>
      /\ inbox = <<>> => \E o \in Outcomes(Head(wire)) :
                           gimbal' = o.g /\ Head(inbox') = Replied(Head(wire), o.status, o.g)
  BY ServesInOrder
<1>3. CASE InSync
  <2>1. inbox = <<>> /\ awaiting /\ Len(wire) = 1
    BY <1>1, <1>3, SyncIsOne
  <2>2. PICK o \in Outcomes(Head(wire)) :
           gimbal' = o.g /\ Head(inbox') = Replied(Head(wire), o.status, o.g)
    BY <1>2, <2>1
  <2> DEFINE f == Head(wire)
  <2>3. f.cmd = CommandOf(stage) /\ f.yaw = job.yaw
    BY <1>1, <1>3 DEF Facts, DueFrame
  <2>4. /\ Head(inbox').of = f /\ Here' = Head(inbox').tel /\ Here'.status = o.status
        /\ Here'.state = gimbal'.state /\ Here'.startup = gimbal'.startup /\ Here'.yaw = gimbal'.yaw
    BY <2>2 DEF Replied, Here
  <2>5. /\ gimbal'.yaw = gimbal.yaw
        /\ gimbal'.startup # gimbal.startup => f.cmd = "enable"
        /\ f.cmd \in {"status", "limits"} => gimbal' = gimbal
        /\ f.cmd = "estop" => gimbal'.state = "disabled"
        /\ f.cmd = "disable" => gimbal'.state \in {"returning", "disabled"}
        /\ f.cmd = "enable" => \/ gimbal' = gimbal /\ o.status # "ok"
                               \/ gimbal'.state = "homing" /\ o.status = "ok"
        /\ f.cmd = "set" => \/ gimbal' = gimbal /\ o.status # "ok"
                            \/ /\ gimbal.state = "active" /\ gimbal'.state = "active"
                               /\ gimbal'.goal = f.yaw
    BY <1>1, <2>2, OutcomeIs
  <2> HIDE DEF f
  <2>6. CommandOf(stage)' = CommandOf(stage) /\ Head(inbox').of.cmd = CommandOf(stage)
        /\ wire' = <<>>
    <3>1. Len(wire') = 0 /\ wire' \in Seq(Frames)
      BY <2>1, ServesInOrder, ServesTyped
    <3> QED BY <1>1, <2>3, <2>4, <3>1, EmptySeq DEF CommandOf
  <2>7. DueFrame'
    BY <2>6 DEF DueFrame
  <2>8. Snapshot'
    BY <1>2, <2>3, <2>4, <2>5, <2>6 DEF Snapshot, Stopped, Moving
  <2>9. TargetTaken'
    <3>1. stage = "wait" => gimbal' = gimbal
      BY <2>3, <2>5, CommandOfStage
    <3>2. stage = "set" /\ Here'.status = "ok" => gimbal'.state = "active" /\ gimbal'.goal = job.yaw
      BY <2>3, <2>4, <2>5, CommandOfStage
    <3>3. stage = "wait" => gimbal.state \in {"active", "fault"} /\ gimbal.goal = job.yaw
      BY <1>3 DEF Facts, TargetTaken
    <3> QED BY <1>1, <2>4, <3>1, <3>2, <3>3 DEF TargetTaken
  <2>10. UnsafeIsHandled'
    <3> SUFFICES ASSUME faults = 0, gimbal'.state \in Moving, gimbal'.startup = "unsafe"
                 PROVE  \/ stage = "unsafe"
                        \/ stage = "enable" /\ Here'.status = "ok" /\ Here'.startup = "unsafe"
      BY <1>1, <1>2 DEF UnsafeIsHandled
    <3>1. gimbal.state \in Moving /\ gimbal.startup = "unsafe" => stage = "unsafe"
      BY <2>1 DEF Facts, UnsafeIsHandled
    <3>2. CASE f.cmd = "enable"
      BY <2>3, <2>4, <2>5, <3>1, <3>2, CommandOfStage
    <3>3. CASE f.cmd # "enable"
      <4>1. f.cmd \in {"limits", "status", "disable", "estop", "set"}
        BY <1>1, <3>3 DEF Frames, f
      <4> QED BY <2>5, <3>1, <3>3, <4>1 DEF Moving
    <3> QED BY <3>2, <3>3
  <2>11. EndedIsOff'
    BY <1>1, <2>1 DEF EndedIsOff, Typed, Control
  <2> QED BY <2>7, <2>8, <2>9, <2>10, <2>11 DEF Facts
<1>4. CASE ~InSync
  <2>1. faults' # 0
    BY <1>1, <1>4, NoFaultInSync
  <2> QED BY <1>2, <1>4, <2>1, LostFacts
<1> QED BY <1>3, <1>4

LEMMA MovesFacts ==
  ASSUME Typed, InOrder, Facts, GimbalMoves
  PROVE  Facts'
<1>1. /\ UNCHANGED <<stage, awaiting, sequence, wire, inbox, link, faults>> /\ pc' = pc /\ job' = job
      /\ gimbal'.startup = gimbal.startup /\ gimbal'.goal = gimbal.goal
      /\ \/ gimbal.state = "homing" /\ gimbal'.state = "active" /\ gimbal'.yaw = 0
         \/ gimbal.state = "active" /\ gimbal'.state = "active" /\ gimbal'.yaw = gimbal.goal
         \/ gimbal.state = "returning" /\ gimbal'.state = "disabled"
         \/ /\ gimbal.state \in Moving \cup {"returning"} /\ gimbal'.state = "fault"
            /\ gimbal'.yaw = gimbal.yaw
  BY MovesTyped
<1>2. InSync' => InSync
  BY <1>1, UntouchedInOrder
<1>3. stage' = stage /\ inbox' = inbox /\ wire' = wire /\ Here' = Here /\ faults' = faults
      /\ CommandOf(stage)' = CommandOf(stage)
  BY <1>1 DEF Here, CommandOf
<1>4. DueFrame'
  BY <1>1, <1>2, <1>3 DEF Facts, DueFrame
<1>5. Snapshot'
  BY <1>1, <1>2, <1>3 DEF Facts, Snapshot, Stopped, Moving
<1>6. TargetTaken'
  BY <1>1, <1>2, <1>3 DEF Facts, TargetTaken, Moving
<1>7. gimbal'.state \in Moving => gimbal.state \in Moving
  BY <1>1 DEF Moving
<1>8. UnsafeIsHandled' /\ EndedIsOff'
  BY <1>1, <1>3, <1>7 DEF Facts, UnsafeIsHandled, EndedIsOff
<1> QED BY <1>4, <1>5, <1>6, <1>8 DEF Facts

-----------------------------------------------------------------------------
(* The daemon among its clients. *)

\* The inductive invariant of the daemon.
DaemonInv == Typed /\ InOrder /\ Facts

LEMMA UntouchedDaemon ==
  ASSUME DaemonInv, Typed',
         UNCHANGED <<pc, stage, awaiting, sequence, wire, inbox, link, faults, gimbal>>,
         job'.yaw = job.yaw
  PROVE  DaemonInv'
BY UntouchedInOrder, UntouchedFacts DEF DaemonInv

LEMMA ConnectDaemon ==
  ASSUME DaemonInv, NEW c \in Client, NEW r \in Requests, NEW sent \in BOOLEAN, Connect(c, r, sent)
  PROVE  DaemonInv'
BY ConnectTyped, UntouchedDaemon DEF DaemonInv, Connect, daemonVars, faultVars

LEMMA SpeakDaemon ==
  ASSUME DaemonInv, NEW c \in Client, Speak(c) PROVE DaemonInv'
BY SpeakTyped, UntouchedDaemon DEF DaemonInv, Speak, faultVars

LEMMA GiveUpDaemon ==
  ASSUME DaemonInv, NEW c \in Client, GiveUp(c) PROVE DaemonInv'
BY GiveUpTyped, UntouchedDaemon DEF DaemonInv, GiveUp, faultVars

LEMMA HeardDaemon ==
  ASSUME DaemonInv, Heard PROVE DaemonInv'
<1>1. answer' \in [Listener -> Answers]
  BY ToldIsAnswer DEF DaemonInv, Typed, TypeOK, Heard
<1>2. Typed'
  BY <1>1 DEF DaemonInv, Typed, TypeOK, Control, Heard, daemonVars, faultVars
<1> QED BY <1>2, UntouchedDaemon DEF Heard, daemonVars, faultVars

LEMMA DaemonKeepsDaemon ==
  ASSUME DaemonInv, Daemon \/ Environment PROVE DaemonInv'
<1>1. CASE AcceptClient
  <2>1. Typed' /\ UNCHANGED <<awaiting, sequence, wire, inbox, link, faults>>
    BY <1>1, AcceptTyped DEF DaemonInv, AcceptClient, faultVars
  <2>2. /\ stage = "none" /\ ~awaiting' /\ stage' # "wait" /\ pc' # "ended"
        /\ gimbal' = gimbal /\ faults' = faults
    BY <1>1 DEF DaemonInv, Typed, Control, AcceptClient, faultVars
  <2> QED BY <2>1, <2>2, UntouchedInOrder, BeginFacts DEF DaemonInv
<1>2. CASE Receive
  <2>1. Typed' /\ UNCHANGED <<awaiting, sequence, wire, inbox, link, faults>> /\ stage' # "wait"
    BY <1>2, ReceiveTyped DEF DaemonInv, Receive, faultVars
  <2>2. /\ stage = "none" /\ ~awaiting' /\ pc' # "ended"
        /\ gimbal' = gimbal /\ faults' = faults
    BY <1>2 DEF DaemonInv, Typed, Control, Receive, faultVars
  <2> QED BY <2>1, <2>2, UntouchedInOrder, BeginFacts DEF DaemonInv
<1>3. CASE Shutdown
  <2>1. Typed' /\ UNCHANGED <<awaiting, sequence, wire, inbox, link, faults>> /\ stage' # "wait"
    BY <1>3, ShutdownTyped DEF DaemonInv, Shutdown, faultVars
  <2>2. /\ stage = "none" /\ ~awaiting' /\ pc' # "ended"
        /\ gimbal' = gimbal /\ faults' = faults
    BY <1>3 DEF DaemonInv, Typed, Control, Shutdown, faultVars
  <2> QED BY <2>1, <2>2, UntouchedInOrder, BeginFacts DEF DaemonInv
<1>4. CASE Send
  BY <1>4, SendTyped, SendInOrder, SendFacts DEF DaemonInv
<1>5. CASE Recv
  BY <1>5, RecvTyped, RecvInOrder, RecvFacts DEF DaemonInv
<1>6. CASE ReplyTimeout
  <2>1. Typed' /\ InOrder' /\ ~InSync' /\ faults' = faults + 1
    BY <1>6, TimeoutTyped, TimeoutInOrder DEF DaemonInv
  <2>2. faults' # 0
    BY <2>1, Lengths DEF DaemonInv
  <2> QED BY <2>1, <2>2, LostFacts DEF DaemonInv
<1>7. CASE Disconnected
  <2>1. Typed' /\ InOrder' /\ ~InSync' /\ ~link /\ faults' = faults
    BY <1>7, DisconnectedTyped, DisconnectedInOrder DEF DaemonInv
  <2>2. faults' # 0
    BY <2>1, Lengths DEF DaemonInv, InOrder
  <2> QED BY <2>1, <2>2, LostFacts DEF DaemonInv
<1>8. CASE BrokerServes
  BY <1>8, ServesTyped, ServesInOrder, ServesFacts DEF DaemonInv
<1>9. CASE BrokerCuts
  <2>1. Typed' /\ InOrder' /\ ~InSync' /\ faults' = faults + 1
    BY <1>9, CutsTyped, CutsInOrder DEF DaemonInv
  <2>2. faults' # 0
    BY <2>1, Lengths DEF DaemonInv
  <2> QED BY <2>1, <2>2, LostFacts DEF DaemonInv
<1>10. CASE GimbalMoves
  BY <1>10, MovesTyped, MovesFacts, UntouchedInOrder DEF DaemonInv
<1> QED BY <1>1, <1>2, <1>3, <1>4, <1>5, <1>6, <1>7, <1>8, <1>9, <1>10
        DEF Daemon, Serving, Environment

\* A voice program connects, hears its answer, gives up, or leaves the daemon alone.
Calling(r) == Connect(Voice, r, TRUE)

LEMMA VoiceCalls ==
  ASSUME Typed, voice \in VoiceState, VoiceStep
  PROVE  \/ \E r \in Requests : Calling(r)
         \/ Heard \/ GiveUp(Voice) \/ UNCHANGED vars
<1>1. ASSUME NEW cmd \in Commands, NEW y \in Yaw, Ask(cmd, y)
      PROVE  \E r \in Requests : Calling(r)
  <2>1. [cmd |-> cmd, yaw |-> y] \in Requests
    BY DEF Requests
  <2> QED BY <1>1, <2>1 DEF Ask, Calling
<1>2. "status" \in Commands /\ "set" \in Commands /\ Single \subseteq Commands /\ 0 \in Yaw
  BY Consts DEF Commands, Single
<1>3. CASE \E p \in Single \cup Moves : Hear(p)
  BY <1>1, <1>2, <1>3 DEF Hear
<1>4. CASE CallAnswered \/ ConfirmAnswered
  BY <1>4 DEF CallAnswered, ConfirmAnswered, Reached, Failed
<1>5. CASE StatusAnswered
  BY <1>1, <1>2, <1>5 DEF StatusAnswered
<1>6. CASE NextTarget
  <2>1. voice.plan \in Seq(Yaw)
    BY DEF VoiceState
  <2>2. voice.plan # <<>> => Head(voice.plan) \in Yaw
    BY <2>1, HeadTailProperties
  <2>3. UNCHANGED vars \/ (voice.plan # <<>> /\ Ask("set", Head(voice.plan))) \/ Ask("set", 0)
    BY <1>6 DEF NextTarget
  <2> QED BY <1>1, <1>2, <2>2, <2>3
<1>7. CASE SetAnswered
  BY <1>1, <1>2, <1>7 DEF SetAnswered, Reached, Failed
<1>8. CASE CallTimeout
  BY <1>8 DEF CallTimeout
<1>9. CASE CallRefused
  BY <1>9 DEF CallRefused
<1> QED BY <1>3, <1>4, <1>5, <1>6, <1>7, <1>8, <1>9 DEF VoiceStep

LEMMA ClampYaw ==
  ASSUME NEW y \in Int PROVE Clamp(y) \in Yaw
BY Consts DEF Clamp, Yaw

LEMMA TargetsYaw ==
  ASSUME NEW p, NEW yaw \in Yaw PROVE Targets(p, yaw) \subseteq Yaw
<1>1. yaw \in Int /\ \A y \in Yaw : y \in Int
  BY Consts
<1>2. \A d \in {-1, 0, 1} : Clamp(yaw + d) \in Yaw
  BY <1>1, ClampYaw
<1>3. StepTargets(yaw) \subseteq Yaw /\ AlignTargets(yaw) \subseteq Yaw
  BY <1>2 DEF StepTargets, AlignTargets
<1>4. LookTargets \subseteq Yaw
  BY <1>1, ClampYaw DEF LookTargets
<1> QED BY <1>3, <1>4 DEF Targets

LEMMA SayTyped ==
  ASSUME voice \in VoiceState, NEW result \in {"there", "ok", "error"}, Say(result)
  PROVE  voice' \in VoiceState
<1>1. <<>> \in Seq(Yaw) /\ 0 \in Yaw
  BY Consts, EmptySeq
<1> QED BY <1>1 DEF Say, Silent, VoiceState, Single

LEMMA VoiceTyped ==
  ASSUME Typed, voice \in VoiceState, VoiceStep
  PROVE  voice' \in VoiceState
<1>1. /\ <<>> \in Seq(Yaw) /\ 0 \in Yaw /\ answer[Voice] \in Answers
      /\ answer[Voice].yaw \in Yaw
      /\ answer[Voice].result \in {"none", "ok", "error"}
  BY Consts, EmptySeq, VoiceAssumption DEF Typed, TypeOK, Answers
<1>2. ASSUME NEW result \in {"there", "ok", "error"}, Say(result) PROVE voice' \in VoiceState
  BY <1>2, SayTyped
<1>3. CASE \E p \in Single \cup Moves : Hear(p)
  BY <1>1, <1>3 DEF Hear, VoiceState, Silent
<1>4. CASE CallAnswered
  BY <1>1, <1>2, <1>4 DEF CallAnswered
<1>5. CASE StatusAnswered
  <2>1. ASSUME NEW y \in Yaw, voice' = [voice EXCEPT !.phase = "next", !.plan = <<y>>, !.at = answer[Voice].yaw]
        PROVE  voice' \in VoiceState
    <3>1. <<y>> \in Seq(Yaw)
      OBVIOUS
    <3> QED BY <1>1, <2>1, <3>1 DEF VoiceState
  <2>2. ScanPlan(answer[Voice].yaw) \in Seq(Yaw)
    <3>1. Limit - Inset \in Yaw /\ -(Limit - Inset) \in Yaw
      BY Consts DEF Yaw
    <3> QED BY <1>1, <3>1 DEF ScanPlan
  <2>3. ASSUME voice' = [voice EXCEPT !.phase = "next", !.plan = ScanPlan(answer[Voice].yaw),
                                      !.at = answer[Voice].yaw]
        PROVE  voice' \in VoiceState
    BY <1>1, <2>2, <2>3 DEF VoiceState
  <2>4. Targets(voice.prog, answer[Voice].yaw) \subseteq Yaw
    BY <1>1, TargetsYaw
  <2>5. CASE voice' = voice
    BY <2>5
  <2>6. CASE ForwardTarget(answer[Voice].yaw)
    BY <1>1, <2>1, <2>6 DEF ForwardTarget
  <2>7. CASE \E y \in Targets(voice.prog, answer[Voice].yaw) :
               IF y = answer[Voice].yaw THEN Say("there")
               ELSE voice' = [voice EXCEPT !.phase = "next", !.plan = <<y>>, !.at = answer[Voice].yaw]
    <3>1. PICK y \in Targets(voice.prog, answer[Voice].yaw) :
               IF y = answer[Voice].yaw THEN Say("there")
               ELSE voice' = [voice EXCEPT !.phase = "next", !.plan = <<y>>, !.at = answer[Voice].yaw]
      BY <2>7
    <3>2. y \in Yaw
      BY <2>4
    <3> QED BY <1>2, <2>1, <3>1, <3>2
  <2>8. \/ Say("error")
        \/ UNCHANGED voice
        \/ voice' = [voice EXCEPT !.phase = "next", !.plan = ScanPlan(answer[Voice].yaw),
                                  !.at = answer[Voice].yaw]
        \/ ForwardTarget(answer[Voice].yaw)
        \/ \E y \in Targets(voice.prog, answer[Voice].yaw) :
               IF y = answer[Voice].yaw THEN Say("there")
               ELSE voice' = [voice EXCEPT !.phase = "next", !.plan = <<y>>, !.at = answer[Voice].yaw]
    BY <1>5 DEF StatusAnswered
  <2> QED BY <1>2, <2>3, <2>5, <2>6, <2>7, <2>8
<1>6. CASE NextTarget
  <2>1. voice.plan \in Seq(Yaw)
    BY DEF VoiceState
  <2>2. voice.plan # <<>> => Head(voice.plan) \in Yaw /\ Tail(voice.plan) \in Seq(Yaw)
    BY <2>1, HeadTailProperties
  <2>3. CASE voice.plan # <<>> /\ voice' = [voice EXCEPT !.plan = Tail(@)]
    BY <2>2, <2>3 DEF VoiceState
  <2>4. CASE voice.plan # <<>> /\ voice' = [voice EXCEPT !.phase = "set", !.goal = Head(voice.plan), !.plan = Tail(@)]
    BY <2>2, <2>4 DEF VoiceState
  <2>5. CASE voice' = [voice EXCEPT !.phase = "set", !.goal = 0, !.restoring = TRUE]
    BY <1>1, <2>5 DEF VoiceState
  <2> QED BY <1>2, <1>6, <2>3, <2>4, <2>5 DEF NextTarget
<1>7. ASSUME Reached \/ Failed PROVE voice' \in VoiceState
  BY <1>7 DEF Reached, Failed, VoiceState
<1>8. CASE SetAnswered
  <2>1. ASSUME voice' = [voice EXCEPT !.phase = "confirm"] PROVE voice' \in VoiceState
    BY <2>1 DEF VoiceState
  <2> QED BY <1>7, <1>8, <2>1 DEF SetAnswered
<1>9. CASE ConfirmAnswered
  BY <1>7, <1>9 DEF ConfirmAnswered
<1>10. CASE CallTimeout \/ CallRefused
  BY <1>2, <1>10 DEF CallTimeout, CallRefused
<1> QED BY <1>3, <1>4, <1>5, <1>6, <1>8, <1>9, <1>10 DEF VoiceStep

\* The same with the voice's own state.
SystemInv == DaemonInv /\ voice \in VoiceState

LEMMA SystemInit == VoiceInit => SystemInv
<1> SUFFICES ASSUME VoiceInit PROVE SystemInv
  OBVIOUS
<1>1. voice \in VoiceState
  BY Consts, EmptySeq DEF VoiceInit, Silent, VoiceState, Single, Moves
<1>2. TypeOK
  <2>1. 0 \in 0..(EnableTries + MaxPolls) /\ 0 \in 0..SettleSamples /\ 0 \in 0..(SequenceMod - 1)
        /\ 0 \in 0..MaxFaults /\ 0 \in Yaw
    BY Consts
  <2>2. backlog = <<>> /\ wire = <<>> /\ inbox = <<>>
    BY DEF VoiceInit, Init
  <2>3. backlog \in Seq(Connections) /\ wire \in Seq(Frames) /\ inbox \in Seq([of : Frames, tel : Telemetry])
    BY <2>2, EmptySeq
  <2>4. answer \in [Listener -> Answers]
    BY ToldIsAnswer DEF VoiceInit, Init
  <2>5. gimbal \in [state : State, startup : {"safe", "unsafe"}, yaw : Yaw, goal : Yaw]
    <3>1. gimbal = [state |-> "disabled", startup |-> "safe", yaw |-> 0, goal |-> 0]
      BY DEF VoiceInit, Init
    <3> QED BY <2>1, <3>1 DEF State, Stopped
  <2>6. /\ pc = "accept" /\ job = NoJob /\ stage = "none" /\ count = 0 /\ settled = 0
        /\ awaiting = FALSE /\ sequence = 0 /\ link = TRUE /\ faults = 0
    BY DEF VoiceInit, Init
  <2>7. stage \in Stages
    BY <2>6 DEF Stages
  <2> QED BY <2>1, <2>3, <2>4, <2>5, <2>6, <2>7 DEF TypeOK
<1>3. Control
  BY Consts DEF VoiceInit, Init, Control
<1>4. inbox = <<>> /\ wire = <<>> /\ Len(inbox) = 0 /\ Len(wire) = 0 /\ ~awaiting /\ link /\ faults = 0
  BY EmptySeq DEF VoiceInit, Init
<1>5. DOMAIN inbox = {} /\ DOMAIN wire = {}
  BY <1>2, <1>3, <1>4, Lengths DEF Typed
<1>6. InOrder
  BY <1>4, <1>5 DEF InOrder, InFlight, Due
<1>7. Facts
  BY <1>4 DEF VoiceInit, Init, Facts, DueFrame, Snapshot, TargetTaken, UnsafeIsHandled, EndedIsOff, Moving
<1> QED BY <1>1, <1>2, <1>3, <1>6, <1>7 DEF SystemInv, DaemonInv, Typed

LEMMA SystemStep == SystemInv /\ [VoiceNext]_voiceVars => SystemInv'
<1> SUFFICES ASSUME SystemInv, [VoiceNext]_voiceVars PROVE SystemInv'
  OBVIOUS
<1>1. Voice \in Client /\ DaemonInv /\ Typed /\ voice \in VoiceState
  BY VoiceAssumption DEF SystemInv, DaemonInv
<1>2. ASSUME UNCHANGED vars PROVE DaemonInv'
  <2>1. Typed'
    BY <1>1, <1>2 DEF vars, daemonVars, faultVars, Typed, TypeOK, Control
  <2> QED BY <1>1, <1>2, <2>1, UntouchedDaemon DEF vars, daemonVars, faultVars
<1>3. CASE VoiceStep
  <2>1. voice' \in VoiceState
    BY <1>1, <1>3, VoiceTyped
  <2>2. DaemonInv'
    BY <1>1, <1>2, <1>3, VoiceCalls, ConnectDaemon, HeardDaemon, GiveUpDaemon DEF Calling
  <2> QED BY <2>1, <2>2 DEF SystemInv
<1>4. CASE OtherStep
  <2>1. PICK c \in Client \ {Voice} :
          \/ \E cmd \in OtherCmds, sent \in BOOLEAN : Connect(c, [cmd |-> cmd, yaw |-> 0], sent)
          \/ Speak(c)
    BY <1>4 DEF OtherStep
  <2>2. \A cmd \in OtherCmds : [cmd |-> cmd, yaw |-> 0] \in Requests
    BY VoiceAssumption, Consts DEF Requests, Commands
  <2>3. DaemonInv'
    BY <1>1, <2>1, <2>2, ConnectDaemon, SpeakDaemon
  <2> QED BY <1>1, <1>4, <2>3 DEF OtherStep, SystemInv
<1>5. CASE (Daemon \/ Environment) /\ UNCHANGED voice
  BY <1>1, <1>5, DaemonKeepsDaemon DEF SystemInv
<1>6. CASE UNCHANGED voiceVars
  BY <1>1, <1>2, <1>6 DEF voiceVars, SystemInv
<1> QED BY <1>3, <1>4, <1>5, <1>6 DEF VoiceNext

LEMMA SystemInvariant == VoiceSpec => []SystemInv
BY SystemInit, SystemStep, PTL DEF VoiceSpec

\* Every variable keeps its type: a counter of polls or settled samples stays in its
\* range, the sequence in its byte, and the yaw within the limits, for every client.
THEOREM DaemonTypeCorrect == VoiceSpec => []VoiceTypeOK
<1>1. SystemInv => VoiceTypeOK
  BY DEF SystemInv, DaemonInv, Typed, VoiceTypeOK
<1> QED BY <1>1, SystemInvariant, PTL

\* The reply a transaction accepts was not sent for an earlier, timed-out one
\* (RpmsgGimbal.transact), however many were late, as long as there are fewer
\* faults than sequence numbers.
THEOREM AnswersAreOwn == VoiceSpec => []OwnAnswer
<1>1. SystemInv => OwnAnswer
  BY OwnIsDue DEF SystemInv, DaemonInv, OwnAnswer
<1> QED BY <1>1, SystemInvariant, PTL

\* A gimbal started from a position it cannot safely return from is stopped before
\* the daemon answers (GimbalService.handle, enable), unless a reply was lost.
THEOREM UnsafeGimbalIsStopped == VoiceSpec => []UnsafeIsStopped
<1>1. SystemInv => UnsafeIsStopped
  <2> SUFFICES ASSUME SystemInv, faults = 0, pc \in {"accept", "receive", "ended"},
                      gimbal.state \in Moving
               PROVE  gimbal.startup = "safe"
    BY DEF UnsafeIsStopped
  <2>1. stage = "none"
    BY DEF SystemInv, DaemonInv, Typed, Control
  <2>2. gimbal.startup \in {"safe", "unsafe"}
    BY DEF SystemInv, DaemonInv, Typed, TypeOK
  <2> QED BY <2>1, <2>2 DEF SystemInv, DaemonInv, Facts, UnsafeIsHandled
<1> QED BY <1>1, SystemInvariant, PTL

\* controlled_shutdown ends with a gimbal that is off or on its way, unless a reply
\* was lost.
THEOREM EndedDaemonLeavesItOff == VoiceSpec => []EndedIsOff
<1>1. SystemInv => EndedIsOff
  BY DEF SystemInv, DaemonInv, Facts
<1> QED BY <1>1, SystemInvariant, PTL

-----------------------------------------------------------------------------
(* The voice: definitions. *)

\* The phases in which the voice waits for an answer.
Waiting == {"call", "asked", "set", "confirm"}

\* The requests that make the camera move, or able to.
Starting == {"set", "enable"}

\* The requests the daemon has and the frames it sent.
Calls == {backlog[i] : i \in DOMAIN backlog} \cup {job}
Orders == {wire[i] : i \in DOMAIN wire}
Pending == Calls \cup Orders

\* The voice still waits for the answer to this request.
Mine(k) == k.from = Voice /\ k.live

\* The other clients look and stop.
OnlyVoiceStarts == \A k \in Calls : k.cmd \in Starting => k.from = Voice

\* The voice's live request is the last of those it made.
OneCall ==
  /\ \A i, j \in DOMAIN backlog : i < j /\ Mine(backlog[i]) => backlog[j].from # Voice
  /\ Mine(job) => \A i \in DOMAIN backlog : backlog[i].from # Voice

\* A request the voice waits for is the one its program is at.
CallFits ==
  \A k \in Calls : Mine(k) =>
    /\ voice.phase \in Waiting /\ answer[Voice].result = "none"
    /\ voice.phase = "set" => k.cmd = "set" /\ k.yaw = voice.goal
    /\ voice.phase \in {"asked", "confirm"} => k.cmd = "status"

\* Who waits for what.
Clients == OnlyVoiceStarts /\ OneCall /\ CallFits

\* Which program is in which phase.
Programs ==
  /\ voice.phase \in {"asked", "next", "set", "confirm"} => voice.prog \in Moves
  /\ voice.phase = "confirm" => voice.prog \in {"look", "scan"}
  /\ voice.phase = "call" => voice.prog \in Single
  /\ voice.phase = "asked" => ~voice.restoring

\* No request or frame is pending that moves the camera.
Quiet == \A k \in Pending : k.cmd \notin Starting

\* None but one: turn to y.
Only(y) == \A k \in Pending : k.cmd \in Starting => k.cmd = "set" /\ k.yaw = y

\* A call is under way to turn; targets are left or the end is near; it is said
\* that all went well.
Trying == voice.phase \in {"set", "confirm"} /\ ~voice.failed
Going == voice.phase = "next" /\ ~voice.failed
Done == voice.phase = "idle" /\ voice.said = "ok"

\* A success the voice hears leaves nothing pending, also of its calls that timed
\* out: the daemon serves in order.
QuietThen ==
  /\ answer[Voice].ready => answer[Voice].result = "ok"
  /\ answer[Voice].result = "ok" \/ Going \/ Done => Quiet
  /\ Trying => Only(voice.goal)

\* The camera is not being homed; it is at y and stays there; it is at y or has
\* turned to its goal since; if it is at y it stays there.
Awake == gimbal.state # "homing"
Arrived(y) == Awake /\ (gimbal.state = "active" => gimbal.goal = y /\ gimbal.yaw = y)
Faces(y) == Awake /\ (gimbal.state = "active" => gimbal.yaw \in {y, gimbal.goal})
Bound(y) == gimbal.state = "active" /\ gimbal.yaw = y => gimbal.goal = y

\* What the voice believes of the camera.
FacesIt ==
  /\ answer[Voice].ready => Faces(answer[Voice].yaw)
  /\ Going => IF voice.plan = <<>> THEN Arrived(voice.at) ELSE Faces(voice.at)
  /\ Trying =>
       /\ Awake
       /\ voice.prog # "move" => Bound(voice.goal)
       /\ voice.phase = "set" /\ answer[Voice].result = "ok" => Arrived(voice.goal)
       /\ voice.phase = "confirm" /\ answer[Voice].ready /\ answer[Voice].yaw = voice.goal
            => Arrived(voice.goal)
  /\ Done /\ voice.prog \in Moves => Arrived(voice.at)

\* The status reply that is going to confirm a target.
Seen ==
  /\ Trying /\ voice.phase = "confirm" /\ Mine(job) /\ stage = "status" /\ InSync /\ inbox # <<>>
  /\ Here.state = "active" /\ Here.yaw = voice.goal
  => Arrived(voice.goal)

\* The two sides a scan turns to.
Extent == Limit - Inset
Sides == {-Extent, Extent}

\* A scan's targets that are left, with where the camera is: the plan reaches ahead,
\* or restoring does.
ScanPlans ==
  voice.prog = "scan" =>
    /\ Going =>
         \/ \E e \in Sides : voice.plan = <<e, 0, -e>> /\ voice.at # -e
         \/ \E e \in Sides : voice.plan = <<0, -e>> /\ voice.at = e
         \/ \E e \in Sides : voice.plan = <<-e>> /\ voice.at = 0
         \/ voice.plan = <<>> /\ (voice.restoring => voice.at = 0)
    /\ Trying =>
         \/ \E e \in Sides : voice.plan = <<0, -e>> /\ voice.goal = e
         \/ \E e \in Sides : voice.plan = <<-e>> /\ voice.goal = 0
         \/ voice.plan = <<>> /\ (voice.restoring => voice.goal = 0)
    /\ (Going \/ Trying) /\ voice.plan # <<>> => ~voice.restoring
    /\ Done => voice.at = 0

\* The other programs have one target.
OtherPlans ==
  voice.prog \in {"move", "look"} =>
    /\ voice.phase = "next" /\ voice.plan # <<>> =>
         /\ Len(voice.plan) = 1
         /\ voice.prog = "look" => Head(voice.plan) # voice.at
    /\ voice.phase \in {"set", "confirm"} => voice.plan = <<>>

\* Where each program is.
Plans == Programs /\ ScanPlans /\ OtherPlans

\* The inductive invariant.
VoiceInv == SystemInv /\ Clients /\ Plans /\ QuietThen /\ FacesIt /\ Seen

-----------------------------------------------------------------------------
(* Who asks for what: the requests that wait, and their clients. *)

LEMMA CallTypes ==
  ASSUME Typed
  PROVE  /\ DOMAIN backlog = 1..Len(backlog) /\ Len(backlog) \in Nat
         /\ \A i \in DOMAIN backlog : backlog[i] \in Connections
         /\ \A k \in Calls : k \in Connections \/ k = NoJob
         /\ \A k \in Orders : k \in Frames
         /\ NoJob.from # Voice /\ ~NoJob.live /\ NoJob.cmd \notin Starting
         /\ Voice \in Listener /\ answer[Voice] \in Answers
<1>1. backlog \in Seq(Connections) /\ job \in Connections \cup {NoJob} /\ wire \in Seq(Frames)
      /\ answer \in [Listener -> Answers]
  BY DEF Typed, TypeOK
<1>2. /\ DOMAIN backlog = 1..Len(backlog) /\ Len(backlog) \in Nat
      /\ \A i \in DOMAIN backlog : backlog[i] \in Connections
  BY <1>1, LenProperties, ElementOfSeq
<1>3. \A k \in Calls : k \in Connections \/ k = NoJob
  BY <1>1, <1>2 DEF Calls
<1>4. \A k \in Orders : k \in Frames
  BY <1>1, LenProperties, ElementOfSeq DEF Orders
<1>5. NoJob.from # Voice /\ ~NoJob.live /\ NoJob.cmd \notin Starting /\ Voice \in Listener
  BY VoiceAssumption, ClientAssumption DEF NoJob, Starting
<1> QED BY <1>1, <1>2, <1>3, <1>4, <1>5

LEMMA ConnectAppends ==
  ASSUME Typed, NEW c \in Client, NEW r \in Requests, NEW sent \in BOOLEAN, Connect(c, r, sent)
  PROVE  \E k \in Connections :
           /\ k.from = c /\ k.cmd = r.cmd /\ k.yaw = r.yaw /\ k.live = TRUE
           /\ DOMAIN backlog' = 1..(Len(backlog) + 1)
           /\ \A i \in 1..Len(backlog) : backlog'[i] = backlog[i]
           /\ backlog'[Len(backlog) + 1] = k
           /\ Calls' = Calls \cup {k}
           /\ job' = job /\ wire' = wire
<1> DEFINE k == [from |-> c, cmd |-> r.cmd, yaw |-> r.yaw, live |-> TRUE, sent |-> sent]
<1>1. k \in Connections
  BY DEF Connections, Requests
<1>2. backlog' = Append(backlog, k) /\ job' = job /\ wire' = wire
  BY DEF Connect, daemonVars
<1>3. k.from = c /\ k.cmd = r.cmd /\ k.yaw = r.yaw /\ k.live = TRUE
  OBVIOUS
<1> HIDE DEF k
<1>4. backlog \in Seq(Connections)
  BY DEF Typed, TypeOK
<1>5. /\ DOMAIN backlog' = 1..(Len(backlog) + 1)
      /\ \A i \in 1..Len(backlog) : backlog'[i] = backlog[i]
      /\ backlog'[Len(backlog) + 1] = k
  BY <1>1, <1>2, <1>4, AppendProperties, LenProperties
<1>6. Calls' = Calls \cup {k}
  <2>1. DOMAIN backlog = 1..Len(backlog) /\ Len(backlog) \in Nat
    BY CallTypes
  <2>2. 1..(Len(backlog) + 1) = 1..Len(backlog) \cup {Len(backlog) + 1}
    BY <2>1
  <2>3. {backlog'[i] : i \in DOMAIN backlog'} = {backlog[i] : i \in DOMAIN backlog} \cup {k}
    BY <1>5, <2>1, <2>2
  <2> QED BY <1>2, <2>3 DEF Calls
<1> QED BY <1>1, <1>2, <1>3, <1>5, <1>6

\* Another client's request: it starts nothing and is not the voice's.
LEMMA OthersCall ==
  ASSUME Typed, Clients, NEW c \in Client \ {Voice}, NEW r \in Requests, NEW sent \in BOOLEAN,
         r.cmd \notin Starting, Connect(c, r, sent), UNCHANGED voice
  PROVE  /\ Clients' /\ answer'[Voice] = answer[Voice]
         /\ \A k \in Pending' : k.cmd \in Starting => k \in Pending
<1>1. PICK k \in Connections :
           /\ k.from = c /\ k.cmd = r.cmd /\ k.yaw = r.yaw /\ k.live = TRUE
           /\ DOMAIN backlog' = 1..(Len(backlog) + 1)
           /\ \A i \in 1..Len(backlog) : backlog'[i] = backlog[i]
           /\ backlog'[Len(backlog) + 1] = k
           /\ Calls' = Calls \cup {k}
           /\ job' = job /\ wire' = wire
  BY ConnectAppends
<1>2. answer'[Voice] = answer[Voice]
  BY CallTypes DEF Connect, Tell, Typed, TypeOK
<1>3. DOMAIN backlog = 1..Len(backlog) /\ Len(backlog) \in Nat
  BY CallTypes
<1>4. ~Mine(k) /\ k.cmd \notin Starting /\ k.from # Voice
  BY <1>1 DEF Mine
<1>5. OnlyVoiceStarts'
  BY <1>1, <1>4 DEF Clients, OnlyVoiceStarts
<1>6. OneCall'
  BY <1>1, <1>3, <1>4 DEF Clients, OneCall, Mine
<1>7. CallFits'
  BY <1>1, <1>2, <1>4 DEF Clients, CallFits, Mine
<1>8. \A o \in Pending' : o.cmd \in Starting => o \in Pending
  BY <1>1, <1>4 DEF Pending, Orders
<1> QED BY <1>2, <1>5, <1>6, <1>7, <1>8 DEF Clients

\* The voice's own request: it is the only live one.
LEMMA VoiceAsks ==
  ASSUME Typed, Clients, NEW cmd \in Commands, NEW y \in Yaw, Ask(cmd, y)
  PROVE  /\ OnlyVoiceStarts' /\ OneCall' /\ answer'[Voice] = Told("none")
         /\ \A k \in Calls' : Mine(k) => k.cmd = cmd /\ k.yaw = y
         /\ \A k \in Pending' : k \in Pending \/ (k.cmd = cmd /\ k.yaw = y)
         /\ job' = job /\ ~Mine(job)
         /\ UNCHANGED <<gimbal, stage, inbox, wire>>
<1> DEFINE r == [cmd |-> cmd, yaw |-> y]
<1>1. r \in Requests /\ Voice \in Client /\ Connect(Voice, r, TRUE) /\ r.cmd = cmd /\ r.yaw = y
  BY VoiceAssumption DEF Requests, Ask
<1> HIDE DEF r
<1>2. PICK k \in Connections :
           /\ k.from = Voice /\ k.cmd = r.cmd /\ k.yaw = r.yaw /\ k.live = TRUE
           /\ DOMAIN backlog' = 1..(Len(backlog) + 1)
           /\ \A i \in 1..Len(backlog) : backlog'[i] = backlog[i]
           /\ backlog'[Len(backlog) + 1] = k
           /\ Calls' = Calls \cup {k}
           /\ job' = job /\ wire' = wire
  BY <1>1, ConnectAppends
<1>3. answer'[Voice] = Told("none")
  BY <1>1, CallTypes DEF Connect, Tell, Typed, TypeOK
<1>4. DOMAIN backlog = 1..Len(backlog) /\ Len(backlog) \in Nat
  BY CallTypes
<1>5. ~Mine(job) /\ \A i \in DOMAIN backlog : ~Mine(backlog[i])
  BY <1>1 DEF Connect, Connected, Mine
<1>6. \A o \in Calls : ~Mine(o)
  BY <1>5 DEF Calls
<1>7. OnlyVoiceStarts'
  BY <1>2 DEF Clients, OnlyVoiceStarts
<1>8. OneCall'
  BY <1>2, <1>4, <1>5 DEF OneCall, Mine
<1>9. \A o \in Calls' : Mine(o) => o.cmd = cmd /\ o.yaw = y
  BY <1>1, <1>2, <1>6
<1>10. \A o \in Pending' : o \in Pending \/ (o.cmd = cmd /\ o.yaw = y)
  BY <1>1, <1>2 DEF Pending, Orders
<1>11. UNCHANGED <<gimbal, stage, inbox, wire>>
  BY <1>1 DEF Connect, daemonVars
<1> QED BY <1>2, <1>3, <1>5, <1>7, <1>8, <1>9, <1>10, <1>11

\* Nothing is asked for, or sent, that was not waiting already.
StartsNothing ==
  \A k \in Pending' : k.cmd \in Starting => \E o \in Pending : o.cmd = k.cmd /\ o.yaw = k.yaw

LEMMA QuietStays ==
  ASSUME StartsNothing
  PROVE  (Quiet => Quiet') /\ \A y : Only(y) => Only(y)'
BY DEF StartsNothing, Quiet, Only

\* The same connections, with the same requests; some are not live any more.
LEMMA SameCalls ==
  ASSUME Typed, Clients, DOMAIN backlog' = DOMAIN backlog,
         \A i \in DOMAIN backlog :
           /\ backlog'[i].from = backlog[i].from /\ backlog'[i].cmd = backlog[i].cmd
           /\ backlog'[i].yaw = backlog[i].yaw /\ (backlog'[i].live => backlog[i].live),
         job'.from = job.from /\ job'.cmd = job.cmd /\ job'.yaw = job.yaw /\ (job'.live => job.live),
         UNCHANGED wire
  PROVE  /\ OnlyVoiceStarts' /\ OneCall' /\ StartsNothing
         /\ \A k \in Calls' : \E o \in Calls : o.from = k.from /\ o.cmd = k.cmd /\ o.yaw = k.yaw
                                               /\ (k.live => o.live)
<1>1. \A k \in Calls' : \E o \in Calls : o.from = k.from /\ o.cmd = k.cmd /\ o.yaw = k.yaw
                                         /\ (k.live => o.live)
  <2> SUFFICES ASSUME NEW k \in Calls'
               PROVE  \E o \in Calls : o.from = k.from /\ o.cmd = k.cmd /\ o.yaw = k.yaw
                                       /\ (k.live => o.live)
    OBVIOUS
  <2>1. CASE k = job'
    BY <2>1 DEF Calls
  <2>2. CASE k # job'
    <3>1. PICK i \in DOMAIN backlog : k = backlog'[i]
      BY <2>2 DEF Calls
    <3>2. backlog[i] \in Calls
      BY DEF Calls
    <3> QED BY <3>1, <3>2
  <2> QED BY <2>1, <2>2
<1>2. OnlyVoiceStarts'
  BY <1>1 DEF Clients, OnlyVoiceStarts
<1>3. OneCall'
  BY DEF Clients, OneCall, Mine
<1>4. StartsNothing
  BY <1>1 DEF StartsNothing, Pending, Orders
<1> QED BY <1>1, <1>2, <1>3, <1>4

LEMMA OthersSpeak ==
  ASSUME Typed, Clients, NEW c \in Client, Speak(c), UNCHANGED voice
  PROVE  Clients' /\ StartsNothing /\ answer' = answer
<1>1. OnlyVoiceStarts' /\ OneCall' /\ StartsNothing
      /\ \A k \in Calls' : \E o \in Calls : o.from = k.from /\ o.cmd = k.cmd /\ o.yaw = k.yaw
                                               /\ (k.live => o.live)
  BY SpeakTyped, SameCalls DEF Speak
<1>2. answer' = answer
  BY DEF Speak
<1>3. CallFits'
  BY <1>1, <1>2 DEF Clients, CallFits, Mine
<1> QED BY <1>1, <1>2, <1>3 DEF Clients

LEMMA VoiceGivesUp ==
  ASSUME Typed, Clients, GiveUp(Voice)
  PROVE  Clients' /\ StartsNothing /\ answer'[Voice] = Told("error") /\ ~Mine(job')
<1>1. /\ job'.from = job.from /\ job'.cmd = job.cmd /\ job'.yaw = job.yaw
      /\ (job'.live <=> job.live /\ job.from # Voice)
      /\ DOMAIN backlog' = DOMAIN backlog
      /\ \A i \in DOMAIN backlog :
              /\ backlog'[i].from = backlog[i].from /\ backlog'[i].cmd = backlog[i].cmd
              /\ backlog'[i].yaw = backlog[i].yaw
              /\ backlog'[i].live <=> backlog[i].live /\ backlog[i].from # Voice
  BY GiveUpTyped, VoiceAssumption
<1>2. OnlyVoiceStarts' /\ OneCall' /\ StartsNothing
  BY <1>1, SameCalls DEF GiveUp
<1>3. answer'[Voice] = Told("error")
  BY CallTypes DEF GiveUp, Tell, Typed, TypeOK
<1>4. \A k \in Calls' : ~Mine(k)
  BY <1>1 DEF Calls, Mine
<1>5. CallFits'
  BY <1>4 DEF CallFits, Mine
<1>6. ~Mine(job')
  BY <1>4 DEF Calls
<1> QED BY <1>2, <1>3, <1>5, <1>6 DEF Clients

\* The answer is there: no request of the voice's is live, and it may go on.
LEMMA AnsweredAlone ==
  ASSUME Clients, ~(voice.phase \in Waiting /\ answer[Voice].result = "none")
  PROVE  \A k \in Calls : ~Mine(k)
BY DEF Clients, CallFits

LEMMA VoiceReads ==
  ASSUME Typed, Clients, answer[Voice].result # "none", Heard
  PROVE  /\ Clients' /\ StartsNothing /\ answer'[Voice] = Told("none")
         /\ UNCHANGED <<gimbal, stage, inbox, wire, job, awaiting>> /\ ~Mine(job)
<1>1. \A k \in Calls : ~Mine(k)
  BY AnsweredAlone
<1>2. UNCHANGED <<backlog, gimbal, stage, inbox, wire, job, awaiting>>
  BY DEF Heard, daemonVars
<1>3. answer'[Voice] = Told("none")
  BY CallTypes DEF Heard, Typed, TypeOK
<1>4. Calls' = Calls /\ Pending' = Pending
  BY <1>2 DEF Calls, Pending, Orders
<1>5. Clients'
  BY <1>1, <1>2, <1>4 DEF Clients, OnlyVoiceStarts, OneCall, CallFits, Mine
<1>6. ~Mine(job)
  BY <1>1 DEF Calls
<1> QED BY <1>2, <1>3, <1>4, <1>5, <1>6 DEF StartsNothing

LEMMA VoiceThinks ==
  ASSUME Typed, Clients, ~(voice.phase \in Waiting /\ answer[Voice].result = "none"), UNCHANGED vars
  PROVE  Clients' /\ StartsNothing /\ ~Mine(job)
<1>1. \A k \in Calls : ~Mine(k)
  BY AnsweredAlone
<1>2. UNCHANGED <<backlog, wire, job>>
  BY DEF vars, daemonVars
<1>3. Calls' = Calls /\ Pending' = Pending
  BY <1>2 DEF Calls, Pending, Orders
<1>4. Clients'
  BY <1>1, <1>2, <1>3 DEF Clients, OnlyVoiceStarts, OneCall, CallFits, Mine
<1>5. ~Mine(job)
  BY <1>1 DEF Calls
<1> QED BY <1>3, <1>4, <1>5 DEF StartsNothing

\* A request that is over: what the voice is told of its own, and that nothing of
\* its waits any more.
LEMMA FinishClients ==
  ASSUME Typed, Clients, NEW told \in Answers, FinishWith(told), UNCHANGED voice,
         \A k \in Orders' : k.cmd \in Starting => \E o \in Pending : o.cmd = k.cmd /\ o.yaw = k.yaw
  PROVE  /\ Clients' /\ StartsNothing /\ ~Mine(job')
         /\ \/ answer'[Voice] = answer[Voice]
            \/ answer'[Voice] = Told("error")
            \/ /\ Mine(job) /\ answer'[Voice] = told /\ stage \notin Ending
               /\ \A k \in Calls' : k.cmd \notin Starting
<1>1. job' = NoJob /\ NoJob.from # Voice /\ ~NoJob.live /\ NoJob.cmd \notin Starting /\ ~Mine(NoJob)
  BY CallTypes DEF FinishWith, Mine
<1>2. CASE stage \in Ending
  <2>1. backlog' = <<>> /\ answer' = [c \in Listener |-> IF Connected(c) THEN Told("error") ELSE answer[c]]
    BY <1>2 DEF FinishWith, Ending
  <2>2. DOMAIN backlog' = {}
    BY <2>1, EmptySeq
  <2>3. Calls' = {NoJob}
    BY <1>1, <2>2 DEF Calls
  <2>4. answer'[Voice] = answer[Voice] \/ answer'[Voice] = Told("error")
    BY <2>1, CallTypes
  <2>5. Clients'
    BY <1>1, <2>2, <2>3 DEF Clients, OnlyVoiceStarts, OneCall, CallFits, Mine
  <2>6. StartsNothing
    BY <1>1, <2>3 DEF StartsNothing, Pending
  <2> QED BY <1>1, <2>4, <2>5, <2>6
<1>3. CASE stage \notin Ending
  <2>1. backlog' = backlog /\ answer' = IF job.live THEN Tell(job.from, told) ELSE answer
    BY <1>3 DEF FinishWith, Ending
  <2>2. answer'[Voice] = IF Mine(job) THEN told ELSE answer[Voice]
    BY <2>1, CallTypes DEF Tell, Mine, Typed, TypeOK
  <2>3. \A k \in Calls' : k = NoJob \/ k \in Calls
    BY <1>1, <2>1 DEF Calls
  <2>4. OnlyVoiceStarts' /\ OneCall'
    BY <1>1, <2>1, <2>3 DEF Clients, OnlyVoiceStarts, OneCall, Mine
  <2>5. StartsNothing
    BY <1>1, <2>3 DEF StartsNothing, Pending
  <2>6. CASE ~Mine(job)
    <3>1. CallFits'
      BY <1>1, <2>2, <2>3, <2>6 DEF Clients, CallFits, Mine
    <3> QED BY <1>1, <2>2, <2>4, <2>5, <2>6, <3>1 DEF Clients
  <2>7. CASE Mine(job)
    <3>1. \A k \in Calls' : k.from # Voice
      BY <1>1, <2>1, <2>7 DEF Clients, OneCall, Calls
    <3>2. \A k \in Calls' : k.cmd \notin Starting
      BY <2>4, <3>1 DEF OnlyVoiceStarts
    <3>3. CallFits'
      BY <3>1 DEF CallFits, Mine
    <3> QED BY <1>1, <1>3, <2>2, <2>4, <2>5, <2>7, <3>2, <3>3 DEF Clients
  <2> QED BY <2>6, <2>7
<1> QED BY <1>2, <1>3

LEMMA AcceptClients ==
  ASSUME Typed, Clients, AcceptClient, UNCHANGED voice
  PROVE  Clients' /\ StartsNothing
<1>1. /\ Typed' /\ job' = backlog[1] /\ Len(backlog) > 0 /\ Len(backlog') = Len(backlog) - 1
      /\ \A i \in 1..Len(backlog') : backlog'[i] = backlog[i + 1]
      /\ UNCHANGED <<wire, answer>>
  BY AcceptTyped DEF AcceptClient
<1>2. /\ DOMAIN backlog = 1..Len(backlog) /\ Len(backlog) \in Nat
      /\ DOMAIN backlog' = 1..Len(backlog') /\ Len(backlog') \in Nat
  BY <1>1, CallTypes, LenProperties DEF Typed, TypeOK
<1>3. \A i \in DOMAIN backlog' : i + 1 \in DOMAIN backlog /\ backlog'[i] = backlog[i + 1]
  BY <1>1, <1>2
<1>4. 1 \in DOMAIN backlog
  BY <1>1, <1>2
<1>5. \A k \in Calls' : k \in Calls
  BY <1>1, <1>3, <1>4 DEF Calls
<1>6. OnlyVoiceStarts' /\ StartsNothing
  BY <1>1, <1>5 DEF Clients, OnlyVoiceStarts, StartsNothing, Pending, Orders
<1>7. CallFits'
  BY <1>1, <1>5 DEF Clients, CallFits, Mine
<1>8. OneCall'
  <2>1. ASSUME NEW i \in DOMAIN backlog', NEW j \in DOMAIN backlog', i < j, Mine(backlog'[i])
        PROVE  backlog'[j].from # Voice
    <3>1. i + 1 < j + 1
      BY <1>2, <2>1
    <3> QED BY <1>3, <2>1, <3>1 DEF Clients, OneCall
  <2>2. ASSUME NEW i \in DOMAIN backlog', Mine(job') PROVE backlog'[i].from # Voice
    <3>1. 1 < i + 1
      BY <1>2
    <3> QED BY <1>1, <1>3, <1>4, <2>2, <3>1 DEF Clients, OneCall
  <2> QED BY <2>1, <2>2 DEF OneCall, Mine
<1> QED BY <1>6, <1>7, <1>8 DEF Clients

\* The daemon goes on with the same request.
LEMMA SameClients ==
  ASSUME Typed, Clients, UNCHANGED <<backlog, job, answer, voice>>,
         \A k \in Orders' : k.cmd \in Starting => \E o \in Pending : o.cmd = k.cmd /\ o.yaw = k.yaw
  PROVE  Clients' /\ StartsNothing
<1>1. Calls' = Calls
  BY DEF Calls
<1>2. Clients'
  BY <1>1 DEF Clients, OnlyVoiceStarts, OneCall, CallFits, Mine
<1> QED BY <1>1, <1>2 DEF StartsNothing, Pending

\* What is sent is the request being served.
LEMMA SendsTheJob ==
  ASSUME Typed, pc = "handle", CommandOf(stage) \in Starting
  PROVE  job.cmd = CommandOf(stage)
<1>1. /\ stage \in Stages /\ stage # "none"
      /\ stage \notin Ending => job.cmd \in Commands /\ stage \in StagesOf(job.cmd)
  BY JobOfStage
<1>2. stage \in {"set", "enable"} /\ CommandOf(stage) = stage
  BY <1>1 DEF CommandOf, Starting, Stages
<1>3. stage \notin Ending
  BY <1>2 DEF Ending
<1>4. /\ stage \in {"check", "set", "wait"} <=> job.cmd = "set"
      /\ stage \in {"limits", "enable", "unsafe"} <=> job.cmd = "enable"
  BY <1>1, <1>3, StagesByCommand
<1> QED BY <1>2, <1>4

LEMMA SendClients ==
  ASSUME Typed, Clients, Send, UNCHANGED voice
  PROVE  /\ Clients' /\ StartsNothing
         /\ link => awaiting' /\ UNCHANGED <<answer, job, stage>>
         /\ ~link => ~Mine(job')
         /\ answer'[Voice] \in {answer[Voice], Told("error")}
<1>1. pc = "handle"
  BY DEF Send
<1>2. CASE link
  <2> DEFINE f == [cmd |-> CommandOf(stage), seq |-> sequence', yaw |-> job.yaw, late |-> FALSE]
  <2>1. f \in Frames /\ wire' = Append(wire, f) /\ wire \in Seq(Frames)
        /\ awaiting' = TRUE /\ UNCHANGED <<backlog, job, answer, stage>>
    BY <1>2, SendTyped DEF Typed, TypeOK
  <2>2. f.cmd = CommandOf(stage) /\ f.yaw = job.yaw
    OBVIOUS
  <2> HIDE DEF f
  <2>3. \A k \in Orders' : k \in Orders \/ k = f
    <3>1. /\ DOMAIN wire' = 1..(Len(wire) + 1) /\ DOMAIN wire = 1..Len(wire) /\ Len(wire) \in Nat
          /\ \A i \in 1..Len(wire) : wire'[i] = wire[i]
          /\ wire'[Len(wire) + 1] = f
      BY <2>1, AppendProperties, LenProperties
    <3>2. 1..(Len(wire) + 1) = (1..Len(wire)) \cup {Len(wire) + 1}
      BY <3>1
    <3> QED BY <3>1, <3>2 DEF Orders
  <2>4. f.cmd \in Starting => job.cmd = f.cmd /\ job \in Pending
    BY <1>1, <2>2, SendsTheJob DEF Pending, Calls
  <2>5. \A k \in Orders' : k.cmd \in Starting => \E o \in Pending : o.cmd = k.cmd /\ o.yaw = k.yaw
    BY <2>2, <2>3, <2>4 DEF Pending
  <2> QED BY <1>2, <2>1, <2>5, SameClients
<1>3. CASE ~link
  <2>1. Told("error") \in Answers /\ wire' = wire /\ FinishWith(Told("error"))
    BY <1>3, SendTyped, ToldIsAnswer DEF Finish
  <2>2. Orders' = Orders
    BY <2>1 DEF Orders
  <2>3. \A k \in Orders' : k.cmd \in Starting => \E o \in Pending : o.cmd = k.cmd /\ o.yaw = k.yaw
    BY <2>2 DEF Pending
  <2> QED BY <1>3, <2>1, <2>3, FinishClients
<1> QED BY <1>2, <1>3

-----------------------------------------------------------------------------
(* What the camera does meanwhile. *)

Turns ==
  \A y \in Yaw :
    /\ Quiet /\ Arrived(y) => Arrived(y)'
    /\ Quiet /\ Faces(y) => Faces(y)'
    /\ Only(y) /\ Awake => Awake'
    /\ Only(y) /\ Awake /\ Bound(y) => Bound(y)'

LEMMA StandsTurns == ASSUME UNCHANGED gimbal PROVE Turns
BY DEF Turns, Arrived, Faces, Awake, Bound

LEMMA MovesTurns == ASSUME Typed, GimbalMoves PROVE Turns
<1>1. /\ gimbal'.goal = gimbal.goal
      /\ \/ gimbal.state = "homing" /\ gimbal'.state = "active" /\ gimbal'.yaw = 0
         \/ gimbal.state = "active" /\ gimbal'.state = "active" /\ gimbal'.yaw = gimbal.goal
         \/ gimbal.state = "returning" /\ gimbal'.state = "disabled"
         \/ /\ gimbal.state \in Moving \cup {"returning"} /\ gimbal'.state = "fault"
            /\ gimbal'.yaw = gimbal.yaw
  BY MovesTyped
<1>2. CASE gimbal.state = "homing" /\ gimbal'.state = "active" /\ gimbal'.yaw = 0
  BY <1>2 DEF Turns, Arrived, Faces, Awake
<1>3. CASE gimbal.state # "homing"
  BY <1>1, <1>3 DEF Turns, Arrived, Faces, Awake, Bound
<1> QED BY <1>1, <1>2, <1>3 DEF Turns, Arrived, Faces, Awake, Bound

LEMMA OutcomeTurns ==
  ASSUME Typed, wire # <<>>, NEW o \in Outcomes(Head(wire)), gimbal' = o.g
  PROVE  Turns
<1> DEFINE f == Head(wire)
<1>1. f \in Frames /\ f \in Pending
  <2>1. wire \in Seq(Frames) /\ f = wire[1] /\ 1 \in DOMAIN wire
    BY Lengths
  <2> QED BY <2>1, ElementOfSeq DEF Pending, Orders
<1>2. f.cmd \in {"limits", "status", "enable", "disable", "estop", "set"}
  BY <1>1 DEF Frames
<1>3. /\ gimbal'.yaw = gimbal.yaw
      /\ f.cmd \in {"status", "limits"} => gimbal' = gimbal
      /\ f.cmd = "estop" => gimbal'.state = "disabled"
      /\ f.cmd = "disable" => gimbal'.state \in {"returning", "disabled"}
      /\ f.cmd = "set" => \/ gimbal' = gimbal
                          \/ /\ gimbal.state = "active" /\ gimbal'.state = "active"
                             /\ gimbal'.goal = f.yaw
  BY <1>1, OutcomeIs
<1>4. Quiet => f.cmd \notin Starting
  BY <1>1 DEF Quiet
<1>5. \A y \in Yaw : Only(y) /\ f.cmd \in Starting => f.cmd = "set" /\ f.yaw = y
  BY <1>1 DEF Only
<1> HIDE DEF f
<1>6. CASE f.cmd \notin Starting
  <2>1. gimbal' = gimbal \/ gimbal'.state \in {"disabled", "returning"}
    BY <1>2, <1>3, <1>6 DEF Starting
  <2> QED BY <2>1 DEF Turns, Arrived, Faces, Awake, Bound
<1>7. CASE f.cmd = "set"
  <2>1. ~Quiet
    BY <1>4, <1>7 DEF Starting
  <2>2. \A y \in Yaw : Only(y) => f.yaw = y
    BY <1>5, <1>7 DEF Starting
  <2>3. CASE gimbal' = gimbal
    BY <2>3, StandsTurns
  <2>4. CASE gimbal.state = "active" /\ gimbal'.state = "active" /\ gimbal'.goal = f.yaw
    <3>1. \A y \in Yaw : Only(y) => Bound(y)'
      BY <2>2, <2>4 DEF Bound
    <3>2. Awake'
      BY <2>4 DEF Awake
    <3> QED BY <2>1, <3>1, <3>2 DEF Turns
  <2> QED BY <1>3, <1>7, <2>3, <2>4
<1>8. CASE f.cmd = "enable"
  <2>1. ~Quiet /\ \A y \in Yaw : ~Only(y)
    BY <1>4, <1>5, <1>8 DEF Starting
  <2> QED BY <2>1 DEF Turns
<1> QED BY <1>2, <1>6, <1>7, <1>8 DEF Starting

-----------------------------------------------------------------------------
(* While the voice waits: what it believes stays true. *)

Beliefs == QuietThen /\ FacesIt

LEMMA ArrivedFaces == ASSUME NEW y, Arrived(y) PROVE Faces(y)
BY DEF Arrived, Faces

\* Nothing is started and the voice is told nothing, or that its request failed.
LEMMA Waits ==
  ASSUME voice \in VoiceState, answer[Voice] \in Answers, Beliefs, Turns, StartsNothing, UNCHANGED voice,
         answer'[Voice] = answer[Voice] \/ answer'[Voice] \in {Told("none"), Told("error")}
  PROVE  Beliefs'
<1>1. (Quiet => Quiet') /\ \A y : Only(y) => Only(y)'
  BY QuietStays
<1>2. voice.goal \in Yaw /\ voice.at \in Yaw /\ answer[Voice].yaw \in Yaw
  BY DEF VoiceState, Answers
<1>3. \/ answer'[Voice] = answer[Voice]
      \/ ~answer'[Voice].ready /\ answer'[Voice].result # "ok"
  BY DEF Told
<1>4. Going' = Going /\ Trying' = Trying /\ Done' = Done
  BY DEF Going, Trying, Done
<1>5. QuietThen'
  BY <1>1, <1>3, <1>4 DEF Beliefs, QuietThen
<1>6. /\ \A y \in Yaw : Quiet /\ Arrived(y) => Arrived(y)'
      /\ \A y \in Yaw : Quiet /\ Faces(y) => Faces(y)'
      /\ \A y \in Yaw : Only(y) /\ Awake => Awake'
      /\ \A y \in Yaw : Only(y) /\ Awake /\ Bound(y) => Bound(y)'
  BY DEF Turns
<1>7. answer[Voice].ready \/ answer[Voice].result = "ok" \/ Going \/ Done => Quiet
  BY DEF Beliefs, QuietThen
<1>8. Trying => Only(voice.goal)
  BY DEF Beliefs, QuietThen
<1>9. answer'[Voice].ready => Faces(answer[Voice].yaw)' /\ answer'[Voice] = answer[Voice]
  BY <1>2, <1>3, <1>6, <1>7 DEF Beliefs, FacesIt
<1>10. Going => IF voice.plan = <<>> THEN Arrived(voice.at)' ELSE Faces(voice.at)'
  BY <1>2, <1>6, <1>7 DEF Beliefs, FacesIt
<1>11. Trying =>
       /\ Awake'
       /\ voice.prog # "move" => Bound(voice.goal)'
       /\ voice.phase = "set" /\ answer'[Voice].result = "ok" => Arrived(voice.goal)'
       /\ voice.phase = "confirm" /\ answer'[Voice].ready /\ answer'[Voice].yaw = voice.goal
            => Arrived(voice.goal)'
  BY <1>2, <1>3, <1>6, <1>7, <1>8 DEF Beliefs, FacesIt
<1>12. Done /\ voice.prog \in Moves => Arrived(voice.at)'
  BY <1>2, <1>6, <1>7 DEF Beliefs, FacesIt
<1>13. FacesIt'
  BY <1>4, <1>9, <1>10, <1>11, <1>12 DEF FacesIt, Arrived, Faces, Bound, Awake
<1> QED BY <1>5, <1>13 DEF Beliefs

-----------------------------------------------------------------------------
(* The steps of the daemon, the broker and the firmware, while the voice waits. *)

LEMMA WaitsInv ==
  ASSUME VoiceInv, SystemInv', Clients', Beliefs', Seen', UNCHANGED voice
  PROVE  VoiceInv'
<1>1. Plans'
  BY DEF VoiceInv, Plans, Programs, ScanPlans, OtherPlans, Going, Trying, Done
<1> QED BY <1>1 DEF VoiceInv, Beliefs

LEMMA VoiceParts ==
  ASSUME VoiceInv
  PROVE  /\ Typed /\ InOrder /\ Facts /\ Clients /\ Beliefs /\ voice \in VoiceState
         /\ answer[Voice] \in Answers /\ SystemInv /\ DaemonInv
BY CallTypes DEF VoiceInv, SystemInv, DaemonInv, Beliefs

LEMMA AcceptVoice ==
  ASSUME VoiceInv, AcceptClient, SystemInv', UNCHANGED voice
  PROVE  VoiceInv'
<1>1. Clients' /\ StartsNothing
  BY VoiceParts, AcceptClients
<1>2. gimbal' = gimbal /\ answer' = answer /\ stage' = "none"
  BY VoiceParts DEF AcceptClient, Typed, Control
<1>3. Beliefs'
  BY <1>1, <1>2, VoiceParts, StandsTurns, Waits
<1>4. Seen'
  BY <1>2 DEF Seen
<1> QED BY <1>1, <1>3, <1>4, WaitsInv

LEMMA BeginVoice ==
  ASSUME VoiceInv, Receive \/ Shutdown, SystemInv', UNCHANGED voice
  PROVE  VoiceInv'
<1>1. /\ UNCHANGED <<backlog, job, answer, wire, inbox, awaiting, sequence, link, faults>>
      /\ gimbal' = gimbal /\ ~awaiting
  BY VoiceParts DEF Receive, Shutdown, faultVars, Typed, Control
<1>2. Orders' = Orders
  BY <1>1 DEF Orders
<1>3. Clients' /\ StartsNothing
  BY <1>1, <1>2, VoiceParts, SameClients DEF Pending
<1>4. Beliefs'
  BY <1>1, <1>3, VoiceParts, StandsTurns, Waits
<1>5. InSync' => InSync
  BY <1>1, VoiceParts, UntouchedInOrder
<1>6. InSync' => inbox' = <<>>
  BY <1>1, <1>5, VoiceParts, SyncIsOne
<1>7. Seen'
  BY <1>6 DEF Seen
<1> QED BY <1>3, <1>4, <1>7, WaitsInv

LEMMA SendVoice ==
  ASSUME VoiceInv, Send, SystemInv', UNCHANGED voice
  PROVE  VoiceInv'
<1>1. /\ Clients' /\ StartsNothing /\ (~link => ~Mine(job'))
      /\ answer'[Voice] \in {answer[Voice], Told("error")}
  BY VoiceParts, SendClients
<1>2. gimbal' = gimbal /\ inbox' = inbox /\ link' = link /\ ~awaiting
  BY DEF Send, faultVars
<1>3. Beliefs'
  BY <1>1, <1>2, VoiceParts, StandsTurns, Waits
<1>4. InSync' => inbox' = <<>>
  BY <1>2, VoiceParts, SendInOrder, SyncIsOne
<1>5. Seen'
  BY <1>4 DEF Seen
<1> QED BY <1>1, <1>3, <1>5, WaitsInv

\* A request that failed: Finish("error"), with nothing new on the wire.
LEMMA FailVoice ==
  ASSUME VoiceInv, Finish("error"), SystemInv', UNCHANGED voice, gimbal' = gimbal,
         DOMAIN wire' = DOMAIN wire,
         \A i \in DOMAIN wire : wire'[i].cmd = wire[i].cmd /\ wire'[i].yaw = wire[i].yaw
  PROVE  VoiceInv'
<1>1. \A k \in Orders' : \E o \in Pending : o.cmd = k.cmd /\ o.yaw = k.yaw
  BY DEF Orders, Pending
<1>2. Told("error") \in Answers /\ FinishWith(Told("error"))
  BY ToldIsAnswer DEF Finish
<1>3. /\ Clients' /\ StartsNothing /\ ~Mine(job')
      /\ answer'[Voice] = answer[Voice] \/ answer'[Voice] = Told("error")
  BY <1>1, <1>2, VoiceParts, FinishClients
<1>4. Beliefs'
  BY <1>3, VoiceParts, StandsTurns, Waits
<1>5. Seen'
  BY <1>3 DEF Seen, Mine
<1> QED BY <1>3, <1>4, <1>5, WaitsInv

\* The voice is told what its own request came to.
LEMMA TellsVoice ==
  ASSUME VoiceInv, awaiting, inbox # <<>>, OwnReply(Head(inbox)), NEW told \in Answers,
         FinishWith(told), Verdict(Here, told), SystemInv', UNCHANGED <<voice, wire, gimbal>>
  PROVE  VoiceInv'
<1>1. Orders' = Orders
  BY DEF Orders
<1>2. /\ Clients' /\ StartsNothing /\ ~Mine(job')
      /\ \/ answer'[Voice] = answer[Voice]
         \/ answer'[Voice] = Told("error")
         \/ /\ Mine(job) /\ answer'[Voice] = told /\ stage \notin Ending
            /\ \A k \in Calls' : k.cmd \notin Starting
  BY <1>1, VoiceParts, FinishClients DEF Pending
<1>3. Seen'
  BY <1>2 DEF Seen, Mine
<1>4. CASE answer'[Voice] = answer[Voice] \/ answer'[Voice] = Told("error")
  <2>1. Beliefs'
    BY <1>2, <1>4, VoiceParts, StandsTurns, Waits
  <2> QED BY <1>2, <1>3, <2>1, WaitsInv
<1>5. CASE /\ Mine(job) /\ answer'[Voice] = told /\ stage \notin Ending
           /\ \A k \in Calls' : k.cmd \notin Starting
  <2>1. InSync /\ wire = <<>>
    BY VoiceParts, OwnIsDue
  <2>2. Quiet'
    <3>1. DOMAIN wire = {}
      BY <2>1, EmptySeq
    <3> QED BY <1>5, <3>1 DEF Quiet, Pending, Orders
  <2>3. /\ voice.phase \in Waiting
        /\ voice.phase = "set" => job.cmd = "set" /\ job.yaw = voice.goal
    BY <1>5, VoiceParts DEF Clients, CallFits, Calls
  <2>4. Going' = FALSE /\ Done' = FALSE /\ Trying' = Trying
    BY <2>3 DEF Going, Done, Trying, Waiting
  <2>5. QuietThen'
    <3>1. Trying => Only(voice.goal)'
      BY <1>2, VoiceParts, QuietStays DEF Beliefs, QuietThen
    <3> QED BY <1>5, <2>2, <2>4, <3>1 DEF QuietThen, Verdict
  <2>6. told.ready => Faces(told.yaw)
    <3>1. Here.state = "active" => /\ gimbal.state \in {"active", "fault"}
                                   /\ gimbal.state = "active" => gimbal.yaw \in {Here.yaw, gimbal.goal}
      BY <2>1, VoiceParts DEF Facts, Snapshot
    <3> QED BY <3>1 DEF Verdict, Faces, Awake
  <2>7. voice.phase = "set" /\ told.result = "ok" => Arrived(voice.goal)
    <3> SUFFICES ASSUME voice.phase = "set", told.result = "ok" PROVE Arrived(voice.goal)
      OBVIOUS
    <3>1. job.cmd = "set" /\ job.yaw = voice.goal
      BY <2>3
    <3>2. stage = "wait"
      <4>1. pc = "handle"
        BY VoiceParts DEF Typed, Control
      <4>2. job.cmd \in Commands /\ stage \in StagesOf(job.cmd)
        BY <1>5, <4>1, VoiceParts, JobOfStage
      <4>3. stage \in {"check", "set", "wait"}
        BY <3>1, <4>2, StagesByCommand
      <4> QED BY <4>3 DEF Verdict
    <3>3. Here.state = "active" /\ Here.yaw = job.yaw
      BY <3>2 DEF Verdict
    <3>4. gimbal.state \in {"active", "fault"} /\ gimbal.goal = job.yaw /\ gimbal.yaw = job.yaw
      BY <2>1, <3>2, <3>3, VoiceParts DEF Facts, TargetTaken
    <3> QED BY <3>1, <3>4 DEF Arrived, Awake
  <2>8. Trying /\ voice.phase = "confirm" /\ told.ready /\ told.yaw = voice.goal => Arrived(voice.goal)
    BY <1>5, <2>1 DEF VoiceInv, Seen, Verdict
  <2>9. Trying => Awake /\ (voice.prog # "move" => Bound(voice.goal))
    BY VoiceParts DEF Beliefs, FacesIt
  <2>10. FacesIt'
    BY <1>5, <2>4, <2>6, <2>7, <2>8, <2>9 DEF FacesIt, Faces, Arrived, Awake, Bound
  <2> QED BY <1>2, <1>3, <2>5, <2>10, WaitsInv DEF Beliefs
<1> QED BY <1>2, <1>4, <1>5

LEMMA RecvVoice ==
  ASSUME VoiceInv, Recv, SystemInv', UNCHANGED voice
  PROVE  VoiceInv'
<1>1. /\ awaiting /\ inbox # <<>> /\ UNCHANGED <<wire, gimbal>>
      /\ \/ Finish("error")
         \/ /\ OwnReply(Head(inbox))
            /\ \/ \E told \in Answers : FinishWith(told) /\ Verdict(Here, told)
               \/ Goes(Here)
  BY VoiceParts, RecvOutcome DEF Here
<1>2. CASE Finish("error")
  BY <1>1, <1>2, FailVoice
<1>3. CASE OwnReply(Head(inbox)) /\ \E told \in Answers : FinishWith(told) /\ Verdict(Here, told)
  BY <1>1, <1>3, TellsVoice
<1>4. CASE Goes(Here)
  <2>1. UNCHANGED <<backlog, job, answer>> /\ stage' # "status"
    BY <1>4 DEF Goes, Stays
  <2>2. Orders' = Orders
    BY <1>1 DEF Orders
  <2>3. Clients' /\ StartsNothing
    BY <2>1, <2>2, VoiceParts, SameClients DEF Pending
  <2>4. Beliefs'
    BY <1>1, <2>1, <2>3, VoiceParts, StandsTurns, Waits
  <2>5. Seen'
    BY <2>1 DEF Seen
  <2> QED BY <2>3, <2>4, <2>5, WaitsInv
<1> QED BY <1>1, <1>2, <1>3, <1>4

LEMMA LostVoice ==
  ASSUME VoiceInv, ReplyTimeout \/ Disconnected, SystemInv', UNCHANGED voice
  PROVE  VoiceInv'
<1>1. CASE ReplyTimeout
  <2>1. /\ Finish("error") /\ gimbal' = gimbal /\ Len(wire') = Len(wire) /\ Typed'
        /\ \A i \in 1..Len(wire) : wire'[i].cmd = wire[i].cmd /\ wire'[i].yaw = wire[i].yaw
    BY <1>1, VoiceParts, TimeoutTyped
  <2>2. DOMAIN wire = 1..Len(wire) /\ DOMAIN wire' = 1..Len(wire')
    BY <2>1, VoiceParts, LenProperties DEF Typed, TypeOK
  <2> QED BY <2>1, <2>2, FailVoice
<1>2. CASE Disconnected
  BY <1>2, VoiceParts, DisconnectedTyped, FailVoice
<1> QED BY <1>1, <1>2

LEMMA ServesVoice ==
  ASSUME VoiceInv, BrokerServes, SystemInv', UNCHANGED voice
  PROVE  VoiceInv'
<1>1. /\ link /\ wire # <<>> /\ wire' = Tail(wire) /\ Head(wire) \in Frames
      /\ UNCHANGED <<backlog, job, stage, answer, awaiting>>
      /\ \E o \in Outcomes(Head(wire)) : gimbal' = o.g
  BY VoiceParts, ServesTyped
<1>2. Turns
  BY <1>1, VoiceParts, OutcomeTurns
<1>3. \A k \in Orders' : k \in Orders
  <2>1. wire \in Seq(Frames) /\ wire # <<>>
    BY <1>1, VoiceParts DEF Typed, TypeOK
  <2>2. /\ DOMAIN wire' = 1..(Len(wire) - 1) /\ \A i \in 1..(Len(wire) - 1) : wire'[i] = wire[i + 1]
        /\ DOMAIN wire = 1..Len(wire) /\ Len(wire) \in Nat
    BY <1>1, <2>1, HeadTailProperties, LenProperties
  <2>3. \A i \in DOMAIN wire' : i + 1 \in DOMAIN wire /\ wire'[i] = wire[i + 1]
    BY <2>2
  <2> QED BY <2>3 DEF Orders
<1>4. Clients' /\ StartsNothing
  BY <1>1, <1>3, VoiceParts, SameClients DEF Pending
<1>5. Beliefs'
  BY <1>1, <1>2, <1>4, VoiceParts, Waits
<1>6. InSync' => InSync
  BY VoiceParts, ServesInOrder
<1>7. Seen'
  <2> SUFFICES ASSUME Trying, voice.phase = "confirm", InSync', Mine(job), stage = "status",
                      Here'.state = "active", Here'.yaw = voice.goal
               PROVE  Arrived(voice.goal)'
    BY <1>1 DEF Seen, Trying, Mine
  <2>1. InSync /\ inbox = <<>>
    BY <1>1, <1>6, VoiceParts, SyncIsOne
  <2>2. PICK o \in Outcomes(Head(wire)) :
           gimbal' = o.g /\ Head(inbox') = Replied(Head(wire), o.status, o.g)
    BY <2>1, VoiceParts, ServesInOrder
  <2>3. Head(wire).cmd = "status"
    BY <1>1, <2>1, VoiceParts DEF Facts, DueFrame, CommandOf
  <2>4. gimbal' = gimbal
    BY <1>1, <2>2, <2>3, VoiceParts, OutcomeIs
  <2>5. Here'.state = gimbal.state /\ Here'.yaw = gimbal.yaw
    BY <2>2, <2>4 DEF Replied, Here
  <2>6. Awake /\ Bound(voice.goal)
    BY VoiceParts DEF VoiceInv, Plans, Programs, FacesIt
  <2> QED BY <2>4, <2>5, <2>6 DEF Arrived, Awake, Bound
<1> QED BY <1>4, <1>5, <1>7, WaitsInv

LEMMA CutsVoice ==
  ASSUME VoiceInv, BrokerCuts, SystemInv', UNCHANGED voice
  PROVE  VoiceInv'
<1>1. /\ wire # <<>> /\ ~link' /\ wire' = <<>> /\ UNCHANGED <<backlog, job, answer>>
      /\ gimbal' = gimbal \/ \E o \in Outcomes(Head(wire)) : gimbal' = o.g
  BY VoiceParts, CutsTyped
<1>2. Turns
  BY <1>1, VoiceParts, StandsTurns, OutcomeTurns
<1>3. Orders' = {}
  <2>1. DOMAIN wire' = {}
    BY <1>1, EmptySeq
  <2> QED BY <2>1 DEF Orders
<1>4. Clients' /\ StartsNothing
  BY <1>1, <1>3, VoiceParts, SameClients
<1>5. Beliefs'
  BY <1>1, <1>2, <1>4, VoiceParts, Waits
<1>6. Seen'
  BY <1>1 DEF Seen, InSync
<1> QED BY <1>4, <1>5, <1>6, WaitsInv

LEMMA MovesVoice ==
  ASSUME VoiceInv, GimbalMoves, SystemInv', UNCHANGED voice
  PROVE  VoiceInv'
<1>1. UNCHANGED <<backlog, job, stage, answer, wire, inbox, awaiting, sequence, link, faults>>
  BY DEF GimbalMoves, daemonVars, faultVars
<1>2. Orders' = Orders
  BY <1>1 DEF Orders
<1>3. Clients' /\ StartsNothing
  BY <1>1, <1>2, VoiceParts, SameClients DEF Pending
<1>4. Beliefs'
  BY <1>1, <1>3, VoiceParts, MovesTurns, Waits
<1>5. InSync' => InSync
  BY <1>1, VoiceParts, UntouchedInOrder
<1>6. Arrived(voice.goal) => Arrived(voice.goal)'
  BY VoiceParts, MovesTyped DEF Arrived, Awake
<1>7. Here' = Here /\ Trying' = Trying /\ Mine(job)' = Mine(job)
  BY <1>1 DEF Here, Trying, Mine
<1>8. Seen'
  BY <1>1, <1>5, <1>6, <1>7 DEF VoiceInv, Seen, Arrived, Awake
<1> QED BY <1>3, <1>4, <1>8, WaitsInv

LEMMA OthersVoice ==
  ASSUME VoiceInv, OtherStep, SystemInv'
  PROVE  VoiceInv'
<1>1. PICK c \in Client \ {Voice} :
          \/ \E cmd \in OtherCmds, sent \in BOOLEAN : Connect(c, [cmd |-> cmd, yaw |-> 0], sent)
          \/ Speak(c)
  BY DEF OtherStep
<1>2. UNCHANGED <<stage, awaiting, sequence, inbox, wire, link, faults>> /\ gimbal' = gimbal
      /\ UNCHANGED voice
  BY <1>1 DEF OtherStep, Connect, Speak, daemonVars, faultVars
<1>3. Clients' /\ StartsNothing /\ answer'[Voice] = answer[Voice] /\ (Mine(job') <=> Mine(job))
  <2>1. ASSUME NEW cmd \in OtherCmds, NEW sent \in BOOLEAN, Connect(c, [cmd |-> cmd, yaw |-> 0], sent)
        PROVE  Clients' /\ StartsNothing /\ answer'[Voice] = answer[Voice] /\ job' = job
    <3>1. [cmd |-> cmd, yaw |-> 0] \in Requests /\ cmd \notin Starting
      BY VoiceAssumption, Consts DEF Requests, Commands, Starting
    <3>2. /\ Clients' /\ answer'[Voice] = answer[Voice]
          /\ \A k \in Pending' : k.cmd \in Starting => k \in Pending
      BY <1>2, <2>1, <3>1, VoiceParts, OthersCall
    <3>3. StartsNothing
      BY <3>2 DEF StartsNothing
    <3> QED BY <2>1, <3>2, <3>3 DEF Connect, daemonVars
  <2>2. ASSUME Speak(c)
        PROVE  Clients' /\ StartsNothing /\ answer' = answer /\ (Mine(job') <=> Mine(job))
    BY <1>2, <2>2, VoiceParts, OthersSpeak, SpeakTyped DEF Mine
  <2> QED BY <1>1, <2>1, <2>2
<1>4. Beliefs'
  BY <1>2, <1>3, VoiceParts, StandsTurns, Waits
<1>5. InSync' => InSync
  BY <1>2, VoiceParts, UntouchedInOrder
<1>6. Here' = Here /\ Trying' = Trying
  BY <1>2 DEF Here, Trying
<1>7. Seen'
  BY <1>2, <1>3, <1>5, <1>6 DEF VoiceInv, Seen, Arrived, Awake, Mine
<1> QED BY <1>2, <1>3, <1>4, <1>7, WaitsInv

-----------------------------------------------------------------------------
(* The steps of the voice. *)

LEMMA VoiceMoves ==
  ASSUME VoiceInv, SystemInv', Clients', Plans', gimbal' = gimbal, ~Mine(job'),
         \/ answer'[Voice] = Told("none")
         \/ answer'[Voice] = answer[Voice] /\ StartsNothing /\ ~Trying',
         Going' \/ Done' => Quiet',
         Trying' => Only(voice.goal)',
         Going' => IF voice'.plan = <<>> THEN Arrived(voice'.at) ELSE Faces(voice'.at),
         Trying' => Awake /\ (voice'.prog # "move" => Bound(voice'.goal)),
         Done' /\ voice'.prog \in Moves => Arrived(voice'.at)
  PROVE  VoiceInv'
<1>1. Seen'
  BY DEF Seen, Mine
<1>2. CASE answer'[Voice] = Told("none")
  <2>1. ~answer'[Voice].ready /\ answer'[Voice].result # "ok"
    BY <1>2 DEF Told
  <2>2. QuietThen'
    BY <2>1 DEF QuietThen
  <2>3. FacesIt'
    BY <2>1 DEF FacesIt, Arrived, Faces, Awake, Bound
  <2> QED BY <1>1, <2>2, <2>3 DEF VoiceInv
<1>3. CASE answer'[Voice] = answer[Voice] /\ StartsNothing /\ ~Trying'
  <2>1. QuietThen'
    BY <1>3, QuietStays DEF VoiceInv, QuietThen
  <2>2. FacesIt'
    BY <1>3 DEF VoiceInv, FacesIt, Arrived, Faces, Awake, Bound
  <2> QED BY <1>1, <2>1, <2>2 DEF VoiceInv
<1> QED BY <1>2, <1>3

\* A program ends: what it says of a success is true.
LEMMA Says ==
  ASSUME VoiceInv, SystemInv', Clients', StartsNothing, gimbal' = gimbal, ~Mine(job'),
         answer'[Voice] = Told("none") \/ answer'[Voice] = answer[Voice],
         NEW result \in {"there", "ok", "error"}, Say(result),
         result = "ok" => /\ Quiet
                          /\ voice.prog \in Moves => Arrived(voice.at)
                          /\ voice.prog = "scan" => voice.at = 0
  PROVE  VoiceInv'
<1>1. voice \in VoiceState
  BY VoiceParts
<1>2. /\ voice'.phase = "idle"
      /\ result = "ok" => voice'.prog = voice.prog /\ voice'.said = "ok" /\ voice'.at = voice.at
      /\ result # "ok" => voice'.prog = "estop" /\ voice'.said = result
  BY DEF Say, Silent
<1>3. ~Going' /\ ~Trying' /\ (Done' => result = "ok")
  BY <1>2 DEF Going, Trying, Done
<1>4. Plans'
  BY <1>2, <1>3 DEF Plans, Programs, ScanPlans, OtherPlans
<1>5. Quiet => Quiet'
  BY QuietStays
<1> QED BY <1>2, <1>3, <1>4, <1>5, VoiceMoves

\* A request of the voice's that goes out.
LEMMA AskFits ==
  ASSUME VoiceInv, NEW cmd \in Commands, NEW y \in Yaw, Ask(cmd, y),
         voice'.phase \in Waiting,
         voice'.phase = "set" => cmd = "set" /\ y = voice'.goal,
         voice'.phase \in {"asked", "confirm"} => cmd = "status"
  PROVE  /\ Clients' /\ answer'[Voice] = Told("none") /\ gimbal' = gimbal /\ ~Mine(job')
         /\ cmd \notin Starting => StartsNothing
         /\ cmd = "set" /\ Quiet => Only(y)'
<1>1. /\ OnlyVoiceStarts' /\ OneCall' /\ answer'[Voice] = Told("none")
      /\ \A k \in Calls' : Mine(k) => k.cmd = cmd /\ k.yaw = y
      /\ \A k \in Pending' : k \in Pending \/ (k.cmd = cmd /\ k.yaw = y)
      /\ job' = job /\ ~Mine(job) /\ gimbal' = gimbal
  BY VoiceParts, VoiceAsks
<1>2. answer'[Voice].result = "none"
  BY <1>1 DEF Told
<1>3. CallFits'
  BY <1>1, <1>2 DEF CallFits, Mine
<1>4. cmd \notin Starting => StartsNothing
  BY <1>1 DEF StartsNothing
<1>5. cmd = "set" /\ Quiet => Only(y)'
  BY <1>1 DEF Quiet, Only
<1> QED BY <1>1, <1>3, <1>4, <1>5 DEF Clients

LEMMA HearVoice ==
  ASSUME VoiceInv, NEW p \in Single \cup Moves, Hear(p), SystemInv'
  PROVE  VoiceInv'
<1> DEFINE cmd == IF p \in Single THEN p ELSE "status"
<1>1. cmd \in Commands /\ 0 \in Yaw /\ Ask(cmd, 0) /\ (p \notin Single => cmd = "status")
  BY Consts DEF Single, Commands, Hear
<1> HIDE DEF cmd
<1>2. /\ voice'.prog = p /\ voice'.phase = IF p \in Single THEN "call" ELSE "asked"
      /\ ~voice'.restoring
  BY DEF Hear, Silent
<1>3. /\ Clients' /\ answer'[Voice] = Told("none") /\ gimbal' = gimbal /\ ~Mine(job')
  BY <1>1, <1>2, AskFits DEF Waiting
<1>4. ~Going' /\ ~Trying' /\ ~Done'
  BY <1>2 DEF Going, Trying, Done
<1>5. Plans'
  BY <1>2, <1>4 DEF Plans, Programs, ScanPlans, OtherPlans
<1> QED BY <1>3, <1>4, <1>5, VoiceMoves

LEMMA CallAnsweredVoice ==
  ASSUME VoiceInv, CallAnswered, SystemInv'
  PROVE  VoiceInv'
<1>1. voice.phase = "call" /\ answer[Voice].result \in {"ok", "error"} /\ Heard
      /\ Say(answer[Voice].result)
  BY VoiceParts DEF CallAnswered, Answers
<1>2. /\ Clients' /\ StartsNothing /\ answer'[Voice] = Told("none") /\ gimbal' = gimbal /\ ~Mine(job')
  BY <1>1, VoiceParts, VoiceReads
<1>3. voice.prog \notin Moves /\ voice.prog # "scan"
  BY <1>1 DEF VoiceInv, Plans, Programs, Single, Moves
<1>4. answer[Voice].result = "ok" => Quiet
  BY DEF VoiceInv, QuietThen
<1> QED BY <1>1, <1>2, <1>3, <1>4, Says

LEMMA ExtentIs ==
  /\ Extent \in Int /\ Extent > 0 /\ -Extent \in Int /\ -(-Extent) = Extent
  /\ \A e \in Sides : e \in Int /\ e # 0 /\ -e \in Sides /\ e # -e
<1>1. Extent \in Int /\ Extent > 0
  BY Consts DEF Extent
<1> QED BY <1>1 DEF Sides

\* The voice begins to move: the camera is where the status said.
LEMMA BeginsVoice ==
  ASSUME VoiceInv, SystemInv', answer[Voice].ready, Heard, voice.phase = "asked",
         voice'.phase = "next", voice'.prog = voice.prog, voice'.failed = voice.failed,
         voice'.plan # <<>>, voice'.at = answer[Voice].yaw, Plans'
  PROVE  VoiceInv'
<1>1. answer[Voice].result = "ok" /\ Quiet /\ Faces(answer[Voice].yaw)
  BY DEF VoiceInv, QuietThen, FacesIt
<1>2. /\ Clients' /\ StartsNothing /\ answer'[Voice] = Told("none") /\ gimbal' = gimbal /\ ~Mine(job')
  BY <1>1, VoiceParts, VoiceReads
<1>3. Quiet'
  BY <1>1, <1>2, QuietStays
<1>4. ~Trying' /\ ~Done'
  BY DEF Trying, Done
<1> QED BY <1>1, <1>2, <1>3, <1>4, VoiceMoves

LEMMA StatusVoice ==
  ASSUME VoiceInv, StatusAnswered, SystemInv'
  PROVE  VoiceInv'
<1> DEFINE a == answer[Voice]
<1>1. /\ voice.phase = "asked" /\ a.result # "none" /\ voice \in VoiceState /\ a \in Answers
      /\ voice.prog \in Moves
  BY VoiceParts DEF StatusAnswered, VoiceInv, Plans, Programs
<1> HIDE DEF a
<1>2. ASSUME Heard, NEW result \in {"there", "error"}, Say(result)
      PROVE  VoiceInv'
  <2>1. /\ Clients' /\ StartsNothing /\ answer'[Voice] = Told("none") /\ gimbal' = gimbal /\ ~Mine(job')
    BY <1>1, <1>2, VoiceParts, VoiceReads DEF a
  <2> QED BY <1>2, <2>1, Says
<1>3. CASE ~a.ready /\ Say("error") /\ Heard
  BY <1>2, <1>3
<1>4. CASE Ask("status", 0) /\ UNCHANGED voice
  <2>1. "status" \in Commands /\ 0 \in Yaw /\ "status" \notin Starting
    BY Consts DEF Commands, Starting
  <2>2. /\ Clients' /\ answer'[Voice] = Told("none") /\ gimbal' = gimbal /\ ~Mine(job')
    BY <1>1, <1>4, <2>1, AskFits DEF Waiting
  <2>3. ~Going' /\ ~Trying' /\ ~Done'
    BY <1>1, <1>4 DEF Going, Trying, Done
  <2>4. Plans'
    BY <1>4, <2>3 DEF VoiceInv, Plans, Programs, ScanPlans, OtherPlans
  <2> QED BY <2>2, <2>3, <2>4, VoiceMoves
<1>5. CASE a.ready /\ Heard /\ voice.prog = "scan"
           /\ voice' = [voice EXCEPT !.phase = "next", !.plan = ScanPlan(a.yaw), !.at = a.yaw]
  <2>1. /\ voice'.phase = "next" /\ voice'.plan = ScanPlan(a.yaw) /\ voice'.at = a.yaw
        /\ voice'.prog = "scan" /\ voice'.failed = voice.failed /\ ~voice'.restoring
    BY <1>1, <1>5 DEF VoiceState, VoiceInv, Plans, Programs
  <2>2. a.yaw \in Int
    BY <1>1, Consts DEF Answers
  <2>3. \E e \in Sides : voice'.plan = <<e, 0, -e>> /\ voice'.at # -e
    <3>1. CASE a.yaw > 0
      <4>1. voice'.plan = <<Extent, 0, -Extent>> /\ voice'.at # -Extent
        BY <2>1, <2>2, <3>1, ExtentIs DEF ScanPlan, Extent
      <4> QED BY <4>1 DEF Sides
    <3>2. CASE ~(a.yaw > 0)
      <4>1. voice'.plan = <<-Extent, 0, Extent>> /\ voice'.at # Extent
        BY <2>1, <2>2, <3>2, ExtentIs DEF ScanPlan, Extent
      <4> QED BY <4>1, ExtentIs DEF Sides
    <3> QED BY <3>1, <3>2
  <2>4. voice'.plan # <<>>
    BY <2>3
  <2>5. Plans'
    BY <2>1, <2>3 DEF Plans, Programs, ScanPlans, OtherPlans, Trying, Done, Moves
  <2> QED BY <1>1, <1>5, <2>1, <2>4, <2>5, BeginsVoice DEF a
<1>6. ASSUME a.ready, Heard, NEW y \in Yaw, voice.prog # "scan", y # a.yaw \/ voice.prog = "move",
             voice' = [voice EXCEPT !.phase = "next", !.plan = <<y>>, !.at = a.yaw]
      PROVE  VoiceInv'
  <2>1. /\ voice'.phase = "next" /\ voice'.plan = <<y>> /\ voice'.at = a.yaw
        /\ voice'.prog = voice.prog /\ voice'.failed = voice.failed
    BY <1>1, <1>6 DEF VoiceState
  <2>2. voice'.plan # <<>> /\ Len(voice'.plan) = 1 /\ Head(voice'.plan) = y
    BY <2>1
  <2>3. Plans'
    BY <1>1, <1>6, <2>1, <2>2 DEF Plans, Programs, ScanPlans, OtherPlans
  <2> QED BY <1>1, <1>6, <2>1, <2>2, <2>3, BeginsVoice DEF a
<1>7. CASE a.ready /\ Heard /\ ForwardTarget(a.yaw)
  <2>1. 0 \in Yaw
    BY Consts
  <2> QED BY <1>6, <1>7, <2>1 DEF ForwardTarget
<1>8. CASE a.ready /\ Heard /\ voice.prog # "scan" /\
           \E y \in Targets(voice.prog, a.yaw) :
             IF y = a.yaw THEN Say("there")
             ELSE voice' = [voice EXCEPT !.phase = "next", !.plan = <<y>>, !.at = a.yaw]
  <2>1. PICK y \in Targets(voice.prog, a.yaw) :
             IF y = a.yaw THEN Say("there")
             ELSE voice' = [voice EXCEPT !.phase = "next", !.plan = <<y>>, !.at = a.yaw]
    BY <1>8
  <2>2. y \in Yaw
    BY <1>1, TargetsYaw DEF Answers
  <2>3. CASE y = a.yaw
    BY <1>2, <1>8, <2>1, <2>3
  <2>4. CASE y # a.yaw
    BY <1>6, <1>8, <2>1, <2>2, <2>4
  <2> QED BY <2>3, <2>4
<1> QED BY <1>3, <1>4, <1>5, <1>7, <1>8 DEF StatusAnswered, a

LEMMA ReachedVoice ==
  ASSUME VoiceInv, Reached, SystemInv', voice.phase \in {"set", "confirm"},
         answer[Voice].result = "ok", ~voice.failed => Arrived(voice.goal)
  PROVE  VoiceInv'
<1>1. /\ voice'.phase = "next" /\ voice'.at = voice.goal /\ voice'.plan = voice.plan
      /\ voice'.prog = voice.prog /\ voice'.failed = voice.failed
      /\ voice'.restoring = voice.restoring /\ voice.prog \in Moves
  BY VoiceParts DEF Reached, VoiceState, VoiceInv, Plans, Programs
<1>2. /\ Clients' /\ StartsNothing /\ answer'[Voice] = Told("none") /\ gimbal' = gimbal /\ ~Mine(job')
  BY VoiceParts, VoiceReads DEF Reached
<1>3. Quiet'
  BY <1>2, QuietStays DEF VoiceInv, QuietThen
<1>4. ~Trying' /\ ~Done' /\ (Going' <=> ~voice.failed) /\ (Trying <=> ~voice.failed)
  BY <1>1 DEF Trying, Done, Going
<1>5. Plans'
  <2>1. Programs' /\ OtherPlans'
    BY <1>1 DEF VoiceInv, Plans, Programs, OtherPlans
  <2>2. ScanPlans'
    BY <1>1, <1>4 DEF VoiceInv, Plans, ScanPlans
  <2> QED BY <2>1, <2>2 DEF Plans
<1>6. ~voice.failed => Arrived(voice'.at) /\ Faces(voice'.at)
  BY <1>1, ArrivedFaces
<1> QED BY <1>2, <1>3, <1>4, <1>5, <1>6, VoiceMoves

LEMMA FailedVoice ==
  ASSUME VoiceInv, Failed, SystemInv', voice.phase \in {"set", "confirm"}, answer[Voice].result # "none"
  PROVE  VoiceInv'
<1>1. /\ voice'.phase = "next" /\ voice'.plan = voice.plan /\ voice'.prog = voice.prog
      /\ voice'.failed = TRUE /\ voice.prog \in Moves
  BY VoiceParts DEF Failed, VoiceState, VoiceInv, Plans, Programs
<1>2. /\ Clients' /\ StartsNothing /\ answer'[Voice] = Told("none") /\ gimbal' = gimbal /\ ~Mine(job')
  BY VoiceParts, VoiceReads DEF Failed
<1>3. ~Trying' /\ ~Done' /\ ~Going'
  BY <1>1 DEF Trying, Done, Going
<1>4. Plans'
  BY <1>1, <1>3 DEF VoiceInv, Plans, Programs, ScanPlans, OtherPlans
<1> QED BY <1>2, <1>3, <1>4, VoiceMoves

LEMMA SetVoice ==
  ASSUME VoiceInv, SetAnswered, SystemInv'
  PROVE  VoiceInv'
<1>1. voice.phase = "set" /\ answer[Voice].result # "none"
  BY DEF SetAnswered
<1>2. CASE answer[Voice].result = "ok"
  <2>1. ~voice.failed => Arrived(voice.goal)
    BY <1>1, <1>2 DEF VoiceInv, FacesIt, Trying
  <2> QED BY <1>1, <1>2, <2>1, ReachedVoice DEF SetAnswered
<1>3. CASE answer[Voice].result # "ok" /\ voice.prog \in {"look", "scan"}
  <2>1. /\ Ask("status", 0) /\ voice'.phase = "confirm" /\ voice'.goal = voice.goal
        /\ voice'.prog = voice.prog /\ voice'.failed = voice.failed /\ voice'.plan = voice.plan
        /\ voice'.restoring = voice.restoring
    BY <1>3, VoiceParts DEF SetAnswered, VoiceState
  <2>2. "status" \in Commands /\ 0 \in Yaw /\ "status" \notin Starting
    BY Consts DEF Commands, Starting
  <2>3. /\ Clients' /\ answer'[Voice] = Told("none") /\ gimbal' = gimbal /\ ~Mine(job') /\ StartsNothing
    BY <2>1, <2>2, AskFits DEF Waiting
  <2>4. ~Going' /\ ~Done' /\ (Trying' <=> Trying)
    BY <1>1, <2>1 DEF Going, Trying, Done
  <2>5. Plans'
    <3>1. Programs' /\ OtherPlans'
      BY <1>1, <1>3, <2>1 DEF VoiceInv, Plans, Programs, OtherPlans, Moves
    <3>2. ScanPlans'
      BY <2>1, <2>4 DEF VoiceInv, Plans, ScanPlans
    <3> QED BY <3>1, <3>2 DEF Plans
  <2>6. Trying' => Only(voice.goal)'
    <3>1. Trying => Only(voice.goal)
      BY DEF VoiceInv, QuietThen
    <3>2. \A y : Only(y) => Only(y)'
      BY <2>3, QuietStays
    <3> QED BY <2>1, <2>4, <3>1, <3>2 DEF Only
  <2>7. Trying' => Awake /\ (voice'.prog # "move" => Bound(voice'.goal))
    BY <2>1, <2>4 DEF VoiceInv, FacesIt
  <2> QED BY <2>3, <2>4, <2>5, <2>6, <2>7, VoiceMoves
<1>4. CASE answer[Voice].result # "ok" /\ voice.prog \notin {"look", "scan"}
  BY <1>1, <1>4, FailedVoice DEF SetAnswered
<1> QED BY <1>2, <1>3, <1>4

LEMMA ConfirmVoice ==
  ASSUME VoiceInv, ConfirmAnswered, SystemInv'
  PROVE  VoiceInv'
<1>1. voice.phase = "confirm" /\ answer[Voice].result # "none"
  BY DEF ConfirmAnswered
<1>2. CASE Confirms(answer[Voice])
  <2>1. answer[Voice].ready /\ answer[Voice].yaw = voice.goal /\ answer[Voice].result = "ok"
    BY <1>2 DEF Confirms, VoiceInv, QuietThen
  <2>2. ~voice.failed => Arrived(voice.goal)
    BY <1>1, <2>1 DEF VoiceInv, FacesIt, Trying
  <2> QED BY <1>1, <1>2, <2>1, <2>2, ReachedVoice DEF ConfirmAnswered
<1>3. CASE ~Confirms(answer[Voice])
  BY <1>1, <1>3, FailedVoice DEF ConfirmAnswered
<1> QED BY <1>2, <1>3

\* The next target of the plan is another one than where the camera is.
LEMMA TargetVoice ==
  ASSUME VoiceInv, SystemInv', Going, voice.plan # <<>>,
         voice.prog = "scan" => Head(voice.plan) # voice.at,
         Ask("set", Head(voice.plan)),
         voice' = [voice EXCEPT !.phase = "set", !.goal = Head(voice.plan), !.plan = Tail(@)]
  PROVE  VoiceInv'
<1>0. voice.plan \in Seq(Yaw) /\ Head(voice.plan) \in Yaw /\ Tail(voice.plan) \in Seq(Yaw)
      /\ Len(Tail(voice.plan)) = Len(voice.plan) - 1
  BY VoiceParts, HeadTailProperties DEF VoiceState
<1>1. PICK y \in Yaw : y = Head(voice.plan)
  BY <1>0
<1>2. /\ voice'.phase = "set" /\ voice'.goal = y /\ voice'.plan = Tail(voice.plan)
      /\ voice'.prog = voice.prog /\ voice'.failed = voice.failed
      /\ voice'.restoring = voice.restoring
  BY <1>1, VoiceParts DEF VoiceState
<1>3. voice.phase = "next" /\ ~voice.failed /\ voice.prog \in Moves
  BY DEF Going, VoiceInv, Plans, Programs
<1>4. "set" \in Commands /\ Ask("set", y)
  BY <1>1 DEF Commands
<1>5. /\ Clients' /\ answer'[Voice] = Told("none") /\ gimbal' = gimbal /\ ~Mine(job')
      /\ Quiet => Only(y)'
  BY <1>1, <1>2, <1>4, AskFits DEF Waiting
<1>6. Quiet /\ Faces(voice.at)
  BY DEF VoiceInv, QuietThen, FacesIt
<1>7. Trying' /\ ~Going' /\ ~Done'
  BY <1>2, <1>3 DEF Trying, Going, Done
<1>8. voice.prog # "move" => y # voice.at
  BY <1>1, <1>3 DEF VoiceInv, Plans, OtherPlans, Moves
<1>9. Awake /\ (voice.prog # "move" => Bound(y))
  BY <1>6, <1>8 DEF Faces, Bound
<1>10. Only(voice.goal)'
  BY <1>2, <1>5, <1>6 DEF Only
<1>11. ScanPlans'
  <2> SUFFICES ASSUME voice.prog = "scan"
               PROVE  /\ \/ \E e \in Sides : voice'.plan = <<0, -e>> /\ voice'.goal = e
                         \/ \E e \in Sides : voice'.plan = <<-e>> /\ voice'.goal = 0
                         \/ voice'.plan = <<>> /\ (voice'.restoring => voice'.goal = 0)
                      /\ ~voice'.restoring
    BY <1>2, <1>7 DEF ScanPlans
  <2>1. \/ \E e \in Sides : voice.plan = <<e, 0, -e>>
        \/ \E e \in Sides : voice.plan = <<0, -e>>
        \/ \E e \in Sides : voice.plan = <<-e>>
    BY DEF VoiceInv, Plans, ScanPlans
  <2>2. ~voice.restoring
    BY DEF VoiceInv, Plans, ScanPlans
  <2>3. ASSUME NEW e \in Sides, voice.plan = <<e, 0, -e>>
        PROVE  voice'.plan = <<0, -e>> /\ voice'.goal = e
    BY <1>1, <1>2, <2>3
  <2>4. ASSUME NEW e \in Sides, voice.plan = <<0, -e>>
        PROVE  voice'.plan = <<-e>> /\ voice'.goal = 0
    BY <1>1, <1>2, <2>4
  <2>5. ASSUME NEW e \in Sides, voice.plan = <<-e>>
        PROVE  voice'.plan = <<>>
    BY <1>2, <2>5
  <2> QED BY <1>2, <2>1, <2>2, <2>3, <2>4, <2>5
<1>12. Programs' /\ OtherPlans'
  <2>1. voice.prog \in {"move", "look"} => voice'.plan = <<>>
    <3>1. voice.prog \in {"move", "look"} => Len(Tail(voice.plan)) = 0
      BY <1>0, <1>3 DEF VoiceInv, Plans, OtherPlans
    <3> QED BY <1>0, <1>2, <3>1, EmptySeq
  <2> QED BY <1>2, <1>3, <2>1 DEF Programs, OtherPlans
<1> QED BY <1>2, <1>5, <1>7, <1>9, <1>10, <1>11, <1>12, VoiceMoves DEF Plans

LEMMA SkipVoice ==
  ASSUME VoiceInv, SystemInv', Going, voice.plan # <<>>, voice.prog = "scan",
         Head(voice.plan) = voice.at, voice' = [voice EXCEPT !.plan = Tail(@)], UNCHANGED vars
  PROVE  VoiceInv'
<1>1. /\ voice'.phase = "next" /\ voice'.plan = Tail(voice.plan) /\ voice'.at = voice.at
      /\ voice'.prog = "scan" /\ voice'.failed = voice.failed
      /\ voice'.restoring = voice.restoring /\ voice.phase = "next"
  BY VoiceParts DEF VoiceState, Going
<1>2. /\ Clients' /\ StartsNothing /\ ~Mine(job) /\ job' = job /\ answer' = answer /\ gimbal' = gimbal
  BY <1>1, VoiceParts, VoiceThinks DEF vars, daemonVars, Waiting
<1>3. Quiet' /\ Faces(voice.at)
  BY <1>2, QuietStays DEF VoiceInv, QuietThen, FacesIt
<1>4. \E e \in Sides : voice'.plan = <<0, -e>> /\ voice'.at = e
  <2>1. \/ \E e \in Sides : voice.plan = <<e, 0, -e>>
        \/ \E e \in Sides : voice.plan = <<0, -e>> /\ voice.at = e
        \/ \E e \in Sides : voice.plan = <<-e>> /\ voice.at = 0
    BY DEF VoiceInv, Plans, ScanPlans
  <2>2. ASSUME NEW e \in Sides, voice.plan = <<e, 0, -e>>
        PROVE  voice'.plan = <<0, -e>> /\ voice'.at = e
    BY <1>1, <2>2
  <2>3. ASSUME NEW e \in Sides, voice.plan = <<0, -e>>, voice.at = e PROVE FALSE
    BY <2>3, ExtentIs
  <2>4. ASSUME NEW e \in Sides, voice.plan = <<-e>>, voice.at = 0 PROVE FALSE
    BY <2>4, ExtentIs
  <2> QED BY <2>1, <2>2, <2>3, <2>4
<1>5. ~Trying' /\ ~Done' /\ voice'.plan # <<>> /\ ~voice'.restoring
  <2>1. voice'.plan # <<>>
    BY <1>4
  <2>2. ~voice.restoring
    BY DEF VoiceInv, Plans, ScanPlans
  <2> QED BY <1>1, <2>1, <2>2 DEF Trying, Done
<1>6. Plans'
  BY <1>1, <1>4, <1>5 DEF Plans, Programs, ScanPlans, OtherPlans, Moves
<1> QED BY <1>1, <1>2, <1>3, <1>5, <1>6, VoiceMoves

LEMMA RestoreVoice ==
  ASSUME VoiceInv, SystemInv', voice.phase = "next", voice.plan = <<>> \/ voice.failed, MustRestore,
         Ask("set", 0), voice' = [voice EXCEPT !.phase = "set", !.goal = 0, !.restoring = TRUE]
  PROVE  VoiceInv'
<1>1. /\ voice'.phase = "set" /\ voice'.goal = 0 /\ voice'.plan = voice.plan
      /\ voice'.prog = "scan" /\ voice'.failed = voice.failed
  BY VoiceParts DEF VoiceState, MustRestore
<1>2. "set" \in Commands /\ 0 \in Yaw
  BY Consts DEF Commands
<1>3. /\ Clients' /\ answer'[Voice] = Told("none") /\ gimbal' = gimbal /\ ~Mine(job')
      /\ Quiet => Only(0)'
  BY <1>1, <1>2, AskFits DEF Waiting
<1>4. ~Going' /\ ~Done' /\ (Trying' => Going /\ voice.plan = <<>>)
  BY <1>1 DEF Trying, Going, Done
<1>5. Going /\ voice.plan = <<>> => Quiet /\ Arrived(voice.at) /\ voice.at # 0
  BY DEF VoiceInv, QuietThen, FacesIt, MustRestore
<1>6. Trying' => Awake /\ Bound(0)
  BY <1>4, <1>5 DEF Arrived, Bound
<1>7. Trying' => Only(voice.goal)'
  BY <1>1, <1>3, <1>4, <1>5 DEF Only
<1>8. Plans'
  BY <1>1, <1>4 DEF Plans, Programs, ScanPlans, OtherPlans, Moves
<1> QED BY <1>1, <1>3, <1>4, <1>6, <1>7, <1>8, VoiceMoves

LEMMA NextVoice ==
  ASSUME VoiceInv, NextTarget, SystemInv'
  PROVE  VoiceInv'
<1>1. voice.phase = "next"
  BY DEF NextTarget
<1>2. CASE voice.plan # <<>> /\ ~voice.failed
  BY <1>1, <1>2, SkipVoice, TargetVoice DEF NextTarget, Going
<1>3. CASE ~(voice.plan # <<>> /\ ~voice.failed) /\ MustRestore
  BY <1>1, <1>3, RestoreVoice DEF NextTarget
<1>4. CASE ~(voice.plan # <<>> /\ ~voice.failed) /\ ~MustRestore
  <2> DEFINE result == IF voice.failed THEN "error" ELSE "ok"
  <2>1. Say(result) /\ UNCHANGED vars /\ result \in {"there", "ok", "error"}
    BY <1>4 DEF NextTarget
  <2>2. /\ Clients' /\ StartsNothing /\ ~Mine(job) /\ job' = job /\ answer' = answer /\ gimbal' = gimbal
    BY <1>1, <2>1, VoiceParts, VoiceThinks DEF vars, daemonVars, Waiting
  <2>3. result = "ok" => Going /\ voice.plan = <<>>
    BY <1>1, <1>4 DEF Going
  <2>4. result = "ok" => Quiet /\ Arrived(voice.at)
    BY <2>3 DEF VoiceInv, QuietThen, FacesIt
  <2>5. result = "ok" /\ voice.prog = "scan" => voice.at = 0
    BY <1>4, <2>3 DEF VoiceInv, Plans, ScanPlans, MustRestore
  <2> HIDE DEF result
  <2> QED BY <2>1, <2>2, <2>4, <2>5, Says
<1> QED BY <1>2, <1>3, <1>4

LEMMA TimeoutVoice ==
  ASSUME VoiceInv, CallTimeout, SystemInv'
  PROVE  VoiceInv'
<1>1. GiveUp(Voice) /\ UNCHANGED voice /\ gimbal' = gimbal
  BY DEF CallTimeout, GiveUp
<1>2. Clients' /\ StartsNothing /\ answer'[Voice] = Told("error") /\ ~Mine(job')
  BY <1>1, VoiceParts, VoiceGivesUp
<1>3. Beliefs'
  BY <1>1, <1>2, VoiceParts, StandsTurns, Waits
<1>4. Seen'
  BY <1>2 DEF Seen, Mine
<1> QED BY <1>1, <1>2, <1>3, <1>4, WaitsInv

LEMMA RefusedVoice ==
  ASSUME VoiceInv, CallRefused, SystemInv'
  PROVE  VoiceInv'
<1>1. Say("error") /\ UNCHANGED vars /\ ~(voice.phase \in Waiting /\ answer[Voice].result = "none")
  BY DEF CallRefused, Waiting
<1>2. /\ Clients' /\ StartsNothing /\ ~Mine(job) /\ job' = job /\ answer' = answer /\ gimbal' = gimbal
  BY <1>1, VoiceParts, VoiceThinks DEF vars, daemonVars
<1> QED BY <1>1, <1>2, Says

-----------------------------------------------------------------------------
(* The inductive invariant and what it gives. *)

LEMMA VoiceInvInit == VoiceInit => VoiceInv
<1> SUFFICES ASSUME VoiceInit PROVE VoiceInv
  OBVIOUS
<1>1. SystemInv
  BY SystemInit
<1>2. /\ backlog = <<>> /\ wire = <<>> /\ job = NoJob /\ stage = "none" /\ gimbal.state = "disabled"
      /\ voice = Silent /\ answer[Voice] = Told("none")
  BY VoiceAssumption DEF VoiceInit, Init
<1>3. DOMAIN backlog = {} /\ DOMAIN wire = {}
  BY <1>2, EmptySeq
<1>4. Calls = {NoJob} /\ Orders = {} /\ NoJob.from # Voice /\ ~NoJob.live /\ NoJob.cmd \notin Starting
  BY <1>1, <1>2, <1>3, CallTypes DEF Calls, Orders, SystemInv, DaemonInv
<1>5. Clients
  BY <1>2, <1>3, <1>4 DEF Clients, OnlyVoiceStarts, OneCall, CallFits, Mine
<1>6. ~Going /\ ~Trying /\ ~Done /\ voice.phase = "idle"
  BY <1>2 DEF Silent, Going, Trying, Done
<1>7. Plans
  BY <1>6 DEF Plans, Programs, ScanPlans, OtherPlans
<1>8. QuietThen /\ FacesIt /\ Seen
  BY <1>2, <1>6 DEF QuietThen, FacesIt, Seen, Told
<1> QED BY <1>1, <1>5, <1>7, <1>8 DEF VoiceInv

LEMMA VoiceInvStep == VoiceInv /\ [VoiceNext]_voiceVars => VoiceInv'
<1> SUFFICES ASSUME VoiceInv, [VoiceNext]_voiceVars PROVE VoiceInv'
  OBVIOUS
<1>1. SystemInv'
  BY SystemStep DEF VoiceInv
<1>2. CASE VoiceStep
  BY <1>1, <1>2, HearVoice, CallAnsweredVoice, StatusVoice, NextVoice, SetVoice, ConfirmVoice,
     TimeoutVoice, RefusedVoice DEF VoiceStep
<1>3. CASE OtherStep
  BY <1>1, <1>3, OthersVoice
<1>4. CASE Daemon /\ UNCHANGED voice
  BY <1>1, <1>4, AcceptVoice, BeginVoice, SendVoice, RecvVoice, LostVoice DEF Daemon, Serving
<1>5. CASE Environment /\ UNCHANGED voice
  BY <1>1, <1>5, ServesVoice, CutsVoice, MovesVoice DEF Environment
<1>6. CASE UNCHANGED voiceVars
  <2>1. UNCHANGED <<voice, backlog, job, answer, wire, inbox, awaiting, sequence, stage, link, faults>>
        /\ gimbal' = gimbal
    BY <1>6 DEF voiceVars, vars, daemonVars, faultVars
  <2>2. Orders' = Orders
    BY <2>1 DEF Orders
  <2>3. Clients' /\ StartsNothing
    BY <2>1, <2>2, VoiceParts, SameClients DEF Pending
  <2>4. Beliefs'
    BY <2>1, <2>3, VoiceParts, StandsTurns, Waits
  <2>5. InSync' => InSync
    BY <2>1, VoiceParts, UntouchedInOrder
  <2>6. Here' = Here /\ Trying' = Trying
    BY <2>1 DEF Here, Trying
  <2>7. Seen'
    BY <2>1, <2>5, <2>6 DEF VoiceInv, Seen, Arrived, Awake, Mine
  <2> QED BY <1>1, <2>1, <2>3, <2>4, <2>7, WaitsInv
<1> QED BY <1>2, <1>3, <1>4, <1>5, <1>6 DEF VoiceNext

LEMMA VoiceInvariant == VoiceSpec => []VoiceInv
BY VoiceInvInit, VoiceInvStep, PTL DEF VoiceSpec

\* A voice program that reports success leaves the camera where it said
\* (_set_target_confirmed), also after calls that timed out and were carried out late.
THEOREM WhatIsSaidIsDone == VoiceSpec => []SaidIsDone
<1>1. VoiceInv => SaidIsDone
  BY DEF VoiceInv, FacesIt, Done, Arrived, SaidIsDone
<1> QED BY <1>1, VoiceInvariant, PTL

\* execute_surroundings_scan reports success only with the camera turned ahead again.
THEOREM ScanReturnsAhead == VoiceSpec => []ScanEndsAhead
<1>1. VoiceInv => ScanEndsAhead
  BY DEF VoiceInv, FacesIt, Plans, ScanPlans, Done, Arrived, ScanEndsAhead, Moves
<1> QED BY <1>1, VoiceInvariant, PTL
=============================================================================
