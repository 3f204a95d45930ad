------------------------- MODULE RpmsgBroker_proof -------------------------
(***************************************************************************)
(* Proofs about RpmsgBroker, for any number of connections, requests and   *)
(* restarts and any width of the sequence number.                          *)
(***************************************************************************)
EXTENDS RpmsgBroker, SequenceTheorems, TLAPS

\* Drawing a number is a cyclic step through 1 .. SequenceMod - 1.
LEMMA NextSeqStep ==
  ASSUME NEW s \in Seqs
  PROVE  NextSeq(s) = IF s = SequenceMod - 1 THEN 1 ELSE s + 1
<1>1. SequenceMod \in Nat /\ SequenceMod > 2
  BY SeqAssumption
<1>2. s \in 0..(SequenceMod - 1)
  BY DEF Seqs
<1>3. CASE s = SequenceMod - 1
  <2>1. s + 1 = SequenceMod
    BY <1>1, <1>3
  <2>2. SequenceMod % SequenceMod = 0
    BY <1>1
  <2>3. (s + 1) % SequenceMod = 0
    BY <2>1, <2>2
  <2> QED
    BY <2>3, <1>3 DEF NextSeq
<1>4. CASE s # SequenceMod - 1
  <2>1. s + 1 \in 1..(SequenceMod - 1)
    BY <1>1, <1>2, <1>4
  <2>2. (s + 1) % SequenceMod = s + 1
    BY <1>1, <2>1
  <2>3. s + 1 # 0
    BY <2>1
  <2> QED
    BY <2>2, <2>3, <1>4 DEF NextSeq
<1> QED
  BY <1>3, <1>4

\* Queues of frames: what the queue operators do to the set of their elements.
LEMMA QueueAppend ==
  ASSUME NEW S, NEW q \in Seq(S), NEW e \in S
  PROVE  /\ Append(q, e) \in Seq(S)
         /\ ToSet(Append(q, e)) = ToSet(q) \cup {e}
  BY AppendProperties DEF ToSet

LEMMA QueueTail ==
  ASSUME NEW S, NEW q \in Seq(S), q # <<>>
  PROVE  /\ Head(q) \in ToSet(q) /\ Head(q) \in S
         /\ Tail(q) \in Seq(S)
         /\ ToSet(Tail(q)) \subseteq ToSet(q)
<1>1. /\ Tail(q) \in Seq(S) /\ Len(Tail(q)) = Len(q) - 1 /\ Len(q) \in Nat /\ Len(q) > 0
      /\ \A i \in 1..Len(Tail(q)) : Tail(q)[i] = q[i + 1]
      /\ Head(q) = q[1]
  BY HeadTailProperties, EmptySeq, LenProperties
<1>2. DOMAIN q = 1..Len(q) /\ DOMAIN Tail(q) = 1..Len(Tail(q))
  BY <1>1, LenProperties
<1>3. \A i \in 1..Len(q) : q[i] \in S
  BY ElementOfSeq
<1> QED
  BY <1>1, <1>2, <1>3 DEF ToSet

LEMMA QueueConcat ==
  ASSUME NEW S, NEW q \in Seq(S), NEW r \in Seq(S)
  PROVE  /\ q \o r \in Seq(S)
         /\ ToSet(q \o r) = ToSet(q) \cup ToSet(r)
<1>1. /\ q \o r \in Seq(S) /\ Len(q \o r) = Len(q) + Len(r)
      /\ \A i \in 1 .. Len(q) + Len(r) :
           (q \o r)[i] = IF i <= Len(q) THEN q[i] ELSE r[i - Len(q)]
  BY ConcatProperties
<1>2. DOMAIN q = 1..Len(q) /\ DOMAIN r = 1..Len(r) /\ DOMAIN (q \o r) = 1..Len(q \o r)
      /\ Len(q) \in Nat /\ Len(r) \in Nat
  BY <1>1, LenProperties
<1>3. ASSUME NEW x \in ToSet(q \o r) PROVE x \in ToSet(q) \cup ToSet(r)
  <2>1. PICK i \in 1 .. Len(q) + Len(r) : x = (q \o r)[i]
    BY <1>1, <1>2 DEF ToSet
  <2>2. CASE i <= Len(q)
    BY <1>1, <1>2, <2>1, <2>2 DEF ToSet
  <2>3. CASE i > Len(q)
    <3>1. i - Len(q) \in 1..Len(r) /\ x = r[i - Len(q)]
      BY <1>1, <1>2, <2>1, <2>3
    <3> QED
      BY <1>2, <3>1 DEF ToSet
  <2> QED
    BY <1>2, <2>2, <2>3
<1>4. ASSUME NEW x \in ToSet(q) PROVE x \in ToSet(q \o r)
  BY <1>1, <1>2 DEF ToSet
<1>5. ASSUME NEW x \in ToSet(r) PROVE x \in ToSet(q \o r)
  <2>1. PICK i \in 1..Len(r) : x = r[i]
    BY <1>2 DEF ToSet
  <2>2. /\ i + Len(q) \in 1 .. Len(q) + Len(r)
        /\ ~(i + Len(q) <= Len(q)) /\ i + Len(q) - Len(q) = i
    BY <1>2
  <2>3. (q \o r)[i + Len(q)] = x
    BY <1>1, <2>1, <2>2
  <2> QED
    BY <1>1, <1>2, <2>2, <2>3 DEF ToSet
<1> QED
  BY <1>1, <1>3, <1>4, <1>5

LEMMA QueueTypes ==
  ASSUME NEW S, NEW q \in Seq(S)
  PROVE  ToSet(q) \subseteq S
  BY ElementOfSeq, LenProperties DEF ToSet

-----------------------------------------------------------------------------
(* The inductive invariant. *)

\* The number drawn d transactions ago.
SeqBack(d) ==
  IF d < sequence THEN sequence - d ELSE sequence - d + (SequenceMod - 1)

\* A frame of this incarnation is young enough for its number to be unique, and
\* that of the transaction in progress belongs to the lock holder's request.
FrameOK(f) ==
  /\ f.run <= run
  /\ f.run = run =>
       /\ f.txn <= txn
       /\ txn - f.txn <= SequenceMod - 2
       /\ f.seq = SeqBack(txn - f.txn)
       /\ f.txn = txn /\ lock # NoConn => f.id = req[lock]

FramesOK == \A f \in InFlight : FrameOK(f)

SendOK == \A k \in Conn : pc[k] = "send" =>
            /\ reply[k].run <= run
            /\ reply[k].run = run => reply[k].id = req[k]

\* A thread that left recv has a request in hand.
BusyOK == \A k \in Conn : pc[k] \in {"lock", "wait", "send"} => req[k] \in ReqId

IInv == TypeOK /\ BusyOK /\ SerialDevice /\ FramesOK /\ SendOK

LEMMA NoFrameType == NoFrame \in Frame
<1>1. 0 \in Seqs
  BY SeqAssumption DEF Seqs
<1> QED
  BY <1>1 DEF NoFrame, Frame, NoId

LEMMA InitInv == Init => IInv
<1> SUFFICES ASSUME Init PROVE IInv
  OBVIOUS
<1>1. TypeOK
  <2>1. 0 \in Seqs /\ 0 \in 0..MaxReq /\ 0 \in 0..MaxRestarts
    BY SeqAssumption, BoundAssumption DEF Seqs
  <2>2. <<>> \in Seq(ReqId) /\ <<>> \in Seq(Frame)
    BY EmptySeq
  <2> QED
    BY <2>1, <2>2, NoFrameType DEF Init, TypeOK
<1>2. BusyOK /\ SerialDevice /\ SendOK
  BY ConnAssumption DEF Init, BusyOK, SerialDevice, SendOK
<1>3. FramesOK
  BY DEF Init, FramesOK, InFlight, ToSet
<1> QED
  BY <1>1, <1>2, <1>3 DEF IInv

-----------------------------------------------------------------------------
(* Types. *)

LEMMA EndThreadTypes ==
  ASSUME TypeOK, NEW k \in Conn, NEW lost \in SUBSET ReqId, EndThread(k, lost)
  PROVE  /\ pc' \in [Conn -> {"free", "recv", "lock", "wait", "send"}]
         /\ peerOpen' \in [Conn -> BOOLEAN]
         /\ inbox' \in [Conn -> Seq(ReqId)]
         /\ req' \in [Conn -> ReqId \cup {NoId}]
         /\ reply' \in [Conn -> Frame]
         /\ failed' \in SUBSET ReqId
<1>2. ToSet(inbox[k]) \subseteq ReqId
  BY QueueTypes DEF TypeOK
<1>3. <<>> \in Seq(ReqId)
  BY EmptySeq
<1> QED
  BY NoFrameType, <1>2, <1>3 DEF TypeOK, EndThread

LEMMA SeqTypes ==
  ASSUME TypeOK
  PROVE  NextSeq(sequence) \in Seqs /\ NextSeq(sequence) # 0
<1>1. sequence \in Seqs
  BY DEF TypeOK
<1>2. /\ NextSeq(sequence) = IF sequence = SequenceMod - 1 THEN 1 ELSE sequence + 1
      /\ SequenceMod \in Nat /\ SequenceMod > 2
  BY <1>1, NextSeqStep, SeqAssumption
<1> QED
  BY <1>1, <1>2 DEF Seqs

LEMMA TypeInv == TypeOK /\ BusyOK /\ [Next]_vars => TypeOK'
<1> SUFFICES ASSUME TypeOK, BusyOK, [Next]_vars PROVE TypeOK'
  OBVIOUS
<1> USE DEF threadVars, deviceVars, clientVars, linkVars
<1>1. ASSUME NEW k \in Conn, Accept(k) PROVE TypeOK'
  BY <1>1 DEF TypeOK, Accept
<1>2. CASE AcceptFails \/ AcceptMonitor \/ DeadlinePasses
  BY <1>2 DEF TypeOK, AcceptFails, AcceptMonitor, DeadlinePasses
<1>17. ASSUME NEW t \in Threads, RequestStop(t) PROVE TypeOK'
  BY <1>17 DEF TypeOK, RequestStop
<1>3. CASE JoinMonitor \/ Kill
  <2>1. ProcessGone
    BY <1>3 DEF JoinMonitor, Kill
  <2>2. \A k \in Conn : ToSet(inbox[k]) \subseteq ReqId
    BY QueueTypes DEF TypeOK
  <2>3. failed' \in SUBSET ReqId
    <3> DEFINE queued == UNION {ToSet(inbox[k]) : k \in Conn}
               inHand == {req[k] : k \in Conn} \ {NoId}
    <3>1. inHand \subseteq ReqId
      BY DEF TypeOK
    <3>2. queued \subseteq ReqId
      <4>1. SUFFICES ASSUME NEW x \in queued PROVE x \in ReqId
        OBVIOUS
      <4>2. PICK k \in Conn : x \in ToSet(inbox[k])
        OBVIOUS
      <4> QED
        BY <2>2, <4>2
    <3>3. failed' = failed \cup queued \cup inHand
      BY <2>1, Zenon DEF ProcessGone
    <3>4. failed \subseteq ReqId
      BY DEF TypeOK
    <3> HIDE DEF queued, inHand
    <3> QED
      BY <3>1, <3>2, <3>3, <3>4
  <2>4. <<>> \in Seq(ReqId)
    BY EmptySeq
  <2> QED
    BY <2>1, <2>3, <2>4, NoFrameType DEF ProcessGone, TypeOK, NoId
<1>4. CASE Restart
  <2>1. 0 \in Seqs /\ run' \in 0..MaxRestarts
    BY <1>4, SeqAssumption, BoundAssumption DEF Seqs, TypeOK, Restart
  <2>2. <<>> \in Seq(Frame)
    BY EmptySeq
  <2> QED
    BY <1>4, <2>1, <2>2 DEF TypeOK, Restart
<1>5. ASSUME NEW k \in Conn, ClientSend(k) PROVE TypeOK'
  <2>1. issued + 1 \in ReqId /\ issued' \in 0..MaxReq
    BY <1>5, BoundAssumption DEF TypeOK, ClientSend, ReqId
  <2>2. Append(inbox[k], issued + 1) \in Seq(ReqId)
    BY <2>1, QueueAppend DEF TypeOK
  <2> QED
    BY <1>5, <2>1, <2>2 DEF TypeOK, ClientSend
<1>6. ASSUME NEW k \in Conn, ClientClose(k) PROVE TypeOK'
  BY <1>6 DEF TypeOK, ClientClose
<1>7. ASSUME NEW k \in Conn, ReceiveRequest(k) PROVE TypeOK'
  BY <1>7, QueueTail DEF TypeOK, ReceiveRequest
<1>8. ASSUME NEW k \in Conn, ReceiveFails(k) PROVE TypeOK'
  BY <1>8, EndThreadTypes DEF TypeOK, ReceiveFails
<1>9. ASSUME NEW k \in Conn, BeginTransaction(k) PROVE TypeOK'
  <2> DEFINE f == [seq |-> sequence', id |-> req[k], txn |-> txn', run |-> run,
                   intact |-> TRUE]
  <2>1. sequence' \in Seqs /\ txn' \in Nat /\ run \in Nat
    BY <1>9, SeqTypes DEF BeginTransaction, BeforeDevice, TypeOK
  <2>2. f \in Frame
    BY <2>1 DEF Frame, TypeOK
  <2>3. toSlave' \in Seq(Frame)
    BY <1>9, <2>2, QueueAppend DEF BeginTransaction, BeforeDevice, TypeOK
  <2> QED
    BY <1>9, <2>1, <2>3 DEF BeginTransaction, BeforeDevice, TypeOK
<1>10. ASSUME NEW k \in Conn, WriteFails(k) PROVE TypeOK'
  <2>1. sequence' \in Seqs /\ {req[k]} \in SUBSET ReqId
    BY <1>10, SeqTypes DEF WriteFails, BeforeDevice, TypeOK, BusyOK
  <2> QED
    BY <1>10, <2>1, EndThreadTypes DEF WriteFails, BeforeDevice, TypeOK
<1>11. ASSUME NEW k \in Conn, ReadFrame(k) PROVE TypeOK'
  <2>1. toHost' \in Seq(Frame) /\ Head(toHost) \in Frame
    BY <1>11, QueueTail DEF ReadFrame, IsReply, TypeOK
  <2> QED
    BY <1>11, <2>1 DEF ReadFrame, IsReply, TypeOK
<1>12. ASSUME NEW k \in Conn, TransactionFails(k) PROVE TypeOK'
  <2>1. {req[k]} \in SUBSET ReqId
    BY <1>12 DEF TransactionFails, BusyOK
  <2> QED
    BY <1>12, <2>1, EndThreadTypes DEF TransactionFails, TypeOK
<1>13. ASSUME NEW k \in Conn, SendReply(k) PROVE TypeOK'
  <2>0. req[k] \in ReqId /\ {req[k]} \in SUBSET ReqId /\ {} \in SUBSET ReqId
    BY <1>13 DEF SendReply, BusyOK
  <2>1. CASE ~peerOpen[k]
    BY <1>13, <2>0, <2>1, EndThreadTypes DEF SendReply, TypeOK
  <2>2. CASE peerOpen[k] /\ stopping
    <3>1. EndThread(k, {})
      BY <1>13, <2>2 DEF SendReply
    <3> QED
      BY <1>13, <2>0, <2>2, <3>1, EndThreadTypes DEF SendReply, TypeOK
  <2>3. CASE peerOpen[k] /\ ~stopping
    BY <1>13, <2>3, NoFrameType DEF SendReply, TypeOK
  <2> QED
    BY <2>1, <2>2, <2>3 DEF TypeOK
<1>14. CASE SlaveHandles
  <2>1. toSlave' \in Seq(Frame) /\ Head(toSlave) \in Frame
    BY <1>14, QueueTail DEF SlaveHandles, TypeOK
  <2>2. [Head(toSlave) EXCEPT !.intact = FALSE] \in Frame
    BY <2>1 DEF Frame
  <2>3. \A g \in Frame : <<g>> \in Seq(Frame)
    OBVIOUS
  <2>4. toHost' \in Seq(Frame)
    <3>1. PICK r \in {<<>>, <<Head(toSlave)>>, <<[Head(toSlave) EXCEPT !.intact = FALSE]>>} :
            toHost' = IF main = "exited" THEN toHost ELSE toHost \o r
      BY <1>14 DEF SlaveHandles
    <3>2. r \in Seq(Frame)
      BY <2>1, <2>2, <2>3, EmptySeq, <3>1
    <3>3. toHost \o r \in Seq(Frame)
      BY <3>2, ConcatProperties DEF TypeOK
    <3> QED
      BY <3>1, <3>3 DEF TypeOK
  <2>5. executed' \in [ReqId -> Nat]
    <3>1. executed' = [executed EXCEPT ![Head(toSlave).id] = executed[Head(toSlave).id] + 1]
      BY <1>14 DEF SlaveHandles
    <3>2. executed \in [ReqId -> Nat]
      BY DEF TypeOK
    <3>3. CASE Head(toSlave).id \in ReqId
      BY <3>1, <3>2, <3>3
    <3>4. CASE Head(toSlave).id \notin ReqId
      BY <3>1, <3>2, <3>4
    <3> QED
      BY <3>3, <3>4
  <2> QED
    BY <1>14, <2>1, <2>4, <2>5 DEF SlaveHandles, TypeOK
<1>15. CASE SlaveIgnores
  BY <1>15, QueueTail DEF TypeOK, SlaveIgnores
<1>16. CASE UNCHANGED vars
  BY <1>16 DEF TypeOK, vars
<1> QED
  BY <1>1, <1>2, <1>3, <1>4, <1>5, <1>6, <1>7, <1>8, <1>9, <1>10, <1>11, <1>12,
     <1>13, <1>14, <1>15, <1>16, <1>17 DEF Next, Client, ServeClient

-----------------------------------------------------------------------------
(* The device and its lock. *)

LEMMA BusyInv == TypeOK /\ BusyOK /\ [Next]_vars => BusyOK'
<1> SUFFICES ASSUME TypeOK, BusyOK, [Next]_vars PROVE BusyOK'
  OBVIOUS
<1> USE DEF BusyOK, TypeOK, threadVars, deviceVars, clientVars, linkVars
<1>1. ASSUME NEW k \in Conn, ServeClient(k) PROVE BusyOK'
  <2>1. CASE ReceiveRequest(k)
    BY <2>1, QueueTail DEF ReceiveRequest
  <2>2. CASE ReceiveFails(k) \/ WriteFails(k) \/ TransactionFails(k)
    BY <2>2 DEF ReceiveFails, WriteFails, BeforeDevice, TransactionFails, EndThread
  <2>3. CASE BeginTransaction(k) \/ ReadFrame(k)
    BY <2>3 DEF BeginTransaction, BeforeDevice, ReadFrame, IsReply
  <2>4. CASE SendReply(k)
    BY <2>4 DEF SendReply, EndThread
  <2> QED
    BY <1>1, <2>1, <2>2, <2>3, <2>4 DEF ServeClient
<1>2. ASSUME NEW k \in Conn, Accept(k) \/ Client(k) PROVE BusyOK'
  BY <1>2 DEF Accept, Client, ClientSend, ClientClose
<1>3. CASE JoinMonitor \/ Kill
  BY <1>3 DEF JoinMonitor, Kill, ProcessGone
<1>4. CASE AcceptFails \/ AcceptMonitor \/ Restart \/ DeadlinePasses \/ SlaveHandles
           \/ SlaveIgnores \/ UNCHANGED vars \/ \E t \in Threads : RequestStop(t)
  BY <1>4 DEF AcceptFails, AcceptMonitor, Restart, DeadlinePasses, SlaveHandles,
              SlaveIgnores, RequestStop, vars
<1> QED
  BY <1>1, <1>2, <1>3, <1>4 DEF Next

LEMMA SerialInv == TypeOK /\ SerialDevice /\ [Next]_vars => SerialDevice'
<1> SUFFICES ASSUME TypeOK, SerialDevice, [Next]_vars PROVE SerialDevice'
  OBVIOUS
<1> USE ConnAssumption DEF SerialDevice, TypeOK, threadVars, deviceVars, clientVars, linkVars
<1>1. ASSUME NEW k \in Conn, ServeClient(k) PROVE SerialDevice'
  <2>1. CASE ReceiveRequest(k)
    BY <2>1 DEF ReceiveRequest
  <2>2. CASE ReceiveFails(k) \/ WriteFails(k) \/ TransactionFails(k)
    BY <2>2 DEF ReceiveFails, WriteFails, BeforeDevice, TransactionFails, EndThread
  <2>3. CASE BeginTransaction(k) \/ ReadFrame(k)
    BY <2>3 DEF BeginTransaction, BeforeDevice, ReadFrame, IsReply
  <2>4. CASE SendReply(k)
    BY <2>4 DEF SendReply, EndThread
  <2> QED
    BY <1>1, <2>1, <2>2, <2>3, <2>4 DEF ServeClient
<1>2. ASSUME NEW k \in Conn, Accept(k) \/ Client(k) PROVE SerialDevice'
  BY <1>2 DEF Accept, Client, ClientSend, ClientClose
<1>3. CASE JoinMonitor \/ Kill
  BY <1>3 DEF JoinMonitor, Kill, ProcessGone
<1>4. CASE AcceptFails \/ AcceptMonitor \/ Restart \/ DeadlinePasses \/ SlaveHandles
           \/ SlaveIgnores \/ UNCHANGED vars \/ \E t \in Threads : RequestStop(t)
  BY <1>4 DEF AcceptFails, AcceptMonitor, Restart, DeadlinePasses, SlaveHandles,
              SlaveIgnores, RequestStop, vars
<1> QED
  BY <1>1, <1>2, <1>3, <1>4 DEF Next

-----------------------------------------------------------------------------
(* Sequence numbers. *)

\* A frame keeps its claim to its number when it stays on the link and neither
\* the number, the incarnation nor the lock holder's request changes.
LEMMA FrameKept ==
  ASSUME NEW f, FrameOK(f), UNCHANGED <<run, txn, sequence>>,
         lock' = NoConn \/ (lock' = lock /\ req'[lock] = req[lock])
  PROVE  FrameOK(f)'
  BY DEF FrameOK, SeqBack

\* A new number is drawn: the frames the link still holds remain distinguishable.
LEMMA FrameAges ==
  ASSUME TypeOK, NEW f \in InFlight, FrameOK(f), LinkKeepsUp,
         sequence' = NextSeq(sequence), txn' = txn + 1, UNCHANGED run
  PROVE  FrameOK(f)'
<1>1. f \in Frame
  BY QueueTypes DEF InFlight, TypeOK
<1>2. /\ f.txn \in Nat /\ f.seq \in Seqs /\ f.run \in Nat
      /\ txn \in Nat /\ sequence \in Seqs /\ run \in Nat
  BY <1>1 DEF Frame, TypeOK
<1>3. CASE f.run # run
  BY <1>2, <1>3 DEF FrameOK
<1>4. CASE f.run = run
  <2>1. /\ f.txn <= txn /\ txn - f.txn <= SequenceMod - 2
        /\ f.seq = SeqBack(txn - f.txn)
    BY <1>4 DEF FrameOK
  <2>2. txn + 1 - f.txn < LinkWindow
    BY <1>4 DEF LinkKeepsUp
  <2>3. LinkWindow \in Nat /\ SequenceMod \in Nat /\ LinkWindow < SequenceMod
    BY SeqAssumption, WindowAssumption
  <2>4. txn' - f.txn <= SequenceMod - 2 /\ f.txn <= txn' /\ f.txn # txn'
    BY <1>2, <2>1, <2>2, <2>3
  <2>5. sequence' = IF sequence = SequenceMod - 1 THEN 1 ELSE sequence + 1
    BY <1>2, NextSeqStep
  <2>6. f.seq = SeqBack(txn - f.txn)'
    <3>1. /\ f.seq = IF txn - f.txn < sequence THEN sequence - (txn - f.txn)
                     ELSE sequence - (txn - f.txn) + (SequenceMod - 1)
          /\ sequence \in 0..(SequenceMod - 1)
      BY <1>2, <2>1 DEF SeqBack, Seqs
    <3>2. f.seq = IF txn + 1 - f.txn < sequence' THEN sequence' - (txn + 1 - f.txn)
                  ELSE sequence' - (txn + 1 - f.txn) + (SequenceMod - 1)
      <4>1. CASE sequence = SequenceMod - 1
        BY <3>1, <4>1, <2>5, <2>1, <2>4, <2>3, <1>2
      <4>2. CASE sequence # SequenceMod - 1
        BY <3>1, <4>2, <2>5, <2>1, <2>3, <1>2
      <4> QED
        BY <4>1, <4>2
    <3>3. txn' = txn + 1
      OBVIOUS
    <3> QED
      BY <3>2, <3>3, <2>3, <1>2 DEF SeqBack
  <2> QED
    BY <1>2, <1>4, <2>4, <2>6 DEF FrameOK
<1> QED
  BY <1>3, <1>4

\* A frame that has just been given its number.
FreshOK(t, now, s, current) ==
  /\ t <= now /\ now - t <= SequenceMod - 2
  /\ s = IF now - t < current THEN current - (now - t)
         ELSE current - (now - t) + (SequenceMod - 1)

LEMMA FreshNumber ==
  ASSUME NEW n \in Nat, NEW s \in Seqs, s # 0
  PROVE  FreshOK(n, n, s, s)
<1>1. SequenceMod \in Nat /\ SequenceMod > 2 /\ s \in 0..(SequenceMod - 1)
  BY SeqAssumption DEF Seqs
<1>2. n - n = 0
  OBVIOUS
<1> QED
  BY <1>1, <1>2 DEF FreshOK

LEMMA FramesInv == IInv /\ [Next]_vars => FramesOK'
<1> SUFFICES ASSUME IInv, [Next]_vars, NEW f \in InFlight' PROVE FrameOK(f)'
  BY DEF FramesOK
<1> USE DEF threadVars, deviceVars, clientVars, linkVars
<1>0. TypeOK /\ SerialDevice /\ FramesOK
  BY DEF IInv
<1>1. ASSUME NEW k \in Conn, BeginTransaction(k) PROVE FrameOK(f)'
  <2>1. PICK g : /\ g = [seq |-> sequence', id |-> req[k], txn |-> txn', run |-> run,
                         intact |-> TRUE]
                 /\ toSlave' = Append(toSlave, g)
    BY <1>1 DEF BeginTransaction, BeforeDevice
  <2>2. /\ sequence' = NextSeq(sequence) /\ txn' = txn + 1 /\ run' = run /\ lock' = k
        /\ toHost' = toHost /\ req' = req /\ LinkKeepsUp
    BY <1>1 DEF BeginTransaction, BeforeDevice
  <2>3. sequence' \in Seqs /\ sequence' # 0 /\ txn' \in Nat /\ run \in Nat
    BY <1>0, <2>2, SeqTypes DEF TypeOK
  <2>4. g \in Frame
    BY <1>0, <2>1, <2>3 DEF Frame, TypeOK
  <2>5. ToSet(toSlave') = ToSet(toSlave) \cup {g}
    <3>1. toSlave \in Seq(Frame)
      BY <1>0 DEF TypeOK
    <3>2. ToSet(Append(toSlave, g)) = ToSet(toSlave) \cup {g}
      BY <2>4, <3>1, QueueAppend
    <3> QED
      BY <2>1, <3>2, Zenon
  <2>6. f \in InFlight \/ f = g
    BY <2>2, <2>5 DEF InFlight
  <2>7. CASE f \in InFlight
    BY <1>0, <2>2, <2>7, FrameAges DEF FramesOK
  <2>8. CASE f = g
    <3>1. f.run = run /\ f.txn = txn' /\ f.seq = sequence' /\ f.id = req[k]
      BY <2>1, <2>8
    <3>2. FreshOK(f.txn, txn', f.seq, sequence')
      BY <2>3, <3>1, FreshNumber
    <3> QED
      BY <2>2, <2>3, <3>1, <3>2 DEF FrameOK, SeqBack, FreshOK
  <2> QED
    BY <2>6, <2>7, <2>8
<1>2. ASSUME NEW k \in Conn, WriteFails(k) PROVE FrameOK(f)'
  BY <1>0, <1>2, FrameAges DEF WriteFails, BeforeDevice, FramesOK, InFlight
<1>3. ASSUME NEW k \in Conn, ReadFrame(k) PROVE FrameOK(f)'
  <2>1. f \in InFlight
    BY <1>0, <1>3, QueueTail DEF ReadFrame, IsReply, InFlight, TypeOK
  <2>2. /\ UNCHANGED <<run, txn, sequence, req>>
        /\ lock' = NoConn \/ lock' = lock
    BY <1>3 DEF ReadFrame, IsReply
  <2> QED
    BY <1>0, <2>1, <2>2, FrameKept DEF FramesOK
<1>4. ASSUME NEW k \in Conn, TransactionFails(k) \/ ReceiveFails(k) \/ SendReply(k)
                             \/ ReceiveRequest(k)
      PROVE  FrameOK(f)'
  <2>1. f \in InFlight /\ UNCHANGED <<run, txn, sequence>>
    BY <1>4 DEF TransactionFails, ReceiveFails, SendReply, ReceiveRequest, InFlight
  <2>2. lock' = NoConn \/ (lock' = lock /\ \A j \in Conn \ {k} : req'[j] = req[j])
    BY <1>0, <1>4 DEF TransactionFails, ReceiveFails, SendReply, ReceiveRequest, EndThread, TypeOK
  <2>3. lock' = NoConn \/ (lock' = lock /\ (lock # k \/ req'[k] = req[k]))
    BY <1>0, <1>4 DEF TransactionFails, ReceiveFails, SendReply, ReceiveRequest, EndThread,
                      TypeOK, SerialDevice
  <2> QED
    BY <1>0, <2>1, <2>2, <2>3, FrameKept DEF FramesOK, TypeOK
<1>5. ASSUME NEW k \in Conn, Accept(k) \/ Client(k) PROVE FrameOK(f)'
  BY <1>0, <1>5, FrameKept DEF Accept, Client, ClientSend, ClientClose, FramesOK, InFlight
<1>6. CASE JoinMonitor \/ Kill
  BY <1>0, <1>6, FrameKept DEF JoinMonitor, Kill, ProcessGone, FramesOK, InFlight
<1>7. CASE Restart
  <2>1. f \in InFlight
    BY <1>7 DEF Restart, InFlight, ToSet
  <2>2. f.run \in Nat /\ run \in Nat /\ run' = run + 1 /\ f.run <= run
    <3>1. f \in Frame /\ FrameOK(f)
      BY <1>0, <2>1, QueueTypes DEF FramesOK, InFlight, TypeOK
    <3> QED
      BY <1>0, <1>7, <3>1 DEF FrameOK, Frame, TypeOK, Restart
  <2> QED
    BY <2>2 DEF FrameOK
<1>8. CASE AcceptFails \/ AcceptMonitor \/ DeadlinePasses \/ UNCHANGED vars
           \/ \E t \in Threads : RequestStop(t)
  BY <1>0, <1>8, FrameKept
  DEF AcceptFails, AcceptMonitor, DeadlinePasses, RequestStop, vars, FramesOK, InFlight
<1>9. CASE SlaveIgnores
  <2>1. f \in InFlight
    BY <1>0, <1>9, QueueTail DEF SlaveIgnores, InFlight, TypeOK
  <2> QED
    BY <1>0, <1>9, <2>1, FrameKept DEF SlaveIgnores, FramesOK
<1>10. CASE SlaveHandles
  <2>1. PICK r \in {<<>>, <<Head(toSlave)>>, <<[Head(toSlave) EXCEPT !.intact = FALSE]>>} :
          toHost' = IF main = "exited" THEN toHost ELSE toHost \o r
    BY <1>10 DEF SlaveHandles
  <2>2. toSlave' = Tail(toSlave) /\ toSlave # <<>>
    BY <1>10 DEF SlaveHandles
  <2>3. UNCHANGED <<run, txn, sequence, req, lock>>
    BY <1>10 DEF SlaveHandles
  <2>4. Head(toSlave) \in InFlight /\ Head(toSlave) \in Frame
        /\ ToSet(toSlave') \subseteq ToSet(toSlave)
    BY <1>0, <2>2, QueueTail DEF InFlight, TypeOK
  <2>5. CASE f \in InFlight
    BY <1>0, <2>3, <2>5, FrameKept DEF FramesOK
  <2>6. CASE f \notin InFlight
    <3>1. f \in ToSet(toHost') /\ f \notin ToSet(toHost)
      BY <2>4, <2>6 DEF InFlight
    <3>2. toHost' = toHost \o r
      BY <2>1, <3>1
    <3>3. r \in Seq(Frame)
      <4>1. [Head(toSlave) EXCEPT !.intact = FALSE] \in Frame
        BY <2>4 DEF Frame
      <4>2. \A h \in Frame : <<h>> \in Seq(Frame)
        OBVIOUS
      <4> QED
        BY <2>1, <2>4, <4>1, <4>2, EmptySeq
    <3>4. f \in ToSet(r)
      BY <1>0, <3>1, <3>2, <3>3, QueueConcat DEF TypeOK
    <3>5. f = Head(toSlave) \/ f = [Head(toSlave) EXCEPT !.intact = FALSE]
      BY <2>1, <3>4 DEF ToSet
    <3>6. /\ f.run = Head(toSlave).run /\ f.txn = Head(toSlave).txn
          /\ f.seq = Head(toSlave).seq /\ f.id = Head(toSlave).id
      BY <2>4, <3>5 DEF Frame
    <3>7. FrameOK(f)
      BY <1>0, <2>4, <3>6 DEF FramesOK, FrameOK
    <3> QED
      BY <2>3, <3>7, FrameKept
  <2> QED
    BY <2>5, <2>6
<1> QED
  BY <1>1, <1>2, <1>3, <1>4, <1>5, <1>6, <1>7, <1>8, <1>9, <1>10
  DEF Next, ServeClient

\* A frame that carries the current number, in a transaction, answers it: no
\* older frame of this incarnation can carry the same number.
LEMMA NumberIdentifies ==
  ASSUME TypeOK, NEW f \in Frame, FrameOK(f), f.seq = sequence, f.run = run,
         lock # NoConn
  PROVE  f.id = req[lock]
<1>1. f.txn \in Nat /\ txn \in Nat /\ sequence \in 0..(SequenceMod - 1)
      /\ SequenceMod \in Nat /\ SequenceMod > 2
  BY SeqAssumption DEF Frame, TypeOK, Seqs
<1>2. /\ f.txn <= txn /\ txn - f.txn <= SequenceMod - 2
      /\ sequence = SeqBack(txn - f.txn)
      /\ f.txn = txn => f.id = req[lock]
  BY DEF FrameOK
<1>3. sequence = IF txn - f.txn < sequence THEN sequence - (txn - f.txn)
                 ELSE sequence - (txn - f.txn) + (SequenceMod - 1)
  BY <1>2 DEF SeqBack
<1>4. f.txn = txn
  BY <1>1, <1>2, <1>3
<1> QED
  BY <1>2, <1>4

LEMMA SendInv == IInv /\ [Next]_vars => SendOK'
<1> SUFFICES ASSUME IInv, [Next]_vars PROVE SendOK'
  OBVIOUS
<1> USE DEF threadVars, deviceVars, clientVars, linkVars
<1>0. TypeOK /\ SerialDevice /\ FramesOK /\ SendOK
  BY DEF IInv
<1>1. ASSUME NEW k \in Conn, ReadFrame(k) PROVE SendOK'
  <2> DEFINE f == Head(toHost)
  <2>1. f \in Frame /\ FrameOK(f)
    BY <1>0, <1>1, QueueTail DEF ReadFrame, IsReply, InFlight, TypeOK, FramesOK
  <2>2. lock = k /\ lock # NoConn
    BY <1>0, <1>1, ConnAssumption DEF ReadFrame, IsReply, SerialDevice
  <2>3. f.seq = sequence => f.run <= run /\ (f.run = run => f.id = req[k])
    BY <1>0, <2>1, <2>2, NumberIdentifies DEF FrameOK
  <2>4. /\ UNCHANGED <<run, req>>
        /\ \/ UNCHANGED <<reply, pc>>
           \/ /\ f.seq = sequence
              /\ reply' = [reply EXCEPT ![k] = f]
              /\ pc' = [pc EXCEPT ![k] = "send"]
    BY <1>1 DEF ReadFrame, IsReply
  <2> HIDE DEF f
  <2> QED
    BY <1>0, <2>3, <2>4 DEF SendOK, TypeOK
<1>2. ASSUME NEW k \in Conn, ReceiveRequest(k) \/ BeginTransaction(k) PROVE SendOK'
  BY <1>0, <1>2 DEF ReceiveRequest, BeginTransaction, BeforeDevice, SendOK, TypeOK
<1>3. ASSUME NEW k \in Conn, ReceiveFails(k) \/ WriteFails(k) \/ TransactionFails(k)
      PROVE  SendOK'
  BY <1>0, <1>3 DEF ReceiveFails, WriteFails, BeforeDevice, TransactionFails, EndThread, SendOK, TypeOK
<1>4. ASSUME NEW k \in Conn, SendReply(k) PROVE SendOK'
  BY <1>0, <1>4 DEF SendReply, EndThread, SendOK, TypeOK
<1>5. ASSUME NEW k \in Conn, Accept(k) \/ Client(k) PROVE SendOK'
  BY <1>0, <1>5 DEF Accept, Client, ClientSend, ClientClose, SendOK, TypeOK
<1>6. CASE JoinMonitor \/ Kill
  BY <1>6 DEF JoinMonitor, Kill, ProcessGone, SendOK
<1>7. CASE Restart
  <2>1. run' = run + 1 /\ run \in Nat /\ UNCHANGED <<pc, reply, req>>
    BY <1>0, <1>7, BoundAssumption DEF Restart, TypeOK
  <2>2. \A k \in Conn : reply[k].run \in Nat
    BY <1>0 DEF TypeOK, Frame
  <2>3. \A k \in Conn : pc[k] = "send" => reply[k].run <= run
    BY <1>0 DEF SendOK
  <2>4. \A k \in Conn : pc[k] = "send" => reply[k].run <= run + 1 /\ reply[k].run # run + 1
    BY <2>1, <2>2, <2>3
  <2> QED
    BY <2>1, <2>4 DEF SendOK
<1>8. CASE AcceptFails \/ AcceptMonitor \/ DeadlinePasses \/ SlaveHandles \/ SlaveIgnores
           \/ UNCHANGED vars \/ \E t \in Threads : RequestStop(t)
  BY <1>0, <1>8
  DEF AcceptFails, AcceptMonitor, DeadlinePasses, SlaveHandles, SlaveIgnores, RequestStop,
      vars, SendOK
<1> QED
  BY <1>1, <1>2, <1>3, <1>4, <1>5, <1>6, <1>7, <1>8 DEF Next, ServeClient

-----------------------------------------------------------------------------
(* Theorems. *)

LEMMA Inductive == Spec => []IInv
<1>1. IInv /\ [Next]_vars => IInv'
  BY TypeInv, BusyInv, SerialInv, FramesInv, SendInv DEF IInv
<1> QED
  BY InitInv, <1>1, PTL DEF Spec

\* The state stays well-typed: sequence numbers keep their width, no thread
\* works on a request it does not have.
THEOREM TypeCorrect == Spec => []TypeOK
<1>1. IInv => TypeOK
  BY DEF IInv
<1> QED
  BY Inductive, <1>1, PTL

\* A thread waits for a reply exactly while it holds g_device_lock: every way out
\* of transact and serve_client gives the lock back, and none without it.
THEOREM DeviceIsSerial == Spec => []SerialDevice
<1>1. IInv => SerialDevice
  BY DEF IInv
<1> QED
  BY Inductive, <1>1, PTL

\* A reply to a frame this process wrote is sent to nobody but the client whose
\* request the frame was, for any number of late, lost and damaged replies, any
\* number of restarts and wraps of g_sequence, as long as the link holds no frame
\* for SequenceMod - 1 transactions.
THEOREM NoRepliesSwapped == Spec => []RunReplyAnswersRequest
<1>1. IInv => RunReplyAnswersRequest
  BY DEF IInv, SendOK, RunReplyAnswersRequest
<1> QED
  BY Inductive, <1>1, PTL

\* While the broker was never restarted, whatever a client receives is the
\* firmware's reply to its own request.
THEOREM NoRestartNoSwap == MaxRestarts = 0 => (Spec => []ReplyAnswersRequest)
<1> SUFFICES ASSUME MaxRestarts = 0 PROVE Spec => []ReplyAnswersRequest
  OBVIOUS
<1>1. Init => ReplyAnswersRequest
  BY DEF Init, ReplyAnswersRequest
<1>2. IInv /\ ReplyAnswersRequest /\ [Next]_vars => ReplyAnswersRequest'
  <2> SUFFICES ASSUME IInv, ReplyAnswersRequest, [Next]_vars PROVE ReplyAnswersRequest'
    OBVIOUS
  <2> USE DEF threadVars, deviceVars, clientVars, linkVars
  <2>0. TypeOK /\ SendOK /\ BusyOK
    BY DEF IInv
  <2>1. ASSUME NEW k \in Conn, SendReply(k) PROVE ReplyAnswersRequest'
    <3>1. run = 0 /\ reply[k].run \in Nat /\ reply[k].run <= run /\ req[k] \in ReqId
      BY <2>0, <2>1 DEF TypeOK, Frame, SendOK, SendReply, BusyOK
    <3>2. reply[k].id = req[k]
      BY <2>0, <2>1, <3>1 DEF SendOK, SendReply
    <3>3. answer' = answer \/ answer' = [answer EXCEPT ![req[k]] = reply[k]]
      BY <2>1 DEF SendReply
    <3> QED
      BY <2>0, <3>1, <3>2, <3>3 DEF ReplyAnswersRequest, TypeOK
  <2>2. CASE UNCHANGED answer
    BY <2>2 DEF ReplyAnswersRequest
  <2>3. ASSUME NEW k \in Conn, Accept(k) \/ Client(k) \/ (ServeClient(k) /\ ~SendReply(k))
        PROVE  UNCHANGED answer
    BY <2>3 DEF Accept, Client, ClientSend, ClientClose, ServeClient, ReceiveRequest,
                ReceiveFails, BeginTransaction, WriteFails, ReadFrame, TransactionFails
  <2>4. ASSUME AcceptFails \/ AcceptMonitor \/ DeadlinePasses \/ SlaveHandles \/ SlaveIgnores
               \/ JoinMonitor \/ Kill \/ Restart \/ UNCHANGED vars
               \/ \E t \in Threads : RequestStop(t)
        PROVE  UNCHANGED answer
    BY <2>4 DEF AcceptFails, AcceptMonitor, DeadlinePasses, SlaveHandles, SlaveIgnores,
                JoinMonitor, Kill, Restart, ProcessGone, RequestStop, vars
  <2> QED
    BY <2>1, <2>2, <2>3, <2>4 DEF Next
<1> QED
  BY Inductive, <1>1, <1>2, PTL DEF Spec

-----------------------------------------------------------------------------
(* Queues without repetition. *)

Distinct(q) == \A m, n \in DOMAIN q : q[m] = q[n] => m = n
DistinctIds(q) == \A m, n \in DOMAIN q : q[m].id = q[n].id => m = n

LEMMA TailShape ==
  ASSUME NEW S, NEW q \in Seq(S), q # <<>>
  PROVE  /\ 1 \in DOMAIN q /\ Head(q) = q[1]
         /\ \A m \in DOMAIN Tail(q) : /\ m \in Nat /\ m + 1 \in DOMAIN q /\ m + 1 # 1
                                      /\ Tail(q)[m] = q[m + 1]
<1>1. /\ Tail(q) \in Seq(S) /\ Len(Tail(q)) = Len(q) - 1 /\ Len(q) \in Nat /\ Len(q) > 0
      /\ \A i \in 1..Len(Tail(q)) : Tail(q)[i] = q[i + 1]
      /\ Head(q) = q[1]
  BY HeadTailProperties, EmptySeq, LenProperties
<1>2. DOMAIN q = 1..Len(q) /\ DOMAIN Tail(q) = 1..Len(Tail(q))
  BY <1>1, LenProperties
<1> QED
  BY <1>1, <1>2

LEMMA DistinctTail ==
  ASSUME NEW S, NEW q \in Seq(S), q # <<>>, Distinct(q)
  PROVE  Distinct(Tail(q)) /\ Head(q) \notin ToSet(Tail(q))
<1>1. Distinct(Tail(q))
  <2> SUFFICES ASSUME NEW m \in DOMAIN Tail(q), NEW n \in DOMAIN Tail(q),
                      Tail(q)[m] = Tail(q)[n]
               PROVE  m = n
    BY DEF Distinct
  <2>1. m + 1 = n + 1 /\ m \in Nat /\ n \in Nat
    BY TailShape DEF Distinct
  <2> QED
    BY <2>1
<1>2. ASSUME NEW m \in DOMAIN Tail(q) PROVE Tail(q)[m] # Head(q)
  BY TailShape DEF Distinct
<1> QED
  BY <1>1, <1>2 DEF ToSet

LEMMA DistinctIdsTail ==
  ASSUME NEW S, NEW q \in Seq(S), q # <<>>, DistinctIds(q)
  PROVE  DistinctIds(Tail(q)) /\ \A f \in ToSet(Tail(q)) : f.id # Head(q).id
<1>1. DistinctIds(Tail(q))
  <2> SUFFICES ASSUME NEW m \in DOMAIN Tail(q), NEW n \in DOMAIN Tail(q),
                      Tail(q)[m].id = Tail(q)[n].id
               PROVE  m = n
    BY DEF DistinctIds
  <2>1. m + 1 = n + 1 /\ m \in Nat /\ n \in Nat
    BY TailShape DEF DistinctIds
  <2> QED
    BY <2>1
<1>2. ASSUME NEW m \in DOMAIN Tail(q) PROVE Tail(q)[m].id # Head(q).id
  BY TailShape DEF DistinctIds
<1> QED
  BY <1>1, <1>2 DEF ToSet

LEMMA AppendShape ==
  ASSUME NEW S, NEW q \in Seq(S), NEW e \in S
  PROVE  \A m \in DOMAIN Append(q, e) :
           \/ m \in DOMAIN q /\ Append(q, e)[m] = q[m] /\ q[m] \in ToSet(q)
           \/ m = Len(q) + 1 /\ Append(q, e)[m] = e
<1>1. /\ Append(q, e) \in Seq(S) /\ Len(Append(q, e)) = Len(q) + 1
      /\ \A i \in 1..Len(q) : Append(q, e)[i] = q[i]
      /\ Append(q, e)[Len(q) + 1] = e
  BY AppendProperties
<1>2. DOMAIN q = 1..Len(q) /\ DOMAIN Append(q, e) = 1..(Len(q) + 1) /\ Len(q) \in Nat
  BY <1>1, LenProperties
<1> QED
  BY <1>1, <1>2 DEF ToSet

LEMMA DistinctAppend ==
  ASSUME NEW S, NEW q \in Seq(S), NEW e \in S, Distinct(q), e \notin ToSet(q)
  PROVE  Distinct(Append(q, e))
<1> SUFFICES ASSUME NEW m \in DOMAIN Append(q, e), NEW n \in DOMAIN Append(q, e),
                    Append(q, e)[m] = Append(q, e)[n]
             PROVE  m = n
  BY DEF Distinct
<1>1. /\ \/ m \in DOMAIN q /\ Append(q, e)[m] = q[m] /\ q[m] \in ToSet(q)
         \/ m = Len(q) + 1 /\ Append(q, e)[m] = e
      /\ \/ n \in DOMAIN q /\ Append(q, e)[n] = q[n] /\ q[n] \in ToSet(q)
         \/ n = Len(q) + 1 /\ Append(q, e)[n] = e
  BY AppendShape
<1> QED
  BY <1>1 DEF Distinct

LEMMA DistinctIdsAppend ==
  ASSUME NEW S, NEW q \in Seq(S), NEW e \in S, DistinctIds(q),
         \A f \in ToSet(q) : f.id # e.id
  PROVE  DistinctIds(Append(q, e))
<1> SUFFICES ASSUME NEW m \in DOMAIN Append(q, e), NEW n \in DOMAIN Append(q, e),
                    Append(q, e)[m].id = Append(q, e)[n].id
             PROVE  m = n
  BY DEF DistinctIds
<1>1. /\ \/ m \in DOMAIN q /\ Append(q, e)[m] = q[m] /\ q[m] \in ToSet(q)
         \/ m = Len(q) + 1 /\ Append(q, e)[m] = e
      /\ \/ n \in DOMAIN q /\ Append(q, e)[n] = q[n] /\ q[n] \in ToSet(q)
         \/ n = Len(q) + 1 /\ Append(q, e)[n] = e
  BY AppendShape
<1> QED
  BY <1>1 DEF DistinctIds

-----------------------------------------------------------------------------
(* The invariant of the refinement: where every request is. *)

\* The firmware has never seen the request, and nothing on the link names it.
Untouched(i) == executed[i] = 0 /\ \A f \in InFlight : f.id # i

\* The client has heard nothing of the request.
Open(i) == answer[i] = NoFrame /\ i \notin failed

\* The requests a connection is responsible for.
Queued(k) == ToSet(inbox[k])
Held(k) == Queued(k) \cup ({req[k]} \ {NoId})

\* Requests not issued yet have left no trace; those that a connection holds are
\* issued and open; those not yet written to the device are untouched.
UnsentOK == \A i \in ReqId : i > issued => Untouched(i) /\ Open(i)
HeldOK == \A k \in Conn : \A i \in Held(k) : i <= issued /\ Open(i)
WaitingOK == \A k \in Conn :
               /\ \A i \in Queued(k) : Untouched(i)
               /\ pc[k] = "lock" => Untouched(req[k])

\* Every request is in one place.
OwnerOK == \A k \in Conn :
             /\ Distinct(inbox[k]) /\ req[k] \notin Queued(k)
             /\ \A l \in Conn \ {k} : Held(k) \cap Held(l) = {}

\* A frame on its way to the firmware names a request of its own that never ran;
\* what comes back, is sent or was answered names one that ran once.
LinkOK ==
  /\ DistinctIds(toSlave)
  /\ \A f \in ToSet(toSlave) : f.id \in ReqId /\ executed[f.id] = 0 /\ f.id <= issued
  /\ \A f \in ToSet(toHost) : f.id \in ReqId /\ executed[f.id] = 1
RanOK ==
  /\ \A k \in Conn : pc[k] = "send" => executed[req[k]] = 1
  /\ \A i \in ReqId : /\ executed[i] \in {0, 1}
                      /\ answer[i] # NoFrame => executed[i] = 1 /\ answer[i].id = i

PInv == run = 0 /\ UnsentOK /\ HeldOK /\ WaitingOK /\ OwnerOK /\ LinkOK /\ RanOK

LEMMA HeldTypes ==
  ASSUME TypeOK
  PROVE  \A k \in Conn : Queued(k) \subseteq ReqId /\ Held(k) \subseteq ReqId
  BY QueueTypes DEF Held, Queued, TypeOK

LEMMA InitPromise == Init => PInv /\ Promise!Init
<1> SUFFICES ASSUME Init PROVE PInv /\ Promise!Init
  OBVIOUS
<1>1. ToSet(<<>>) = {} /\ DOMAIN <<>> = {}
  BY DEF ToSet
<1>2. /\ InFlight = {} /\ toSlave = <<>> /\ toHost = <<>> /\ issued = 0 /\ failed = {} /\ run = 0
      /\ executed = [i \in ReqId |-> 0] /\ answer = [i \in ReqId |-> NoFrame]
      /\ inbox = [k \in Conn |-> <<>>] /\ req = [k \in Conn |-> NoId]
      /\ pc = [k \in Conn |-> "free"]
  BY <1>1 DEF Init, InFlight
<1>3. UnsentOK /\ WaitingOK /\ RanOK
  BY <1>1, <1>2 DEF UnsentOK, WaitingOK, RanOK, Untouched, Open, Queued
<1>4. HeldOK /\ OwnerOK
  BY <1>1, <1>2 DEF HeldOK, OwnerOK, Held, Queued, Distinct
<1>5. LinkOK
  BY <1>1, <1>2 DEF LinkOK, DistinctIds
<1>6. \A i \in ReqId : Fate(i) = "unsent" /\ answer[i].id = 0
  BY <1>2, BoundAssumption DEF Fate, ReqId, NoFrame, NoId
<1>7. Promise!Init
  BY <1>2, <1>6 DEF Promise!Init, Promise!ReqId, ReqId
<1> QED
  BY <1>2, <1>3, <1>4, <1>5, <1>7 DEF PInv

-----------------------------------------------------------------------------
(* Steps of the promise. *)

LEMMA Stutters ==
  ASSUME UNCHANGED <<answer, failed, issued, executed>>
  PROVE  UNCHANGED Promise!vars
  BY DEF Promise!vars, Fate

LEMMA GivesUp ==
  ASSUME NEW lost \in SUBSET ReqId, \A i \in lost : i <= issued /\ Open(i),
         failed' = failed \cup lost, UNCHANGED <<answer, issued, executed>>
  PROVE  Promise!Next
<1>1. \A i \in lost : Fate(i) = "pending"
  BY DEF Open, Fate
<1>2. lost \in SUBSET Promise!Pending
  BY <1>1 DEF Promise!Pending, Promise!ReqId, ReqId
<1>3. \A j \in ReqId : Fate(j)' = IF j \in lost THEN "failed" ELSE Fate(j)
  BY DEF Open, Fate
<1>4. Promise!GiveUp(lost)
  BY <1>3 DEF Promise!GiveUp, Promise!ReqId, ReqId
<1> QED
  BY <1>2, <1>4 DEF Promise!Next

LEMMA Answers ==
  ASSUME TypeOK, NEW i \in ReqId, i <= issued, Open(i), executed[i] = 1,
         NEW f \in Frame, f.id = i, answer' = [answer EXCEPT ![i] = f],
         NEW lost \in SUBSET (ReqId \ {i}), \A j \in lost : j <= issued /\ Open(j),
         failed' = failed \cup lost, UNCHANGED <<issued, executed>>
  PROVE  Promise!Next
<1>1. Fate(i) = "pending" /\ \A j \in lost : Fate(j) = "pending"
  BY DEF Open, Fate
<1>2. i \in Promise!Pending /\ lost \in SUBSET (Promise!Pending \ {i})
  BY <1>1 DEF Promise!Pending, Promise!ReqId, ReqId
<1>3. f # NoFrame
  BY DEF NoFrame, NoId, ReqId
<1>4. /\ answer'[i] = f
      /\ \A j \in ReqId : j # i => answer'[j] = answer[j]
  BY DEF TypeOK
<1>5. \A j \in ReqId : Fate(j)' = IF j = i THEN "answered"
                                  ELSE IF j \in lost THEN "failed" ELSE Fate(j)
  BY <1>3, <1>4 DEF Open, Fate
<1>6. \A j \in ReqId : answer'[j].id = IF j = i THEN i ELSE answer[j].id
  BY <1>4
<1>7. Promise!Answer(i, lost)
  BY <1>1, <1>5, <1>6 DEF Promise!Answer, Promise!ReqId, ReqId
<1> QED
  BY <1>2, <1>7 DEF Promise!Next

-----------------------------------------------------------------------------
(* Each step of the broker keeps the invariant and is a step of the promise. *)

Refines == PInv' /\ [Promise!Next]_(Promise!vars)

\* Steps that move no request.
LEMMA QuietRefines ==
  ASSUME PInv,
         UNCHANGED <<run, inbox, req, issued, executed, answer, failed>>,
         ToSet(toSlave') \subseteq ToSet(toSlave), ToSet(toHost') \subseteq ToSet(toHost),
         DistinctIds(toSlave'),
         \A k \in Conn : pc'[k] \in {"lock", "send"} => pc'[k] = pc[k]
  PROVE  Refines
<1>1. InFlight' \subseteq InFlight
  BY DEF InFlight
<1>2. \A i : Untouched(i) => Untouched(i)'
  BY <1>1 DEF Untouched
<1>3. UnsentOK' /\ HeldOK' /\ OwnerOK'
  BY <1>2 DEF PInv, UnsentOK, HeldOK, OwnerOK, Held, Queued, Open
<1>4. WaitingOK' /\ LinkOK' /\ RanOK'
  BY <1>2 DEF PInv, WaitingOK, LinkOK, RanOK, Queued
<1> QED
  BY <1>3, <1>4, Stutters DEF PInv, Refines

\* A thread ends: what its connection held is given up.
LEMMA EndRefines ==
  ASSUME TypeOK, PInv, NEW k \in Conn, NEW lost, lost \subseteq {req[k]} \ {NoId},
         EndThread(k, lost), UNCHANGED <<answer, run, issued, linkVars>>
  PROVE  Refines
<1> DEFINE gone == lost \cup Queued(k)
<1>1. gone \subseteq Held(k) /\ gone \subseteq ReqId
  BY QueueTypes DEF Held, Queued, TypeOK
<1>2. failed' = failed \cup gone /\ UNCHANGED <<answer, run, issued, executed, toSlave, toHost>>
  BY DEF EndThread, Queued, linkVars
<1>3. \A i \in gone : i <= issued /\ Open(i)
  BY <1>1 DEF PInv, HeldOK
<1> HIDE DEF gone
<1>4. Promise!Next
  BY <1>1, <1>2, <1>3, GivesUp
<1>5. /\ pc' = [pc EXCEPT ![k] = "free"] /\ inbox' = [inbox EXCEPT ![k] = <<>>]
      /\ req' = [req EXCEPT ![k] = NoId]
  BY DEF EndThread
<1>6. Queued(k)' = {} /\ Held(k)' = {} /\ Distinct(inbox'[k]) /\ req'[k] \notin Queued(k)'
  BY <1>5 DEF Held, Queued, Distinct, ToSet, TypeOK
<1>7. \A l \in Conn \ {k} : /\ inbox'[l] = inbox[l] /\ req'[l] = req[l] /\ pc'[l] = pc[l]
                            /\ Held(l)' = Held(l) /\ Queued(l)' = Queued(l)
                            /\ Held(l) \cap gone = {}
  BY <1>1, <1>5 DEF Held, Queued, TypeOK, PInv, OwnerOK
<1>8. \A i : /\ Untouched(i) => Untouched(i)'
             /\ i \notin gone => (Open(i) => Open(i)')
  BY <1>2 DEF Untouched, Open, InFlight
<1>9. UnsentOK'
  BY <1>2, <1>3, <1>8 DEF PInv, UnsentOK, ReqId, TypeOK
<1>10. HeldOK'
  BY <1>2, <1>6, <1>7, <1>8 DEF PInv, HeldOK
<1>11. WaitingOK'
  BY <1>5, <1>6, <1>7, <1>8 DEF PInv, WaitingOK, TypeOK
<1>12. OwnerOK'
  BY <1>6, <1>7 DEF PInv, OwnerOK
<1>13. LinkOK' /\ RanOK'
  BY <1>2, <1>5, <1>7 DEF PInv, LinkOK, RanOK, TypeOK
<1> QED
  BY <1>2, <1>4, <1>9, <1>10, <1>11, <1>12, <1>13 DEF PInv, Refines

\* The process ends: everything any connection held is given up.
LEMMA GoneRefines ==
  ASSUME TypeOK, PInv, ProcessGone
  PROVE  Refines
<1> DEFINE gone == (UNION {Queued(k) : k \in Conn}) \cup ({req[k] : k \in Conn} \ {NoId})
<1>1. /\ failed' = failed \cup gone
      /\ UNCHANGED <<answer, run, issued, executed, toSlave, toHost>>
  BY DEF ProcessGone, Queued, linkVars
<1>2. \A i \in gone : \E k \in Conn : i \in Held(k)
  BY DEF Held
<1>3. \A k \in Conn : Held(k) \subseteq ReqId
  BY QueueTypes DEF Held, Queued, TypeOK
<1> HIDE DEF gone
<1>4. \A i \in gone : i \in ReqId /\ i <= issued /\ Open(i)
  BY <1>2, <1>3 DEF PInv, HeldOK
<1>5. Promise!Next
  BY <1>1, <1>4, GivesUp
<1>6. \A k \in Conn : /\ pc'[k] = "free" /\ req'[k] = NoId /\ inbox'[k] = <<>>
                      /\ Queued(k)' = {} /\ Held(k)' = {} /\ Distinct(inbox'[k])
  BY DEF ProcessGone, Held, Queued, Distinct, ToSet
<1>7. \A i : /\ Untouched(i) => Untouched(i)'
             /\ i \notin gone => (Open(i) => Open(i)')
  BY <1>1 DEF Untouched, Open, InFlight
<1>8. UnsentOK'
  BY <1>1, <1>4, <1>7 DEF PInv, UnsentOK, ReqId, TypeOK
<1>9. HeldOK' /\ WaitingOK' /\ OwnerOK'
  BY <1>6 DEF HeldOK, WaitingOK, OwnerOK
<1>10. LinkOK' /\ RanOK'
  BY <1>1, <1>6 DEF PInv, LinkOK, RanOK
<1> QED
  BY <1>1, <1>5, <1>8, <1>9, <1>10 DEF PInv, Refines

\* A client issues the next request.
LEMMA SendRefines ==
  ASSUME TypeOK, PInv, NEW k \in Conn, ClientSend(k)
  PROVE  Refines
<1> DEFINE new == issued + 1
<1>1. /\ issued' = new /\ new \in ReqId /\ issued \in Nat
      /\ inbox' = [inbox EXCEPT ![k] = Append(inbox[k], new)]
      /\ UNCHANGED <<pc, req, answer, failed, run, executed, toSlave, toHost>>
  BY BoundAssumption DEF ClientSend, ReqId, TypeOK, linkVars
<1>2. Untouched(new) /\ Open(new)
  BY <1>1 DEF PInv, UnsentOK
<1>3. \A l \in Conn : new \notin Held(l) /\ new \notin Queued(l) /\ req[l] # new
  BY <1>1 DEF PInv, HeldOK, Held, NoId, ReqId
<1>4. \A i : (Untouched(i) => Untouched(i)') /\ (Open(i) => Open(i)')
  BY <1>1 DEF Untouched, Open, InFlight
<1>5. /\ inbox'[k] = Append(inbox[k], new)
      /\ Queued(k)' = Queued(k) \cup {new} /\ Held(k)' = Held(k) \cup {new}
      /\ Distinct(inbox'[k])
  <2>1. inbox[k] \in Seq(ReqId) /\ inbox'[k] = Append(inbox[k], new)
    BY <1>1 DEF TypeOK
  <2>2. new \notin ToSet(inbox[k]) /\ Distinct(inbox[k])
    BY <1>3 DEF PInv, OwnerOK, Queued
  <2>3. ToSet(Append(inbox[k], new)) = ToSet(inbox[k]) \cup {new}
    BY <1>1, <2>1, QueueAppend
  <2>4. Distinct(Append(inbox[k], new))
    BY <1>1, <2>1, <2>2, DistinctAppend
  <2>5. Queued(k)' = Queued(k) \cup {new}
    BY <2>1, <2>3 DEF Queued
  <2> QED
    BY <1>1, <2>1, <2>4, <2>5 DEF Held
<1>6. \A l \in Conn \ {k} : /\ inbox'[l] = inbox[l]
                            /\ Held(l)' = Held(l) /\ Queued(l)' = Queued(l)
  BY <1>1 DEF Held, Queued, TypeOK
<1>7. Fate(new) = "unsent" /\ \A i \in ReqId : Fate(i)' = IF i = new THEN "pending" ELSE Fate(i)
  <2>1. answer[new] = NoFrame /\ new \notin failed /\ ~(new <= issued)
    BY <1>1, <1>2 DEF Open
  <2>2. \A i \in ReqId : i # new => (i <= issued' <=> i <= issued)
    BY <1>1 DEF ReqId
  <2> QED
    BY <1>1, <2>1, <2>2 DEF Fate
<1>8. Promise!Issue(new)
  BY <1>1, <1>7 DEF Promise!Issue, Promise!ReqId, ReqId
<1>9. Promise!Next
  BY <1>1, <1>8 DEF Promise!Next, Promise!ReqId, ReqId
<1> HIDE DEF new
<1>10. UnsentOK'
  <2>1. \A i \in ReqId : i > issued' => i > issued
    BY <1>1 DEF new, ReqId
  <2> QED
    BY <1>4, <2>1 DEF PInv, UnsentOK
<1>11. HeldOK'
  <2>1. \A l \in Conn : \A i \in Held(l)' : i \in Held(l) \/ i = new
    BY <1>5, <1>6
  <2>2. \A l \in Conn : \A i \in Held(l) : i \in Nat
    BY HeldTypes DEF ReqId
  <2>3. \A i \in Nat : i <= issued => i <= issued'
    BY <1>1 DEF new
  <2>4. new <= issued'
    BY <1>1 DEF ReqId
  <2> QED
    BY <1>2, <1>4, <2>1, <2>2, <2>3, <2>4 DEF PInv, HeldOK
<1>12. WaitingOK'
  BY <1>1, <1>2, <1>4, <1>5, <1>6 DEF PInv, WaitingOK
<1>13. OwnerOK'
  BY <1>1, <1>3, <1>5, <1>6 DEF PInv, OwnerOK
<1>14. LinkOK' /\ RanOK'
  <2>1. \A f \in ToSet(toSlave) : f.id \in ReqId /\ f.id <= issued => f.id <= issued'
    BY <1>1 DEF new, ReqId
  <2> QED
    BY <1>1, <2>1 DEF PInv, LinkOK, RanOK
<1> QED
  BY <1>1, <1>9, <1>10, <1>11, <1>12, <1>13, <1>14 DEF PInv, Refines

\* A thread takes the next request of its client.
LEMMA ReceiveRefines ==
  ASSUME TypeOK, PInv, NEW k \in Conn, ReceiveRequest(k)
  PROVE  Refines
<1> DEFINE i == Head(inbox[k])
<1>1. /\ inbox[k] \in Seq(ReqId) /\ inbox[k] # <<>>
      /\ pc' = [pc EXCEPT ![k] = "lock"] /\ req' = [req EXCEPT ![k] = i]
      /\ inbox' = [inbox EXCEPT ![k] = Tail(inbox[k])]
      /\ UNCHANGED <<answer, failed, run, issued, executed, toSlave, toHost>>
  BY DEF ReceiveRequest, TypeOK, linkVars
<1>2. /\ i \in Queued(k) /\ i \in ReqId
      /\ ToSet(Tail(inbox[k])) \subseteq Queued(k)
      /\ Distinct(Tail(inbox[k])) /\ i \notin ToSet(Tail(inbox[k]))
  BY <1>1, QueueTail, DistinctTail DEF Queued, PInv, OwnerOK
<1> HIDE DEF i
<1>3. /\ inbox'[k] = Tail(inbox[k]) /\ req'[k] = i /\ pc'[k] = "lock"
      /\ Queued(k)' = ToSet(Tail(inbox[k]))
  BY <1>1 DEF Queued, TypeOK
<1>4. Held(k)' \subseteq Held(k)
  BY <1>2, <1>3 DEF Held
<1>5. \A l \in Conn \ {k} : /\ inbox'[l] = inbox[l] /\ req'[l] = req[l] /\ pc'[l] = pc[l]
                            /\ Held(l)' = Held(l) /\ Queued(l)' = Queued(l)
  BY <1>1 DEF Held, Queued, TypeOK
<1>6. \A j : (Untouched(j) => Untouched(j)') /\ (Open(j) => Open(j)')
  BY <1>1 DEF Untouched, Open, InFlight
<1>7. UnsentOK' /\ HeldOK'
  BY <1>1, <1>4, <1>5, <1>6 DEF PInv, UnsentOK, HeldOK
<1>8. WaitingOK'
  BY <1>2, <1>3, <1>5, <1>6 DEF PInv, WaitingOK
<1>9. OwnerOK'
  BY <1>2, <1>3, <1>4, <1>5 DEF PInv, OwnerOK
<1>10. LinkOK' /\ RanOK'
  BY <1>1, <1>3, <1>5 DEF PInv, LinkOK, RanOK
<1> QED
  BY <1>1, <1>7, <1>8, <1>9, <1>10, Stutters DEF PInv, Refines

\* The request is written to the device.
LEMMA BeginRefines ==
  ASSUME TypeOK, BusyOK, PInv, NEW k \in Conn, BeginTransaction(k)
  PROVE  Refines
<1>1. PICK g : /\ g = [seq |-> sequence', id |-> req[k], txn |-> txn', run |-> run,
                       intact |-> TRUE]
               /\ toSlave' = Append(toSlave, g)
  BY DEF BeginTransaction, BeforeDevice
<1>2. /\ pc[k] = "lock" /\ pc' = [pc EXCEPT ![k] = "wait"] /\ req[k] \in ReqId
      /\ UNCHANGED <<req, answer, failed, run, inbox, issued, toHost, executed>>
  BY DEF BeginTransaction, BeforeDevice, BusyOK, clientVars
<1>3. g \in Frame /\ g.id = req[k]
  <2>1. sequence' \in Seqs /\ txn' \in Nat /\ run \in Nat
    BY SeqTypes DEF BeginTransaction, BeforeDevice, TypeOK
  <2> QED
    BY <1>1, <1>2, <2>1 DEF Frame
<1>4. Untouched(req[k]) /\ req[k] \in Held(k) /\ req[k] # NoId
  BY <1>2 DEF PInv, WaitingOK, Held, NoId, ReqId
<1>5. ToSet(toSlave') = ToSet(toSlave) \cup {g} /\ DistinctIds(toSlave')
  <2>1. toSlave \in Seq(Frame) /\ DistinctIds(toSlave)
    BY DEF TypeOK, PInv, LinkOK
  <2>2. \A f \in ToSet(toSlave) : f.id # g.id
    BY <1>3, <1>4 DEF Untouched, InFlight
  <2>3. ToSet(Append(toSlave, g)) = ToSet(toSlave) \cup {g}
    BY <1>3, <2>1, QueueAppend
  <2>4. DistinctIds(Append(toSlave, g))
    BY <1>3, <2>1, <2>2, DistinctIdsAppend
  <2> QED
    BY <1>1, <2>3, <2>4, Zenon
<1>6. InFlight' = InFlight \cup {g}
  BY <1>2, <1>5 DEF InFlight
<1>7. \A i : /\ i # req[k] => (Untouched(i) => Untouched(i)')
             /\ Open(i) => Open(i)'
  BY <1>2, <1>3, <1>6 DEF Untouched, Open
<1>8. \A l \in Conn : Held(l)' = Held(l) /\ Queued(l)' = Queued(l)
  BY <1>2 DEF Held, Queued
<1>9. UnsentOK'
  <2>1. req[k] <= issued
    BY <1>4 DEF PInv, HeldOK
  <2>2. \A i \in ReqId : i > issued => i # req[k]
    BY <1>2, <2>1 DEF ReqId, TypeOK
  <2> QED
    BY <1>2, <1>7, <2>2 DEF PInv, UnsentOK
<1>10. HeldOK' /\ OwnerOK'
  BY <1>2, <1>7, <1>8 DEF PInv, HeldOK, OwnerOK
<1>11. WaitingOK'
  <2>1. \A l \in Conn : req[k] \notin Queued(l) /\ (l # k => req[l] # req[k])
    BY <1>4 DEF PInv, OwnerOK, Held
  <2>2. \A l \in Conn : pc'[l] = "lock" => pc[l] = "lock" /\ l # k
    BY <1>2 DEF TypeOK
  <2> QED
    BY <1>2, <1>7, <1>8, <2>1, <2>2 DEF PInv, WaitingOK
<1>12. LinkOK'
  <2>1. req[k] \in ReqId /\ executed[req[k]] = 0 /\ req[k] <= issued
    BY <1>2, <1>4 DEF Untouched, PInv, HeldOK
  <2> QED
    BY <1>2, <1>3, <1>5, <2>1 DEF PInv, LinkOK
<1>13. RanOK'
  BY <1>2 DEF PInv, RanOK, TypeOK
<1> QED
  BY <1>2, <1>9, <1>10, <1>11, <1>12, <1>13, Stutters DEF PInv, Refines

\* A frame of the firmware is read: it was sent for a request that ran.
LEMMA ReadRefines ==
  ASSUME IInv, SendOK', PInv, NEW k \in Conn, ReadFrame(k)
  PROVE  Refines
<1> DEFINE f == Head(toHost)
<1>0. TypeOK
  BY DEF IInv
<1>1. f \in ToSet(toHost) /\ f \in Frame /\ ToSet(toHost') \subseteq ToSet(toHost)
  BY <1>0, QueueTail DEF ReadFrame, TypeOK
<1>2. UNCHANGED <<run, inbox, req, issued, executed, answer, failed, toSlave>>
  BY DEF ReadFrame, clientVars
<1>3. CASE ~IsReply(f)
  <2>1. UNCHANGED pc /\ DistinctIds(toSlave')
    BY <1>2, <1>3 DEF ReadFrame, PInv, LinkOK
  <2> QED
    BY <1>1, <1>2, <2>1, QuietRefines
<1>4. CASE IsReply(f)
  <2>1. reply' = [reply EXCEPT ![k] = f] /\ pc' = [pc EXCEPT ![k] = "send"]
    BY <1>4 DEF ReadFrame
  <2>2. reply'[k] = f /\ pc'[k] = "send" /\ \A l \in Conn \ {k} : pc'[l] = pc[l]
    BY <1>0, <2>1 DEF TypeOK
  <2>3. run = 0 /\ f.run \in Nat /\ f.run <= run
    BY <1>1, <1>2, <2>2 DEF SendOK, PInv, Frame
  <2>4. f.id = req[k]
    BY <1>2, <2>2, <2>3 DEF SendOK
  <2>5. executed[req[k]] = 1
    BY <1>1, <2>4 DEF PInv, LinkOK
  <2> HIDE DEF f
  <2>6. RanOK'
    BY <1>2, <2>2, <2>5 DEF PInv, RanOK
  <2>7. \A i : Untouched(i) => Untouched(i)'
    BY <1>1, <1>2 DEF Untouched, InFlight
  <2>8. UnsentOK' /\ HeldOK' /\ OwnerOK'
    BY <1>2, <2>7 DEF PInv, UnsentOK, HeldOK, OwnerOK, Held, Queued, Open
  <2>9. WaitingOK'
    BY <1>2, <2>2, <2>7 DEF PInv, WaitingOK, Queued
  <2>10. LinkOK'
    BY <1>1, <1>2 DEF PInv, LinkOK
  <2> QED
    BY <1>2, <2>6, <2>8, <2>9, <2>10, Stutters DEF PInv, Refines
<1> QED
  BY <1>3, <1>4

\* The reply is sent to a client that is still there.
LEMMA AnswerRefines ==
  ASSUME IInv, PInv, NEW k \in Conn, SendReply(k), peerOpen[k]
  PROVE  Refines
<1> DEFINE i == req[k]
           gone == IF stopping THEN Queued(k) ELSE {}
<1>0. TypeOK /\ BusyOK /\ SendOK
  BY DEF IInv
<1>1. /\ pc[k] = "send" /\ i \in ReqId /\ answer' = [answer EXCEPT ![i] = reply[k]]
      /\ UNCHANGED <<run, issued, executed, toSlave, toHost>>
  BY <1>0 DEF SendReply, BusyOK, linkVars
<1>2. reply[k] \in Frame /\ reply[k].id = i
  <2>1. reply[k] \in Frame /\ run = 0
    BY <1>0 DEF TypeOK, PInv
  <2>2. reply[k].run \in Nat /\ reply[k].run <= run /\ (reply[k].run = run => reply[k].id = i)
    BY <1>0, <1>1, <2>1 DEF SendOK, Frame
  <2> QED
    BY <2>1, <2>2
<1>3. /\ failed' = failed \cup gone
      /\ req' = [req EXCEPT ![k] = NoId]
      /\ inbox' = [inbox EXCEPT ![k] = IF stopping THEN <<>> ELSE inbox[k]]
      /\ \E p \in {"free", "recv"} : pc' = [pc EXCEPT ![k] = p]
  <2>1. CASE stopping
    BY <2>1 DEF SendReply, EndThread, Queued
  <2>2. CASE ~stopping
    <3>1. /\ pc' = [pc EXCEPT ![k] = "recv"] /\ req' = [req EXCEPT ![k] = NoId]
          /\ UNCHANGED <<inbox, failed>>
      BY <2>2 DEF SendReply
    <3>2. inbox' = [inbox EXCEPT ![k] = inbox[k]]
      BY <1>0, <3>1 DEF TypeOK
    <3> QED
      BY <2>2, <3>1, <3>2
  <2> QED
    BY <2>1, <2>2
<1>4. /\ i \in Held(k) /\ i \notin Queued(k) /\ executed[i] = 1
      /\ gone \subseteq Queued(k) /\ Queued(k) \subseteq ReqId /\ Queued(k) \subseteq Held(k)
  <2>1. i # NoId
    BY <1>1 DEF NoId, ReqId
  <2>2. i \notin Queued(k) /\ executed[i] = 1
    BY <1>1 DEF PInv, OwnerOK, RanOK
  <2>3. Queued(k) \subseteq ReqId /\ gone \subseteq Queued(k)
    BY <1>0, HeldTypes
  <2> QED
    BY <2>1, <2>2, <2>3 DEF Held
<1>5. \A j \in Held(k) : j <= issued /\ Open(j)
  BY DEF PInv, HeldOK
<1>6. Queued(k)' = Queued(k) \ gone /\ Held(k)' = Queued(k) \ gone /\ req'[k] = NoId
      /\ Distinct(inbox'[k]) /\ pc'[k] \notin {"lock", "send"}
  <2>1. inbox'[k] = IF stopping THEN <<>> ELSE inbox[k]
    BY <1>0, <1>3 DEF TypeOK
  <2>2. req'[k] = NoId /\ pc'[k] \notin {"lock", "send"}
    BY <1>0, <1>3 DEF TypeOK
  <2>3. Distinct(inbox[k]) /\ Distinct(<<>>) /\ ToSet(<<>>) = {}
    BY DEF PInv, OwnerOK, Distinct, ToSet
  <2>4. Queued(k)' = Queued(k) \ gone
    BY <2>1, <2>2, <2>3 DEF Queued
  <2>5. Distinct(inbox'[k])
    BY <2>1, <2>2, <2>3
  <2>6. Held(k)' = Queued(k)'
    BY <1>4, <2>2, <2>4 DEF Held, NoId, ReqId
  <2> QED
    BY <2>2, <2>4, <2>5, <2>6
<1>7. \A l \in Conn \ {k} : /\ inbox'[l] = inbox[l] /\ req'[l] = req[l] /\ pc'[l] = pc[l]
                            /\ Held(l)' = Held(l) /\ Queued(l)' = Queued(l)
                            /\ Held(l) \cap Held(k) = {}
  BY <1>0, <1>3 DEF Held, Queued, TypeOK, PInv, OwnerOK
<1> HIDE DEF gone
<1>8. Promise!Next
  <2>1. gone \in SUBSET (ReqId \ {i}) /\ \A j \in gone : j <= issued /\ Open(j)
    BY <1>4, <1>5
  <2>2. i <= issued /\ Open(i)
    BY <1>4, <1>5
  <2> HIDE DEF i
  <2> QED
    BY <1>0, <1>1, <1>2, <1>3, <1>4, <2>1, <2>2, Answers
<1>9. \A j : /\ Untouched(j) => Untouched(j)'
             /\ j \in ReqId /\ j # i /\ j \notin gone => (Open(j) => Open(j)')
  BY <1>0, <1>1, <1>3 DEF Untouched, Open, InFlight, TypeOK
<1> HIDE DEF i
<1>10. UnsentOK'
  <2>1. \A j \in ReqId : j > issued => j \notin Held(k)
    BY <1>0, <1>5 DEF ReqId, TypeOK
  <2> QED
    BY <1>1, <1>4, <1>9, <2>1 DEF PInv, UnsentOK
<1>11. HeldOK'
  <2>1. \A l \in Conn : Held(l) \subseteq ReqId
    BY <1>0, QueueTypes DEF Held, Queued, TypeOK
  <2>2. \A l \in Conn : \A j \in Held(l)' : j \in Held(l) /\ j # i /\ j \notin gone
    BY <1>4, <1>6, <1>7
  <2> QED
    BY <1>1, <1>9, <2>1, <2>2 DEF PInv, HeldOK
<1>12. WaitingOK'
  BY <1>6, <1>7, <1>9 DEF PInv, WaitingOK
<1>13. OwnerOK'
  <2>1. req'[k] \notin Queued(k)'
    BY <1>4, <1>6 DEF NoId, ReqId
  <2>2. Held(k)' \subseteq Held(k)
    BY <1>4, <1>6
  <2> QED
    BY <1>6, <1>7, <2>1, <2>2 DEF PInv, OwnerOK
<1>14. LinkOK'
  BY <1>1 DEF PInv, LinkOK
<1>15. RanOK'
  <2>1. \A j \in ReqId : answer'[j] = IF j = i THEN reply[k] ELSE answer[j]
    BY <1>0, <1>1 DEF TypeOK
  <2> QED
    BY <1>1, <1>2, <1>4, <1>6, <1>7, <2>1 DEF PInv, RanOK
<1> QED
  BY <1>1, <1>8, <1>10, <1>11, <1>12, <1>13, <1>14, <1>15 DEF PInv, Refines

\* The firmware carries a request out: no other frame, and nothing waiting, names it.
LEMMA HandleRefines ==
  ASSUME TypeOK, BusyOK, PInv, SlaveHandles
  PROVE  Refines
<1> DEFINE f == Head(toSlave)
<1>1. /\ toSlave \in Seq(Frame) /\ toSlave # <<>> /\ toSlave' = Tail(toSlave)
      /\ executed' = [executed EXCEPT ![f.id] = executed[f.id] + 1]
      /\ UNCHANGED <<pc, req, answer, failed, run, inbox, issued>>
  BY DEF SlaveHandles, TypeOK, clientVars
<1>2. PICK r \in {<<>>, <<f>>, <<[f EXCEPT !.intact = FALSE]>>} :
        toHost' = IF main = "exited" THEN toHost ELSE toHost \o r
  BY DEF SlaveHandles
<1>3. /\ f \in ToSet(toSlave) /\ f \in Frame
      /\ ToSet(toSlave') \subseteq ToSet(toSlave)
      /\ DistinctIds(toSlave') /\ \A g \in ToSet(toSlave') : g.id # f.id
  BY <1>1, QueueTail, DistinctIdsTail DEF PInv, LinkOK
<1> HIDE DEF f
<1>4. f.id \in ReqId /\ executed[f.id] = 0 /\ f.id <= issued
  BY <1>3 DEF PInv, LinkOK
<1>5. \A i \in ReqId : executed'[i] = IF i = f.id THEN 1 ELSE executed[i]
  BY <1>1, <1>4 DEF TypeOK
<1>6. \A g \in ToSet(toHost') : g \in ToSet(toHost) \/ g.id = f.id
  <2>1. CASE toHost' = toHost
    BY <2>1
  <2>2. CASE toHost' = toHost \o r
    <3>1. [f EXCEPT !.intact = FALSE] \in Frame /\ [f EXCEPT !.intact = FALSE].id = f.id
      BY <1>3 DEF Frame
    <3>2. \A h \in Frame : <<h>> \in Seq(Frame)
      OBVIOUS
    <3>3. r \in Seq(Frame)
      BY <1>2, <1>3, <3>1, <3>2, EmptySeq
    <3>4. ToSet(toHost \o r) = ToSet(toHost) \cup ToSet(r)
      BY <3>3, QueueConcat DEF TypeOK
    <3>5. \A g \in ToSet(r) : g = f \/ g = [f EXCEPT !.intact = FALSE]
      BY <1>2 DEF ToSet
    <3>6. \A g \in ToSet(r) : g.id = f.id
      BY <3>1, <3>5
    <3> QED
      BY <2>2, <3>4, <3>6
  <2> QED
    BY <1>2, <2>1, <2>2
<1>7. \A i \in ReqId : Untouched(i) => i # f.id
  BY <1>3 DEF Untouched, InFlight
<1>8. \A i \in ReqId : Untouched(i) => Untouched(i)'
  BY <1>3, <1>5, <1>6, <1>7 DEF Untouched, InFlight
<1>9. \A i : Open(i) => Open(i)'
  BY <1>1 DEF Open
<1>10. \A l \in Conn : Held(l)' = Held(l) /\ Queued(l)' = Queued(l) /\ Queued(l) \subseteq ReqId
  BY <1>1, QueueTypes DEF Held, Queued, TypeOK
<1>11. UnsentOK' /\ HeldOK' /\ OwnerOK'
  BY <1>1, <1>8, <1>9, <1>10 DEF PInv, UnsentOK, HeldOK, OwnerOK
<1>14. WaitingOK'
  <2>1. \A l \in Conn : pc[l] = "lock" => Untouched(req[l])'
    <3> SUFFICES ASSUME NEW l \in Conn, pc[l] = "lock" PROVE Untouched(req[l])'
      OBVIOUS
    <3>1. Untouched(req[l]) /\ req[l] \in ReqId
      BY DEF PInv, WaitingOK, BusyOK
    <3> QED
      BY <1>1, <1>8, <3>1 DEF Untouched
  <2> QED
    BY <1>1, <1>8, <1>10, <2>1 DEF PInv, WaitingOK
<1>15. LinkOK'
  <2>1. \A g \in ToSet(toSlave') : g.id \in ReqId /\ executed'[g.id] = 0 /\ g.id <= issued'
    BY <1>1, <1>3, <1>5 DEF PInv, LinkOK
  <2>2. \A g \in ToSet(toHost') : g.id \in ReqId /\ executed'[g.id] = 1
    BY <1>4, <1>5, <1>6 DEF PInv, LinkOK
  <2> QED
    BY <1>3, <2>1, <2>2 DEF LinkOK
<1>16. RanOK'
  BY <1>1, <1>4, <1>5 DEF PInv, RanOK, TypeOK
<1>17. Fate(f.id) \in {"pending", "failed"}
  BY <1>4 DEF Fate, PInv, RanOK
<1>18. Promise!Execute(f.id)
  <2>1. executed' = [executed EXCEPT ![f.id] = 1]
    BY <1>1, <1>4
  <2>2. \A i \in ReqId : Fate(i)' = Fate(i) /\ answer'[i].id = answer[i].id
    BY <1>1 DEF Fate
  <2> QED
    BY <1>4, <1>17, <2>1, <2>2 DEF Promise!Execute, Promise!ReqId, ReqId
<1>19. Promise!Next
  BY <1>4, <1>18 DEF Promise!Next, Promise!ReqId, ReqId
<1> QED
  BY <1>1, <1>11, <1>14, <1>15, <1>16, <1>19 DEF PInv, Refines

LEMMA StepRefines ==
  ASSUME MaxRestarts = 0, IInv, PInv, [Next]_vars
  PROVE  Refines
<1> USE DEF threadVars, deviceVars, clientVars, linkVars
<1>0. TypeOK /\ BusyOK /\ SendOK' /\ DistinctIds(toSlave)
  BY SendInv DEF IInv, PInv, LinkOK
<1>1. ASSUME NEW k \in Conn, Accept(k) \/ ClientClose(k) PROVE Refines
  <2>1. /\ UNCHANGED <<run, inbox, req, issued, executed, answer, failed, toSlave, toHost>>
        /\ \A l \in Conn : pc'[l] \in {"lock", "send"} => pc'[l] = pc[l]
    BY <1>0, <1>1 DEF Accept, ClientClose, TypeOK
  <2> QED
    BY <1>0, <2>1, QuietRefines
<1>2. CASE AcceptFails \/ AcceptMonitor \/ DeadlinePasses \/ UNCHANGED vars
           \/ \E t \in Threads : RequestStop(t)
  <2>1. UNCHANGED <<run, inbox, req, issued, executed, answer, failed, toSlave, toHost, pc>>
    BY <1>2 DEF AcceptFails, AcceptMonitor, DeadlinePasses, RequestStop, vars
  <2> QED
    BY <1>0, <2>1, QuietRefines
<1>3. CASE SlaveIgnores
  <2>1. UNCHANGED <<run, inbox, req, issued, executed, answer, failed, toHost, pc>>
    BY <1>3 DEF SlaveIgnores
  <2>2. ToSet(toSlave') \subseteq ToSet(toSlave) /\ DistinctIds(toSlave')
    BY <1>0, <1>3, QueueTail, DistinctIdsTail DEF SlaveIgnores, TypeOK
  <2> QED
    BY <2>1, <2>2, QuietRefines
<1>4. CASE JoinMonitor \/ Kill
  BY <1>0, <1>4, GoneRefines DEF JoinMonitor, Kill
<1>5. CASE Restart
  BY <1>0, <1>5 DEF Restart, TypeOK
<1>6. ASSUME NEW k \in Conn, ReceiveFails(k) PROVE Refines
  <2>1. EndThread(k, {}) /\ UNCHANGED <<answer, run, issued, linkVars>>
    BY <1>6 DEF ReceiveFails
  <2> QED
    BY <1>0, <2>1, EndRefines
<1>7. ASSUME NEW k \in Conn,
             WriteFails(k) \/ TransactionFails(k) \/ (SendReply(k) /\ ~peerOpen[k])
      PROVE  Refines
  <2>1. /\ EndThread(k, {req[k]}) /\ UNCHANGED <<answer, run, issued, linkVars>>
        /\ pc[k] \in {"lock", "wait", "send"}
    BY <1>7 DEF WriteFails, BeforeDevice, TransactionFails, SendReply
  <2>2. {req[k]} \subseteq {req[k]} \ {NoId}
    BY <1>0, <2>1 DEF BusyOK, NoId, ReqId
  <2> QED
    BY <1>0, <2>1, <2>2, EndRefines
<1>8. ASSUME NEW k \in Conn, ClientSend(k) \/ ReceiveRequest(k) \/ BeginTransaction(k)
                             \/ ReadFrame(k) \/ (SendReply(k) /\ peerOpen[k])
      PROVE  Refines
  BY <1>0, <1>8, SendRefines, ReceiveRefines, BeginRefines, ReadRefines, AnswerRefines
<1>9. CASE SlaveHandles
  BY <1>0, <1>9, HandleRefines
<1> QED
  BY <1>1, <1>2, <1>3, <1>4, <1>5, <1>6, <1>7, <1>8, <1>9 DEF Next, Client, ServeClient

\* A broker that was never restarted implements RequestReply, for any number of
\* connections and requests: a request runs at most once, whatever a client gets
\* is the result of its own request and comes after it ran, and a request that
\* was answered is never given up as well.
THEOREM BrokerKeepsPromise == MaxRestarts = 0 => (Spec => KeepsPromise)
<1> SUFFICES ASSUME MaxRestarts = 0 PROVE Spec => KeepsPromise
  OBVIOUS
<1>1. PInv /\ IInv /\ [Next]_vars => PInv' /\ [Promise!Next]_(Promise!vars)
  BY StepRefines DEF Refines
<1> QED
  BY Inductive, InitPromise, <1>1, PTL DEF Spec, KeepsPromise, Promise!Spec
=============================================================================
