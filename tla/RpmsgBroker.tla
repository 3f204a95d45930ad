---------------------------- MODULE RpmsgBroker ----------------------------
(***************************************************************************)
(* linux_user/rpmsg_broker.c: the only Linux process that opens the RPMsg  *)
(* device.  One detached thread per client connection (serve_client) reads *)
(* a request, performs it on the device under g_device_lock (transact) and *)
(* sends the reply back; the main thread accepts clients, one more thread  *)
(* accepts monitors; a signal handler asks all of them to stop.            *)
(*                                                                         *)
(* Granularity.  g_sequence and the device are touched only between lock   *)
(* and unlock of g_device_lock, so taking the lock, drawing the sequence   *)
(* number and writing the frame are one step; every poll/read of the wait  *)
(* loop is a step of its own, and so is everything outside the lock.       *)
(*                                                                         *)
(* Frames carry the identity of the client request they belong to (id),    *)
(* the number of the transaction (txn) and the broker incarnation (run)    *)
(* that wrote it.  The program has none of these: it only compares seq.    *)
(***************************************************************************)
EXTENDS Naturals, Sequences, SequencesExt

CONSTANTS
  Conn,          \* connections that may exist at once; one thread serves each
  NoConn,        \* g_device_lock is free
  MaxReq,        \* bound: requests all clients issue
  SequenceMod,        \* 2^8 in the code: g_sequence is a uint8_t
  LinkWindow,    \* environment: a frame outlives fewer than this many transactions
  MaxRestarts    \* bound: times the broker process is killed and started again

ASSUME ConnAssumption == NoConn \notin Conn
ASSUME BoundAssumption == MaxReq \in Nat /\ MaxRestarts \in Nat
ASSUME SeqAssumption == SequenceMod \in Nat /\ SequenceMod > 2
ASSUME WindowAssumption == LinkWindow \in Nat /\ LinkWindow < SequenceMod

VARIABLES
  pc,        \* where the thread of each connection is
  peerOpen,  \* the client still holds its end of the connection
  inbox,     \* requests in the connection's socket, not yet received
  req,       \* the request the thread works on
  reply,     \* the reply frame it is about to send
  lock,      \* g_device_lock
  sequence,  \* g_sequence
  late,      \* the deadline of the transaction in progress has passed
  toSlave,   \* frames written to the device, not yet read by the firmware
  toHost,    \* frames of the firmware, not yet read by the broker
  main, mon, \* the accept loops of main and accept_monitor_clients
  stopping,  \* g_stopping
  \* history
  issued,    \* requests issued so far: request i is the i-th
  executed,  \* how often the firmware carried out each request
  answer,    \* the frame each request was answered with
  failed,    \* requests whose connection was closed instead
  txn,       \* transactions begun by this incarnation
  run        \* incarnations before this one

threadVars == <<main, mon, stopping>>
deviceVars == <<lock, sequence, late, txn>>
clientVars == <<peerOpen, inbox, issued>>
linkVars   == <<toSlave, toHost, executed>>
vars == <<pc, req, reply, answer, failed, run, threadVars, deviceVars,
          clientVars, linkVars>>

ReqId == 1..MaxReq
Seqs == 0..(SequenceMod - 1)
NoId == 0
NoFrame == [seq |-> 0, id |-> NoId, txn |-> 0, run |-> 0, intact |-> FALSE]
Frame == [seq : Seqs, id : ReqId \cup {NoId}, txn : Nat, run : Nat, intact : BOOLEAN]

InFlight == ToSet(toSlave) \cup ToSet(toHost)

\* The frames that the 8-bit sequence must tell from the next one: those of
\* this incarnation.  How long the link may hold one is the environment's.
LinkKeepsUp == \A f \in InFlight : f.run = run => txn + 1 - f.txn < LinkWindow

TypeOK ==
  /\ pc \in [Conn -> {"free", "recv", "lock", "wait", "send"}]
  /\ peerOpen \in [Conn -> BOOLEAN]
  /\ inbox \in [Conn -> Seq(ReqId)]
  /\ req \in [Conn -> ReqId \cup {NoId}]
  /\ reply \in [Conn -> Frame]
  /\ lock \in Conn \cup {NoConn}
  /\ sequence \in Seqs
  /\ late \in BOOLEAN
  /\ toSlave \in Seq(Frame)
  /\ toHost \in Seq(Frame)
  /\ main \in {"accept", "join", "exited"}
  /\ mon \in {"accept", "exited"}
  /\ stopping \in BOOLEAN
  /\ issued \in 0..MaxReq
  /\ executed \in [ReqId -> Nat]
  /\ answer \in [ReqId -> Frame]
  /\ failed \in SUBSET ReqId
  /\ txn \in Nat
  /\ run \in 0..MaxRestarts

Init ==
  /\ pc = [k \in Conn |-> "free"]
  /\ peerOpen = [k \in Conn |-> FALSE]
  /\ inbox = [k \in Conn |-> <<>>]
  /\ req = [k \in Conn |-> NoId]
  /\ reply = [k \in Conn |-> NoFrame]
  /\ lock = NoConn
  /\ sequence = 0
  /\ late = FALSE
  /\ toSlave = <<>>
  /\ toHost = <<>>
  /\ main = "accept"
  /\ mon = "accept"
  /\ stopping = FALSE
  /\ issued = 0
  /\ executed = [i \in ReqId |-> 0]
  /\ answer = [i \in ReqId |-> NoFrame]
  /\ failed = {}
  /\ txn = 0
  /\ run = 0

-----------------------------------------------------------------------------
(* Threads *)

\* close(client_fd) and the end of the thread: what the client had sent and
\* was not answered is lost to it.
EndThread(k, lost) ==
  /\ pc' = [pc EXCEPT ![k] = "free"]
  /\ peerOpen' = [peerOpen EXCEPT ![k] = FALSE]
  /\ inbox' = [inbox EXCEPT ![k] = <<>>]
  /\ req' = [req EXCEPT ![k] = NoId]
  /\ reply' = [reply EXCEPT ![k] = NoFrame]
  /\ failed' = failed \cup lost \cup ToSet(inbox[k])

\* main: accept4, pthread_create(serve_client), back to the loop's condition.
Accept(k) ==
  /\ main = "accept"
  /\ pc[k] = "free"
  /\ IF stopping
       THEN main' = "join" /\ UNCHANGED <<pc, peerOpen>>
       ELSE /\ pc' = [pc EXCEPT ![k] = "recv"]
            /\ peerOpen' = [peerOpen EXCEPT ![k] = TRUE]
            /\ UNCHANGED main
  /\ UNCHANGED <<inbox, issued, req, reply, answer, failed, run, mon, stopping,
                 deviceVars, linkVars>>

\* accept4 fails for another reason than the signal (no descriptor left): main
\* leaves the loop, closes both listening sockets and joins the monitor thread.
AcceptFails ==
  /\ main = "accept"
  /\ main' = "join"
  /\ UNCHANGED <<pc, req, reply, answer, failed, run, mon, stopping,
                 clientVars, deviceVars, linkVars>>

\* accept_monitor_clients takes a monitor client and returns to its loop.  The
\* kernel keeps the listening socket of a blocked accept4 alive after close(),
\* so only a connecting monitor wakes the thread.
AcceptMonitor ==
  /\ mon = "accept"
  /\ mon' = IF stopping \/ main = "join" THEN "exited" ELSE mon
  /\ UNCHANGED <<pc, req, reply, answer, failed, run, main, stopping,
                 clientVars, deviceVars, linkVars>>

\* request_stop, run by the thread t the kernel picks.  It closes the listening
\* sockets: t's own accept4 fails and ends its loop, another thread's does not.
RequestStop(t) ==
  /\ main # "exited"
  /\ ~stopping
  /\ stopping' = TRUE
  /\ main' = IF t = "main" /\ main = "accept" THEN "join" ELSE main
  /\ mon' = IF t = "monitor" THEN "exited" ELSE mon
  /\ UNCHANGED <<pc, req, reply, answer, failed, run, clientVars, deviceVars,
                 linkVars>>

\* The process is gone, and every thread and connection with it.
ProcessGone ==
  /\ main' = "exited"
  /\ mon' = "exited"
  /\ pc' = [k \in Conn |-> "free"]
  /\ peerOpen' = [k \in Conn |-> FALSE]
  /\ inbox' = [k \in Conn |-> <<>>]
  /\ req' = [k \in Conn |-> NoId]
  /\ reply' = [k \in Conn |-> NoFrame]
  /\ lock' = NoConn
  /\ failed' = failed \cup (UNION {ToSet(inbox[k]) : k \in Conn})
                      \cup ({req[k] : k \in Conn} \ {NoId})
  /\ UNCHANGED <<stopping, sequence, late, txn, issued, answer, run, linkVars>>

\* pthread_join(monitor_thread), and main returns.
JoinMonitor == main = "join" /\ mon = "exited" /\ ProcessGone

\* The process is killed at any point (systemd, a crash); bounded by MaxRestarts.
Kill == main # "exited" /\ run < MaxRestarts /\ ProcessGone

\* A new process: every static variable is zero again.  Closing the device threw
\* away the replies that waited in it; requests already written are still there.
Restart ==
  /\ main = "exited"
  /\ run < MaxRestarts
  /\ run' = run + 1
  /\ main' = "accept"
  /\ mon' = "accept"
  /\ stopping' = FALSE
  /\ sequence' = 0
  /\ late' = FALSE
  /\ txn' = 0
  /\ toHost' = <<>>
  /\ UNCHANGED <<pc, req, reply, answer, failed, lock, clientVars, toSlave, executed>>

-----------------------------------------------------------------------------
(* Clients: they write requests without waiting, and may leave at any time. *)

ClientSend(k) ==
  /\ peerOpen[k]
  /\ issued < MaxReq
  /\ issued' = issued + 1
  /\ inbox' = [inbox EXCEPT ![k] = Append(@, issued + 1)]
  /\ UNCHANGED <<pc, req, reply, answer, failed, run, peerOpen, threadVars,
                 deviceVars, linkVars>>

ClientClose(k) ==
  /\ peerOpen[k]
  /\ peerOpen' = [peerOpen EXCEPT ![k] = FALSE]
  /\ UNCHANGED <<pc, req, reply, answer, failed, run, inbox, issued, threadVars,
                 deviceVars, linkVars>>

-----------------------------------------------------------------------------
(* serve_client and transact *)

\* recv returns a request that rpmsg_decode accepts.
ReceiveRequest(k) ==
  /\ pc[k] = "recv" /\ inbox[k] # <<>>
  /\ pc' = [pc EXCEPT ![k] = "lock"]
  /\ req' = [req EXCEPT ![k] = Head(inbox[k])]
  /\ inbox' = [inbox EXCEPT ![k] = Tail(@)]
  /\ UNCHANGED <<reply, answer, failed, run, peerOpen, issued, threadVars,
                 deviceVars, linkVars>>

\* recv returns 0 (the client left), fails, or returns what rpmsg_decode refuses.
ReceiveFails(k) ==
  /\ pc[k] = "recv"
  /\ inbox[k] # <<>> \/ ~peerOpen[k]
  /\ EndThread(k, {})
  /\ UNCHANGED <<answer, run, issued, threadVars, deviceVars, linkVars>>

\* Faulty: the number is not kept from one transaction to the next.
NextSeqForgotten(s) == 1

\* ++g_sequence, and once more when the 8 bits wrapped to 0.
NextSeq(s) == LET n == (s + 1) % SequenceMod IN IF n = 0 THEN 1 ELSE n

\* pthread_mutex_lock
BeforeDevice(k) == pc[k] = "lock" /\ lock = NoConn

\* .. to write: the frame is on its way and the deadline is set.
BeginTransaction(k) ==
  /\ BeforeDevice(k)
  /\ LinkKeepsUp
  /\ lock' = k
  /\ sequence' = NextSeq(sequence)
  /\ txn' = txn + 1
  /\ toSlave' = Append(toSlave, [seq |-> sequence', id |-> req[k], txn |-> txn',
                                 run |-> run, intact |-> TRUE])
  /\ late' = FALSE
  /\ pc' = [pc EXCEPT ![k] = "wait"]
  /\ UNCHANGED <<req, reply, answer, failed, run, clientVars, threadVars, toHost, executed>>

\* write fails: the sequence number is spent, the lock released, the client closed.
WriteFails(k) ==
  /\ BeforeDevice(k)
  /\ LinkKeepsUp
  /\ sequence' = NextSeq(sequence)
  /\ txn' = txn + 1
  /\ EndThread(k, {req[k]})
  /\ UNCHANGED <<answer, run, issued, lock, late, threadVars, linkVars>>

\* TRANSACTION_TIMEOUT_MS have passed since the write.  Dropped frames do not
\* move the deadline.
DeadlinePasses ==
  /\ lock # NoConn /\ ~late
  /\ late' = TRUE
  /\ UNCHANGED <<pc, req, reply, answer, failed, run, lock, sequence, txn,
                 clientVars, threadVars, linkVars>>

\* Faulty: any frame that decodes is taken for the reply.
IsAnyReply(f) == f.intact

\* The frame decodes and carries the sequence number of this transaction.
IsReply(f) == f.intact /\ f.seq = sequence

\* poll and read return the next frame of the firmware; it is dropped unless
\* it is the reply.
ReadFrame(k) ==
  /\ pc[k] = "wait" /\ ~late /\ toHost # <<>>
  /\ toHost' = Tail(toHost)
  /\ LET f == Head(toHost)
     IN  IF IsReply(f)
           THEN /\ reply' = [reply EXCEPT ![k] = f]
                /\ pc' = [pc EXCEPT ![k] = "send"]
                /\ lock' = NoConn
           ELSE UNCHANGED <<reply, pc, lock>>
  /\ UNCHANGED <<req, answer, failed, run, sequence, late, txn, clientVars,
                 threadVars, toSlave, executed>>

\* Faulty: the early return forgets pthread_mutex_unlock.
FailWithoutUnlock(k) ==
  /\ pc[k] = "wait"
  /\ EndThread(k, {req[k]})
  /\ UNCHANGED <<answer, run, issued, lock, sequence, late, txn, threadVars, linkVars>>

\* The loop is left without a reply: deadline, poll error, read error, or
\* g_stopping.  The lock is released and the client's connection closed.
TransactionFails(k) ==
  /\ pc[k] = "wait"
  /\ lock' = NoConn
  /\ EndThread(k, {req[k]})
  /\ UNCHANGED <<answer, run, issued, sequence, late, txn, threadVars, linkVars>>

\* send: the client has its reply, or has gone and the thread ends.
SendReply(k) ==
  /\ pc[k] = "send"
  /\ IF peerOpen[k]
       THEN /\ answer' = [answer EXCEPT ![req[k]] = reply[k]]
            /\ IF stopping
                 THEN EndThread(k, {})
                 ELSE /\ pc' = [pc EXCEPT ![k] = "recv"]
                      /\ req' = [req EXCEPT ![k] = NoId]
                      /\ reply' = [reply EXCEPT ![k] = NoFrame]
                      /\ UNCHANGED <<peerOpen, inbox, failed>>
       ELSE EndThread(k, {req[k]}) /\ UNCHANGED answer
  /\ UNCHANGED <<run, issued, threadVars, deviceVars, linkVars>>

-----------------------------------------------------------------------------
(* The firmware's end of the link: it answers in order, once or not at all. *)

SlaveHandles ==
  /\ toSlave # <<>>
  /\ toSlave' = Tail(toSlave)
  /\ LET f == Head(toSlave)
     IN  /\ executed' = [executed EXCEPT ![f.id] = @ + 1]
         /\ \E r \in {<<>>, <<f>>, <<[f EXCEPT !.intact = FALSE]>>} :
              toHost' = IF main = "exited" THEN toHost ELSE toHost \o r
  /\ UNCHANGED <<pc, req, reply, answer, failed, run, clientVars, threadVars, deviceVars>>

\* slave_handle_frame returns no bytes for a frame it does not decode.
SlaveIgnores ==
  /\ toSlave # <<>>
  /\ toSlave' = Tail(toSlave)
  /\ UNCHANGED <<pc, req, reply, answer, failed, run, toHost, executed,
                 clientVars, threadVars, deviceVars>>

-----------------------------------------------------------------------------
Client(k) == ClientSend(k) \/ ClientClose(k)

ServeClient(k) ==
  \/ ReceiveRequest(k) \/ ReceiveFails(k) \/ BeginTransaction(k) \/ WriteFails(k)
  \/ ReadFrame(k) \/ TransactionFails(k) \/ SendReply(k)

Threads == {"main", "monitor", "client"}

Next ==
  \/ \E k \in Conn : Accept(k) \/ Client(k) \/ ServeClient(k)
  \/ \E t \in Threads : RequestStop(t)
  \/ AcceptFails \/ AcceptMonitor \/ JoinMonitor \/ Kill \/ Restart
  \/ DeadlinePasses \/ SlaveHandles \/ SlaveIgnores

Spec == Init /\ [][Next]_vars

\* The threads run and time passes; nothing is asked of clients, monitors, the
\* signal, the firmware, or of who gets a contended mutex.
Fairness ==
  /\ WF_vars(DeadlinePasses)
  /\ \A k \in Conn : WF_vars(late /\ TransactionFails(k)) /\ WF_vars(SendReply(k))

FairSpec == Spec /\ Fairness

-----------------------------------------------------------------------------
(* Properties *)

\* The device has one user at a time: a thread waits for a reply exactly while it
\* holds g_device_lock, whichever way transactions end.
SerialDevice == \A k \in Conn : pc[k] = "wait" <=> lock = k

\* No program takes another one's reply: whatever is sent to a client is the
\* firmware's reply to the very request it made.
ReplyAnswersRequest == \A i \in ReqId : answer[i] # NoFrame => answer[i].id = i

\* The same, whatever happened to earlier incarnations of the broker: a reply to
\* a frame this process wrote never reaches the wrong client, however many
\* replies came late, damaged or not at all and however often g_sequence wrapped.
RunReplyAnswersRequest ==
  \A k \in Conn : pc[k] = "send" /\ reply[k].run = run => reply[k].id = req[k]

\* What clients are promised.
Fate(i) ==
  IF answer[i] # NoFrame THEN "answered"
  ELSE IF i \in failed THEN "failed"
  ELSE IF i <= issued THEN "pending" ELSE "unsent"

Promise == INSTANCE RequestReply WITH
  fate <- [i \in ReqId |-> Fate(i)],
  result <- [i \in ReqId |-> answer[i].id]

\* The broker implements RequestReply: each answer is the request's own and
\* follows its execution, an answered request is never also given up.
KeepsPromise == Promise!Spec

\* A transaction ends by itself, whatever the firmware does: the device lock that
\* every other client waits for is released.
LockReleased == \A k \in Conn : lock = k ~> lock # k
=============================================================================
