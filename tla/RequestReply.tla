---------------------------- MODULE RequestReply ----------------------------
(***************************************************************************)
(* What the broker promises its clients, without threads, frames, sequence *)
(* numbers or a device: every request is answered with its own result or   *)
(* its connection is closed; it is carried out at most once; an answer     *)
(* means it was carried out, a closed connection means nothing: the        *)
(* request may never run, or run later.                                    *)
(***************************************************************************)
EXTENDS Naturals

CONSTANT MaxReq

VARIABLES
  fate,      \* what the client knows of each request
  result,    \* the request whose result it was given, 0 for none
  executed   \* how often the firmware carried it out

vars == <<fate, result, executed>>
ReqId == 1..MaxReq

Init ==
  /\ fate = [i \in ReqId |-> "unsent"]
  /\ result = [i \in ReqId |-> 0]
  /\ executed = [i \in ReqId |-> 0]

Issue(i) ==
  /\ fate[i] = "unsent"
  /\ fate' = [fate EXCEPT ![i] = "pending"]
  /\ UNCHANGED <<result, executed>>

Execute(i) ==
  /\ fate[i] \in {"pending", "failed"}
  /\ executed[i] = 0
  /\ executed' = [executed EXCEPT ![i] = 1]
  /\ UNCHANGED <<fate, result>>

\* Together with the answer, requests queued behind it may be given up.
Answer(i, lost) ==
  /\ fate[i] = "pending"
  /\ executed[i] = 1
  /\ result' = [result EXCEPT ![i] = i]
  /\ fate' = [j \in ReqId |-> IF j = i THEN "answered"
                              ELSE IF j \in lost THEN "failed" ELSE fate[j]]
  /\ UNCHANGED executed

GiveUp(lost) ==
  /\ fate' = [j \in ReqId |-> IF j \in lost THEN "failed" ELSE fate[j]]
  /\ UNCHANGED <<result, executed>>

Pending == {i \in ReqId : fate[i] = "pending"}

Next ==
  \/ \E i \in ReqId : Issue(i) \/ Execute(i)
  \/ \E i \in Pending : \E lost \in SUBSET (Pending \ {i}) : Answer(i, lost)
  \/ \E lost \in SUBSET Pending : GiveUp(lost)

Spec == Init /\ [][Next]_vars
=============================================================================
