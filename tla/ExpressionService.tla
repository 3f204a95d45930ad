--------------------------- MODULE ExpressionService ---------------------------
(***************************************************************************)
(* The face of the robot: the expression manager of the screen controller  *)
(* (wifi-screen-controller, expression.py), its socket for other programs  *)
(* (expression_api.py), and the serial line to the touch screen            *)
(* (screen.py, serial_port.py, controller.py).                             *)
(*                                                                         *)
(* The screen's own program is not in the repository.  What is assumed of  *)
(* it is what the controller does with its events: it sends one when a     *)
(* page is entered and one when the user changes the face, it keeps only   *)
(* what is written to the page it is on, and it draws the face of the      *)
(* variable sys2 when the face page is entered, not when sys2 is written.  *)
(***************************************************************************)
EXTENDS Naturals, Sequences, SequencesExt

CONSTANTS
  Expressions,       \* expressions other programs ask for, the first one among them
  Priorities,  \* priorities they ask with
  Sources,     \* sources whose requests are followed
  MaxQueue,    \* bound on the commands that wait for the controller
  MaxTouches   \* bound on the events of the screen that are not read yet

\* EXPRESSION_DEFINITIONS
Definitions == {"smile", "peek", "happy", "love", "dizzy", "angry", "sleepy", "surprised",
                "uwu", "hello"}

ASSUME ExpressionAssumption ==
  /\ "smile" \in Expressions /\ Expressions \subseteq Definitions /\ Priorities \subseteq Nat
  /\ MaxQueue \in Nat \ {0} /\ MaxTouches \in Nat \ {0}

VARIABLES
  mgr,  \* ExpressionManager: requests in the order of their sequence numbers, and the winner
  api,  \* ExpressionSocketServer: commands queued, and whether a connection waits
  scr   \* the port, what the controller knows of the screen, and the screen

NoOne == "nobody"

Manager0 == [requests |-> <<>>, default |-> "smile", current |-> "smile", source |-> NoOne]
Api0 == [queued |-> 0, waits |-> FALSE]

-----------------------------------------------------------------------------
(* ExpressionManager *)

\* _winner: the highest priority, and of these the latest.
Winner(requests) ==
  requests[CHOOSE i \in DOMAIN requests : \A j \in DOMAIN requests :
             \/ requests[j].priority < requests[i].priority
             \/ requests[j].priority = requests[i].priority /\ j <= i]

\* _refresh
Refreshed(m, requests) ==
  [m EXCEPT !.requests = requests,
            !.current = IF requests = <<>> THEN m.default ELSE Winner(requests).face,
            !.source = IF requests = <<>> THEN NoOne ELSE Winner(requests).source]

Without(requests, gone) == SelectSeq(requests, LAMBDA r : r.source \notin gone)

Has(m, source) == \E i \in DOMAIN m.requests : m.requests[i].source = source

\* The requests of the others: a dictionary has one entry of a source.
Others(m, source) == IF Has(m, source) THEN Without(m.requests, {source}) ELSE m.requests

\* show: the newest request of a source takes the place of the one before.
Shown(m, request) == Refreshed(m, Append(Others(m, request.source), request))

\* clear, clear_all, and tick for the requests that have expired: nothing happens when none
\* of them is there.
Cleared(m, gone) ==
  IF \E source \in gone : Has(m, source) THEN Refreshed(m, Without(m.requests, gone)) ELSE m

\* set_default
Defaulted(m, face) ==
  IF m.requests = <<>> THEN [m EXCEPT !.default = face, !.current = face, !.source = NoOne]
  ELSE [m EXCEPT !.default = face]

-----------------------------------------------------------------------------
(* The line to the screen *)

\* The text of a row: a network or device, and the mark of the one selected.
Blank == [name |-> NoOne, marked |-> FALSE]

Event(kind) == [kind |-> kind, face |-> "smile", slot |-> 0]
FaceEvent(face) == [Event("face") EXCEPT !.face = face]

\* What it sends while the port is closed is lost.
Sends(s, event) == IF s.open THEN [s EXCEPT !.touches = Append(@, event)] ELSE s

\* _write_serial: a write that fails or takes more than a second closes the port; what it
\* had sent of this handler is sent again when the port opens.
PortClosed(s) == [s EXCEPT !.open = FALSE, !.touches = <<>>]

\* The screen enters a page: its rows are blank, the face page draws the face of sys2, and
\* the event of the page is sent.
Entered(s, page) ==
  Sends([s EXCEPT !.tft = page, !.rows = [i \in DOMAIN s.rows |-> Blank],
                  !.face = IF page = "face" THEN s.var ELSE NoOne],
        IF page = "face" THEN FaceEvent(s.var) ELSE Event(page))

\* set_face_state: sys2, and with "reload" the face page.
FaceWritten(s, face, reload) ==
  IF reload THEN Entered([s EXCEPT !.var = face], "face") ELSE [s EXCEPT !.var = face]

\* _apply_expression: the page is reloaded only when it is the one noted, and it is noted
\* also when the port is closed, or closes before the first command or after it.
Applied(s, face, force) ==
  LET reload == force \/ s.page = "face"
      noted == [s EXCEPT !.page = IF reload THEN "face" ELSE @]
  IN IF s.open THEN {FaceWritten(noted, face, reload), PortClosed(noted),
                     PortClosed([noted EXCEPT !.var = face])}
     ELSE {noted}

\* _refresh calls back unless the same request wins again.
CalledBack(s, m, new, fresh) ==
  IF new.source # m.source \/ new.current # m.current \/ new.source = fresh
    THEN Applied(s, new.current, IF new.requests = <<>> THEN FALSE ELSE Winner(new.requests).force)
    ELSE {s}

-----------------------------------------------------------------------------
(* The requests of the controller itself *)

\* FACE_..., PRIORITY_...: what it asks for under which source
Own ==
  [source : {"wifi.scan"}, face : {"peek"}, priority : {20}]
  \cup [source : {"wifi.connection"}, face : {"happy"}, priority : {40}]
  \cup [source : {"bluetooth.connection"}, face : {"love"}, priority : {40}]
  \cup [source : {"wifi.error", "bluetooth.error"}, face : {"dizzy"}, priority : {40}]
  \cup [source : {"system.alert"}, face : {"angry"}, priority : {100}]

OwnRequest(source) ==
  LET own == CHOOSE o \in Own : o.source = source IN
    [source |-> source, face |-> own.face, priority |-> own.priority,
     force |-> FALSE]

\* _request_expression, in a handler that has left the screen as one of "screens".
AskFace(source, screens) ==
  IF source \in Sources
    THEN LET new == Shown(mgr, OwnRequest(source)) IN
           mgr' = new /\ scr' \in UNION {CalledBack(s, mgr, new, source) : s \in screens}
    ELSE mgr' = mgr /\ scr' \in screens

\* _update_system_alert, likewise
AlertFace(alert, screens) ==
  IF alert /\ ~Has(mgr, "system.alert") THEN AskFace("system.alert", screens)
  ELSE IF ~alert /\ Has(mgr, "system.alert")
    THEN LET new == Cleared(mgr, {"system.alert"}) IN
           mgr' = new /\ scr' \in UNION {CalledBack(s, mgr, new, NoOne) : s \in screens}
  ELSE mgr' = mgr /\ scr' \in screens

-----------------------------------------------------------------------------
(* The socket: expression_api.py and its clients *)

\* One connection at a time: its command is queued and its answer waited for.
ApiServes ==
  /\ ~api.waits /\ api.queued < MaxQueue
  /\ api' = [queued |-> api.queued + 1, waits |-> TRUE]
  /\ UNCHANGED <<mgr, scr>>

\* After three seconds the connection gets an error, but the command stays queued.
ApiGivesUp ==
  /\ api.waits
  /\ api' = [api EXCEPT !.waits = FALSE]
  /\ UNCHANGED <<mgr, scr>>

\* What the other programs ask for: "external" stands for their sources.
FaceRequests == [source : {"external"} \cap Sources, face : Expressions, priority : Priorities,
             force : BOOLEAN]

\* execute_expression_command: show, clear, clear_all, set_default; the others, and the
\* refused ones, change nothing.
CommandExecuted ==
  LET clears == {{"external"}, Sources}
      done(new, fresh) == mgr' = new /\ scr' \in CalledBack(scr, mgr, new, fresh)
  IN \/ \E r \in FaceRequests : done(Shown(mgr, r), r.source)
     \/ \E gone \in clears : done(Cleared(mgr, gone), NoOne)
     \/ \E f \in Expressions :
          /\ mgr' = Defaulted(mgr, f)
          /\ scr' \in IF mgr.requests = <<>> THEN Applied(scr, f, FALSE) ELSE {scr}
     \/ UNCHANGED <<mgr, scr>>

\* What the controller does of itself may cross an event that it has not read yet, but the
\* events it causes do not pile up.
Keeps == Len(scr.touches) <= MaxTouches

\* The answer of the last command in the queue is the one that is waited for.
DrainCommand ==
  /\ api.queued > 0 /\ Keeps
  /\ CommandExecuted
  /\ api' = [queued |-> api.queued - 1, waits |-> api.waits /\ api.queued > 1]

\* tick: at least one request has expired.  One without a duration is one that does not
\* expire for now; the alert never does.
Expires ==
  /\ Keeps
  /\ \E gone \in SUBSET ({r.source : r \in Range(mgr.requests)} \ {"system.alert"}) :
       /\ gone # {}
       /\ mgr' = Cleared(mgr, gone)
       /\ scr' \in CalledBack(scr, mgr, mgr', NoOne)
  /\ UNCHANGED api

-----------------------------------------------------------------------------
(* The face page: FACE_SYNC *)

\* Faulty: with a request active the event of the screen is ignored.
SyncIgnored(face, s) ==
  IF mgr.requests # <<>> THEN mgr' = mgr /\ scr' = s
  ELSE mgr' = Defaulted(mgr, face) /\ scr' = s

\* The request that is active is shown again; without one the screen's face is the default.
FaceSynced(face, s) ==
  IF mgr.requests # <<>>
    THEN mgr' = mgr /\ scr' \in IF face = mgr.current THEN {s} ELSE Applied(s, mgr.current, FALSE)
    ELSE mgr' = Defaulted(mgr, face) /\ scr' = s

-----------------------------------------------------------------------------
(* Properties *)

\* No event of the face page is unread.
NoSync(s) == \A e \in Range(s.touches) : e.kind # "face"

\* While a request is active and the controller has noted that the face page is up, the
\* screen shows the winner once the events of that page are read: whatever the user touched,
\* however the requests came, expired and were cleared before the event was read, and after
\* a write that failed.  Nothing is said of a face page the controller does not know of, one
\* that was up when the controller was started again or whose event was lost.
FaceHolds ==
  scr.open /\ scr.tft = "face" /\ scr.page = "face" /\ NoSync(scr) /\ mgr.requests # <<>> =>
    scr.face = mgr.current
=============================================================================
