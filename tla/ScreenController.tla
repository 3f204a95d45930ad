---------------------------- MODULE ScreenController ----------------------------
(***************************************************************************)
(* The controller of the touch screen (controller.py) with its two workers *)
(* (worker.py): Wi-Fi (network.py) and Bluetooth (bluetooth.py).  One      *)
(* thread reads the events of the screen, the commands of the socket and   *)
(* the results of the workers; a worker does one operation after the       *)
(* other.                                                                  *)
(*                                                                         *)
(* The two halves are of one form, a list with a selected row and a        *)
(* worker, and meet only in the face: "radio" says which page beside home  *)
(* and face a behaviour follows, that of one of the halves or the system   *)
(* page.  The loop of run takes its steps in a fixed order; here they come *)
(* in any order.                                                           *)
(***************************************************************************)
EXTENDS ExpressionService

CONSTANTS
  Names,     \* networks or devices
  PageSize,  \* rows of a page
  MaxWork    \* bound on the operations under way when the user or a timer adds one

\* "unknown" stands for a row the cache knows nothing of.
ASSUME ScreenAssumption ==
  /\ PageSize \in Nat \ {0} /\ MaxWork \in Nat \ {0}
  /\ IsFiniteSet(Names) /\ {NoOne, "unknown"} \cap Names = {}

VARIABLES
  radio,   \* "wifi", "bluetooth" or "system"
  work,    \* TaskWorker: the operations pending, queued and done
  list     \* networks or bluetooth_devices, the one selected, and the page shown

screenVars == <<mgr, api, scr, radio, work, list>>

Work0 == [pending |-> {}, jobs |-> <<>>, results |-> <<>>]
List0 == [items |-> <<>>, selected |-> NoOne, page |-> 0]

Slots == 0..(PageSize - 1)
Unknown == [name |-> "unknown", marked |-> FALSE]

ScreenInit ==
  /\ mgr = Manager0 /\ api = Api0
  /\ scr = [open |-> FALSE, page |-> "home", touches |-> <<>>, cache |-> [i \in Slots |-> Unknown],
            tft |-> "home", var |-> "smile", face |-> NoOne, rows |-> [i \in Slots |-> Blank]]
  /\ radio \in {"wifi", "bluetooth", "system"}
  /\ work = Work0 /\ list = List0

-----------------------------------------------------------------------------
(* TaskWorker and its operations *)

\* _submit, _submit_bluetooth: one that is pending is not submitted again.
Submitted(w, half, op) ==
  IF half # radio \/ op \in w.pending THEN w
  ELSE [w EXCEPT !.pending = @ \cup {op}, !.jobs = Append(@, op)]

\* _run: an exception is a result as well.
WorkerRuns ==
  /\ work.jobs # <<>>
  /\ work' = [work EXCEPT !.jobs = Tail(@), !.results = Append(@, Head(work.jobs))]
  /\ UNCHANGED <<mgr, api, scr, radio, list>>

\* Faulty: after an error the operation stays pending.
KeptPending(outcome) ==
  [work EXCEPT !.results = Tail(@),
               !.pending = IF outcome = "error" THEN @ ELSE @ \ {Head(work.results)}]

\* _drain_worker_results takes a result off the queue.
Taken(outcome) == [work EXCEPT !.results = Tail(@), !.pending = @ \ {Head(work.results)}]

\* WifiManager.scan, BluetoothManager.devices: each name once.
Lists == {s \in UNION {[1..n -> Names] : n \in 0..Cardinality(Names)} :
            \A i, j \in DOMAIN s : s[i] = s[j] => i = j}

-----------------------------------------------------------------------------
(* The rows: screen.py *)

\* render_networks, render_bluetooth
RowsOf(l) ==
  [i \in Slots |->
     LET k == l.page * PageSize + i + 1 IN
       IF k <= Len(l.items) THEN [name |-> l.items[k], marked |-> l.items[k] = l.selected]
       ELSE Blank]

\* set_text: what the cache holds is not sent again, and a page that is not up ignores it.
Written(s, rows, force) ==
  [s EXCEPT !.cache = rows,
            !.rows = [i \in Slots |-> IF s.tft = radio /\ (force \/ s.cache[i] # rows[i])
                                        THEN rows[i] ELSE @[i]]]

\* The cache of a closed port is cleared when it opens.
Rendered(s, l, force) == IF s.open THEN {Written(s, RowsOf(l), force), PortClosed(s)} ELSE {s}

\* clear_cache
Forgotten(s) == [s EXCEPT !.cache = [i \in Slots |-> Unknown]]

\* The last page that has rows.
LastPage(items) == IF items = <<>> THEN 0 ELSE (Len(items) - 1) \div PageSize

Listed(items) == [list EXCEPT !.items = items,
                    !.page = IF @ <= LastPage(items) THEN @ ELSE LastPage(items)]

-----------------------------------------------------------------------------
(* The port *)

\* _ensure_serial; an open that fails is tried again after two seconds.
EnsureSerial ==
  /\ ~scr.open
  /\ LET opened == Forgotten([scr EXCEPT !.open = TRUE, !.touches = <<>>]) IN
       scr' \in UNION {IF radio = "wifi" THEN Rendered(s, list, FALSE) ELSE {s} :
                         s \in Applied(opened, mgr.current, FALSE)}
  /\ work' = Submitted(Submitted(work, "wifi", "scan"), "wifi", "status")
  /\ UNCHANGED <<mgr, api, radio, list>>

\* _read_serial: a read that fails closes the port.
ReadFails ==
  /\ scr.open
  /\ scr' = PortClosed(scr)
  /\ UNCHANGED <<mgr, api, radio, work, list>>

\* systemd starts the controller again, also after the power went off; the screen stays as
\* it is.
Restarts ==
  /\ mgr' = Manager0 /\ api' = Api0
  /\ scr' = Forgotten([PortClosed(scr) EXCEPT !.page = "home"])
  /\ work' = Work0 /\ list' = List0
  /\ UNCHANGED radio

-----------------------------------------------------------------------------
(* The user and the screen.  The bounds are on what is not read or done yet. *)

Patient == Len(scr.touches) < MaxTouches
World == UNCHANGED <<mgr, api, radio, work, list>>

Enters ==
  /\ Patient
  /\ \E p \in {"home", "face", radio} \ {scr.tft} : scr' = Entered(scr, p)
  /\ World

ChangesFace ==
  /\ Patient /\ scr.tft = "face"
  /\ \E f \in Expressions : scr' = Sends([scr EXCEPT !.var = f, !.face = f], FaceEvent(f))
  /\ World

\* The buttons of the page of the radio.
Touches ==
  /\ Patient /\ scr.open /\ scr.tft = radio
  /\ Len(work.jobs) + Len(work.results) < MaxWork
  /\ \/ \E k \in {"rescan", "connect", "disconnect", "next", "previous"} : scr' = Sends(scr, Event(k))
     \/ \E i \in Slots : scr' = Sends(scr, [Event("select") EXCEPT !.slot = i])
     \/ radio = "bluetooth" /\ scr' = Sends(scr, Event("pair"))
  /\ radio # "system"
  /\ World

TouchesRefresh ==
  /\ Patient /\ scr.open /\ scr.tft = "system"
  /\ scr' = Sends(scr, Event("refresh"))
  /\ World

\* The screen loses its power for a moment.
ScreenResets ==
  /\ Patient
  /\ scr' = Sends([scr EXCEPT !.tft = "home", !.var = "smile", !.face = NoOne,
                              !.rows = [i \in Slots |-> Blank]],
                  Event("ready"))
  /\ World

-----------------------------------------------------------------------------
(* The events: _handle_event *)

Reads(kind) == scr.open /\ scr.touches # <<>> /\ Head(scr.touches).kind = kind
Event1 == Head(scr.touches)
Unread == [scr EXCEPT !.touches = Tail(@)]
On(page) == [Unread EXCEPT !.page = page]

\* _update_system_alert, when the metrics can be read.
Metrics(screens) ==
  \/ \E alert \in BOOLEAN : AlertFace(alert, screens)
  \/ mgr' = mgr /\ scr' \in screens

OnReady ==
  /\ Reads("ready")
  /\ Metrics({Forgotten(On("home"))})
  /\ work' = Submitted(work, "wifi", "status")
  /\ UNCHANGED <<api, radio, list>>

OnHome ==
  /\ Reads("home")
  /\ Metrics({On("home")})
  /\ work' = Submitted(work, "wifi", "status")
  /\ UNCHANGED <<api, radio, list>>

\* SYSTEM_SYNC, SYSTEM_REFRESH
OnSystem ==
  /\ \/ Reads("system") /\ Metrics({On("system")})
     \/ Reads("refresh") /\ Metrics({Unread})
  /\ UNCHANGED <<api, radio, work, list>>

OnFace ==
  /\ Reads("face")
  /\ FaceSynced(Event1.face, On("face"))
  /\ UNCHANGED <<api, radio, work, list>>

\* Faulty: the rows that were sent before the page was left are not sent again.
CacheKept == Rendered(On("wifi"), list, FALSE)

\* SYNC
WifiEntered == Rendered(Forgotten(On("wifi")), list, FALSE)

OnWifi ==
  /\ Reads("wifi")
  /\ AskFace("wifi.scan", WifiEntered)
  /\ work' = Submitted(Submitted(work, "wifi", "scan"), "wifi", "status")
  /\ UNCHANGED <<api, radio, list>>

\* BLUETOOTH_SYNC
OnBluetooth ==
  /\ Reads("bluetooth")
  /\ list' = [list EXCEPT !.page = 0]
  /\ scr' \in Rendered(On("bluetooth"), list', TRUE)
  /\ work' = Submitted(work, "bluetooth", "scan")
  /\ UNCHANGED <<mgr, api, radio>>

\* RESCAN, BLUETOOTH_SCAN
OnRescan ==
  /\ Reads("rescan")
  /\ work' = Submitted(work, radio, "scan")
  /\ IF radio = "wifi" THEN AskFace("wifi.scan", {Unread}) /\ list' = list
     ELSE mgr' = mgr /\ scr' = Unread /\ list' = [list EXCEPT !.page = 0]
  /\ UNCHANGED <<api, radio>>

\* SELECT, BLUETOOTH_SELECT: the row of the list as it is now.
OnSelect ==
  /\ Reads("select")
  /\ LET k == list.page * PageSize + Event1.slot + 1 IN
       IF k <= Len(list.items)
         THEN /\ list' = [list EXCEPT !.selected = list.items[k]]
              /\ scr' \in Rendered(Unread, list', radio = "bluetooth")
         ELSE list' = list /\ scr' = Unread
  /\ UNCHANGED <<mgr, api, radio, work>>

\* _change_page, _change_bluetooth_page
OnTurn ==
  /\ Reads("next") \/ Reads("previous")
  /\ list' = [list EXCEPT !.page =
                IF Reads("next") THEN (IF @ < LastPage(list.items) THEN @ + 1 ELSE LastPage(list.items))
                ELSE IF @ > 0 THEN @ - 1 ELSE 0]
  /\ scr' \in Rendered(Unread, list', FALSE)
  /\ UNCHANGED <<mgr, api, radio, work>>

\* _connect, DISCONNECT: a network that is selected, whether it is still there or not.
OnWifiButton ==
  /\ radio = "wifi"
  /\ \E op \in {"connect", "disconnect"} :
       /\ Reads(op)
       /\ work' = IF op = "connect" /\ list.selected = NoOne THEN work
                  ELSE Submitted(work, "wifi", op)
  /\ scr' = Unread
  /\ UNCHANGED <<mgr, api, radio, list>>

\* _start_bluetooth_action: the device selected, or for disconnect one that is connected.
OnBluetoothButton ==
  /\ radio = "bluetooth"
  /\ \E op \in {"pair", "connect", "disconnect"} :
       /\ Reads(op)
       /\ work' \in IF list.selected \in Range(list.items) THEN {Submitted(work, "bluetooth", op)}
                    ELSE IF op = "disconnect" /\ list.items # <<>>
                      THEN {work, Submitted(work, "bluetooth", op)}
                    ELSE {work}
  /\ scr' = Unread
  /\ UNCHANGED <<mgr, api, radio, list>>

-----------------------------------------------------------------------------
(* The timers: _schedule_periodic *)

Periodic ==
  /\ Len(work.jobs) + Len(work.results) < MaxWork
  /\ \/ \E op \in {"status", "scan"} : work' = Submitted(work, "wifi", op)
     \/ work' = Submitted(work, "bluetooth", "connected_addresses")
  /\ UNCHANGED <<mgr, api, scr, radio, list>>

\* The home page and the system page are drawn again.
Redraws ==
  /\ Keeps /\ scr.page \in {"home", "system"}
  /\ Metrics({scr})
  /\ UNCHANGED <<api, radio, work, list>>

-----------------------------------------------------------------------------
(* The results *)

Finished(op) == Keeps /\ work.results # <<>> /\ Head(work.results) = op

\* _handle_worker_result and _handle_bluetooth_result for an error; a poll that fails is
\* not shown.
OnError ==
  /\ work.results # <<>> /\ Keeps
  /\ work' = Taken("error")
  /\ IF Finished("connected_addresses") THEN UNCHANGED <<mgr, scr>>
     ELSE AskFace(IF radio = "wifi" THEN "wifi.error" ELSE "bluetooth.error", {scr})
  /\ UNCHANGED <<api, radio, list>>

\* scan, devices: for Bluetooth a selected device that is gone is not selected any more.
OnListed ==
  /\ Finished("scan") \/ Finished("devices")
  /\ \E items \in Lists :
       LET new == Listed(items) IN
         list' = IF radio = "bluetooth" /\ list.selected \notin Range(items)
                   THEN [new EXCEPT !.selected = NoOne] ELSE new
  /\ scr' \in Rendered(scr, list', radio = "bluetooth")
  /\ work' = Taken("done")
  /\ UNCHANGED <<mgr, api, radio>>

OnStatus ==
  /\ Finished("status")
  /\ work' = Taken("done")
  /\ UNCHANGED <<mgr, api, scr, radio, list>>

\* connect, disconnect of Wi-Fi
OnWifiChanged ==
  /\ radio = "wifi"
  /\ \E op \in {"connect", "disconnect"}, outcome \in {"done", "refused"} :
       /\ Finished(op)
       /\ IF outcome = "refused" THEN AskFace("wifi.error", {scr})
          ELSE IF op = "connect" THEN AskFace("wifi.connection", {scr})
          ELSE UNCHANGED <<mgr, scr>>
       /\ work' = Submitted(Submitted(Taken(outcome), "wifi", "status"), "wifi", "scan")
  /\ UNCHANGED <<api, radio, list>>

\* pair, connect, disconnect of Bluetooth
OnBluetoothChanged ==
  /\ radio = "bluetooth"
  /\ \E op \in {"pair", "connect", "disconnect"}, outcome \in {"done", "refused"} :
       /\ Finished(op)
       /\ IF outcome = "refused" THEN AskFace("bluetooth.error", {scr})
          ELSE IF op # "disconnect" THEN AskFace("bluetooth.connection", {scr})
          ELSE UNCHANGED <<mgr, scr>>
       /\ work' = IF outcome = "refused" THEN Taken(outcome)
                  ELSE Submitted(Taken(outcome), "bluetooth", "devices")
  /\ UNCHANGED <<api, radio, list>>

\* connected_addresses, against those of the last poll: a device that is new among them is
\* shown in the face, and any change asks for the list.  Which they are is left out.
OnPolled ==
  /\ Finished("connected_addresses")
  /\ \/ work' = Taken("done") /\ UNCHANGED <<mgr, scr>>
     \/ /\ work' = Submitted(Taken("done"), "bluetooth", "devices")
        /\ AskFace("bluetooth.connection", {scr}) \/ UNCHANGED <<mgr, scr>>
  /\ UNCHANGED <<api, radio, list>>

-----------------------------------------------------------------------------

ScreenStep ==
  \/ EnsureSerial \/ ReadFails \/ Restarts \/ WorkerRuns
  \/ Enters \/ ChangesFace \/ Touches \/ TouchesRefresh \/ ScreenResets
  \/ OnReady \/ OnHome \/ OnSystem \/ OnFace \/ OnWifi \/ OnBluetooth \/ OnRescan \/ OnSelect \/ OnTurn
  \/ OnWifiButton \/ OnBluetoothButton
  \/ Periodic \/ Redraws
  \/ OnError \/ OnListed \/ OnStatus \/ OnWifiChanged \/ OnBluetoothChanged \/ OnPolled
  \/ (ApiServes \/ ApiGivesUp \/ DrainCommand \/ Expires) /\ UNCHANGED <<radio, work, list>>

ScreenSpec == ScreenInit /\ [][ScreenStep]_screenVars

-----------------------------------------------------------------------------
(* Properties *)

\* An operation is pending exactly while it is queued, running or its result is waiting,
\* and only once: none is lost, and none blocks its successors for ever.
PendingIsWork ==
  /\ work.pending = Range(work.jobs) \cup Range(work.results)
  /\ Cardinality(work.pending) = Len(work.jobs) + Len(work.results)

\* Once its events are read, the Wi-Fi page shows the list a touch of a row refers to, with
\* the network selected marked, whatever was written while the page was not up.
RowsAreTheList ==
  scr.open /\ scr.tft = "wifi" /\ scr.touches = <<>> => scr.rows = RowsOf(list)
=============================================================================
