----------------------------- MODULE WebViewer -----------------------------
(* web-viewer/server.py as its HTTP threads share it: camera frames and maps that *)
(* carry a sequence number, the JPEG cache, the gimbal commands and the cached    *)
(* hardware status, the one-time terminal, and the restart of a service through   *)
(* robot-service-control.py. The daemons behind the sockets are external here.    *)
EXTENDS Naturals

CONSTANTS
  Handlers,    \* threads of ThreadingHTTPServer
  Widths,      \* sizes a page may ask a picture in
  MaxFrames,   \* bound: frames of a stream in one life of the viewer
  MaxRestarts  \* bound: restarts of the viewer

ASSUME ViewerAssumption == MaxFrames \in Nat /\ MaxRestarts \in Nat /\ "nobody" \notin Handlers

VARIABLES
  frames,   \* camera_sequences["rgb"] and map_sequence; zero before the first frame
  jpeg,     \* rgb_jpeg_cache: the frame each width shows, and rgb_jpeg_cache_sequence
  handler,  \* the request a thread serves, how far it is, and its answer
  locks,    \* who holds command_lock and HardwareMonitor.lock
  hardware, \* last_snapshot: the gimbal's readiness, as read or kept during a command
  token,    \* TerminalServer._token_used
  restarts  \* how often the viewer was restarted

viewerVars == <<frames, jpeg, handler, locks, hardware, token, restarts>>

Streams == {"rgb", "map"}
Nobody == "nobody"
Sequence == 0..MaxFrames
Commands == {"set", "enable", "disable", "center", "estop"}
NoCache == [sequence |-> 0, pictures |-> [w \in Widths |-> 0]]
Free == [at |-> "idle", what |-> "none", after |-> 0, frame |-> 0, picture |-> 0]

ViewerTypeOK ==
  /\ frames \in [Streams -> Sequence]
  /\ jpeg \in [sequence : Sequence, pictures : [Widths -> Sequence]]
  /\ handler \in [Handlers -> [at : {"idle", "wait", "grab", "encode", "answered",
                                     "lock", "status", "request", "collect", "gimbal", "shell"},
                               what : Widths \cup Streams \cup Commands \cup {"none"},
                               after : Sequence, frame : Sequence, picture : Sequence]]
  /\ locks \in [command : Handlers \cup {Nobody}, hardware : Handlers \cup {Nobody}]
  /\ hardware \in [ready : BOOLEAN, pending : BOOLEAN]
  /\ token \in BOOLEAN /\ restarts \in 0..MaxRestarts

ViewerInit ==
  /\ frames = [s \in Streams |-> 0] /\ jpeg = NoCache
  /\ handler = [h \in Handlers |-> Free]
  /\ locks = [command |-> Nobody, hardware |-> Nobody]
  /\ hardware = [ready |-> FALSE, pending |-> FALSE]
  /\ token = FALSE /\ restarts = 0

Starts(h, state) == handler[h].at = "idle" /\ handler' = [handler EXCEPT ![h] = state]
Goes(h, at) == handler' = [handler EXCEPT ![h].at = at]
Frees(h) == handler' = [handler EXCEPT ![h] = Free]
Responds(h, sequence, shows) ==
  handler' = [handler EXCEPT ![h].at = "answered", ![h].frame = sequence, ![h].picture = shows]

-----------------------------------------------------------------------------
(* Frames and pictures. *)

\* _store_camera_image and on_map.
Stores(stream) ==
  /\ frames[stream] < MaxFrames
  /\ frames' = [frames EXCEPT ![stream] = @ + 1]
  /\ UNCHANGED <<jpeg, handler, locks, hardware, token, restarts>>

\* _serve_camera_frame and _serve_map_frame: the newest frame, or "no content".
Polls(h, stream, after) ==
  /\ frames[stream] > 0
  /\ handler[h].at = "idle"
  /\ IF frames[stream] <= after THEN UNCHANGED handler
     ELSE handler' = [handler EXCEPT ![h] = [at |-> "answered", what |-> stream, after |-> after,
                        frame |-> frames[stream], picture |-> frames[stream]]]
  /\ UNCHANGED <<frames, jpeg, locks, hardware, token, restarts>>

\* _serve_rgb_jpeg: it waits a second for a newer frame; every turn of the loop of
\* _serve_rgb_mjpeg is such a request again.
AsksPicture(h, width, after) ==
  /\ Starts(h, [Free EXCEPT !.at = "wait", !.what = width, !.after = after])
  /\ UNCHANGED <<frames, jpeg, locks, hardware, token, restarts>>

FrameArrived(h) ==
  /\ handler[h].at = "wait" /\ frames["rgb"] > handler[h].after
  /\ Goes(h, "grab")
  /\ UNCHANGED <<frames, jpeg, locks, hardware, token, restarts>>

WaitTimesOut(h) ==
  /\ handler[h].at = "wait" /\ frames["rgb"] <= handler[h].after
  /\ Frees(h)
  /\ UNCHANGED <<frames, jpeg, locks, hardware, token, restarts>>

\* camera_frame: rgb_jpeg_frame copies the newest frame before it takes its own lock.
Grabs(h) ==
  /\ handler[h].at = "grab"
  /\ handler' = [handler EXCEPT ![h].at = "encode", ![h].frame = frames["rgb"]]
  /\ UNCHANGED <<frames, jpeg, locks, hardware, token, restarts>>

\* Is the cache one of this frame?
NewerServes(sequence) == jpeg.sequence >= sequence
SameFrame(sequence) == jpeg.sequence = sequence

\* rgb_jpeg_frame under rgb_jpeg_lock: the cache of another frame is thrown away.
Encodes(h) ==
  /\ handler[h].at = "encode"
  /\ LET frame == handler[h].frame
         cache == IF SameFrame(frame) THEN jpeg ELSE [NoCache EXCEPT !.sequence = frame]
         width == handler[h].what
         shows == IF cache.pictures[width] > 0 THEN cache.pictures[width] ELSE frame
     IN /\ jpeg' = [cache EXCEPT !.pictures[width] = shows]
        /\ Responds(h, frame, shows)
  /\ UNCHANGED <<frames, locks, hardware, token, restarts>>

\* The answer reached the page.
Sent(h) ==
  /\ handler[h].at = "answered" /\ Frees(h)
  /\ UNCHANGED <<frames, jpeg, locks, hardware, token, restarts>>

-----------------------------------------------------------------------------
(* The gimbal and the hardware status. *)

AsksCommand(h, command) ==
  /\ Starts(h, [Free EXCEPT !.at = "lock", !.what = command])
  /\ UNCHANGED <<frames, jpeg, locks, hardware, token, restarts>>

LocksCommand(h) ==
  /\ handler[h].at = "lock" /\ locks.command = Nobody
  /\ locks' = [locks EXCEPT !.command = h]
  /\ Goes(h, IF handler[h].what = "set" THEN "status" ELSE "request")
  /\ UNCHANGED <<frames, jpeg, hardware, token, restarts>>

\* A target is sent when the gimbal is ready and the target inside the inset limits.
ChecksTarget(h, inside) ==
  /\ handler[h].at = "status"
  /\ IF inside THEN Goes(h, "request") /\ UNCHANGED locks
     ELSE Frees(h) /\ locks' = [locks EXCEPT !.command = Nobody]
  /\ UNCHANGED <<frames, jpeg, hardware, token, restarts>>

\* The daemon answers, or does not within 17 s.
CommandEnds(h) ==
  /\ handler[h].at = "request"
  /\ Frees(h) /\ locks' = [locks EXCEPT !.command = Nobody]
  /\ UNCHANGED <<frames, jpeg, hardware, token, restarts>>

\* collect, when its cache is older than a second or it is forced.
Collects(h) ==
  /\ locks.hardware = Nobody
  /\ Starts(h, [Free EXCEPT !.at = "collect"])
  /\ locks' = [locks EXCEPT !.hardware = h]
  /\ UNCHANGED <<frames, jpeg, hardware, token, restarts>>

\* While a command is under way the gimbal is not asked, and its last status is kept.
KeepsStatus(h) ==
  /\ handler[h].at = "collect" /\ locks.command # Nobody
  /\ hardware' = [hardware EXCEPT !.pending = TRUE]
  /\ Frees(h) /\ locks' = [locks EXCEPT !.hardware = Nobody]
  /\ UNCHANGED <<frames, jpeg, token, restarts>>

AsksStatus(h) ==
  /\ handler[h].at = "collect" /\ locks.command = Nobody
  /\ Goes(h, "gimbal")
  /\ UNCHANGED <<frames, jpeg, locks, hardware, token, restarts>>

\* _gimbal_status, _screen_status and _imu_status: answers, or none within 0.6 s; the
\* gimbal is ready when all of _gimbal_status's conditions hold.
StatusRead(h, ready) ==
  /\ handler[h].at = "gimbal"
  /\ hardware' = [ready |-> ready, pending |-> FALSE]
  /\ Frees(h) /\ locks' = [locks EXCEPT !.hardware = Nobody]
  /\ UNCHANGED <<frames, jpeg, token, restarts>>

-----------------------------------------------------------------------------
(* The terminal and the services. *)

\* _authorize and _handle_client: the token is compared and spent under _token_lock.
Unused == ~token

OpensShell(h) ==
  /\ Unused /\ token' = TRUE
  /\ Starts(h, [Free EXCEPT !.at = "shell"])
  /\ UNCHANGED <<frames, jpeg, locks, hardware, restarts>>

\* _run_shell ends with its connection or its shell.
ShellEnds(h) ==
  /\ handler[h].at = "shell" /\ Frees(h)
  /\ UNCHANGED <<frames, jpeg, locks, hardware, token, restarts>>

\* handle_request of robot-service-control.py for lidar-web-viewer.service, which the
\* page may restart; the numbers of the new process begin again.
ViewerRestarts ==
  /\ restarts < MaxRestarts /\ restarts' = restarts + 1
  /\ frames' = [s \in Streams |-> 0] /\ jpeg' = NoCache
  /\ handler' = [h \in Handlers |-> Free]
  /\ locks' = [command |-> Nobody, hardware |-> Nobody]
  /\ hardware' = [ready |-> FALSE, pending |-> FALSE]
  /\ token' = FALSE

ViewerStep ==
  \/ \E stream \in Streams : Stores(stream)
  \/ ViewerRestarts
  \/ \E h \in Handlers :
       \/ \E after \in Sequence : \/ \E stream \in Streams : Polls(h, stream, after)
                                  \/ \E width \in Widths : AsksPicture(h, width, after)
       \/ FrameArrived(h) \/ WaitTimesOut(h) \/ Grabs(h) \/ Encodes(h) \/ Sent(h)
       \/ \E command \in Commands : AsksCommand(h, command)
       \/ LocksCommand(h) \/ CommandEnds(h) \/ \E inside \in BOOLEAN : ChecksTarget(h, inside)
       \/ Collects(h) \/ KeepsStatus(h) \/ AsksStatus(h)
       \/ \E ready \in BOOLEAN : StatusRead(h, ready)
       \/ OpensShell(h) \/ ShellEnds(h)

ViewerSpec == ViewerInit /\ [][ViewerStep]_viewerVars

-----------------------------------------------------------------------------
(* Properties. *)

\* A page never goes back in time: a frame it is sent is newer than the one it has,
\* and the picture that carries a number shows the frame of that number, whichever
\* threads share the cache (server.py:1188-1249, 1965-1993).
PictureIsNewer ==
  \A h \in Handlers : handler[h].at = "answered" =>
    /\ handler[h].frame > handler[h].after
    /\ handler[h].picture = handler[h].frame

Commanding(h) == handler[h].at \in {"status", "request"}
Collecting(h) == handler[h].at \in {"collect", "gimbal"}
InShell(h) == handler[h].at = "shell"

\* The HTTP threads take turns: between the check of a target and the command itself no
\* other thread commands the gimbal, one thread at a time asks the hardware, and the
\* one-time token opens one shell in a life of the viewer (server.py:408-424, 466-492, 1708-1711).
ThreadsTakeTurns ==
  \A g, h \in Handlers : g # h =>
    ~(Commanding(g) /\ Commanding(h)) /\ ~(Collecting(g) /\ Collecting(h)) /\ ~(InShell(g) /\ InShell(h))
=============================================================================
