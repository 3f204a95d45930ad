----------------------------- MODULE SiteChange -----------------------------
(* Moving the robot to a new site: the page's request file                       *)
(* (queue_new_map_request of web-viewer/server.py), web-new-map-bridge.py that   *)
(* takes it and runs slam/prepare-new-site.sh, and what the script clears: the   *)
(* landmarks of SemanticMap and the depth voxels, before it restarts SLAM. The   *)
(* landmarks and voxels carry the SLAM map they were seen in, by a number. That  *)
(* the script also clears the route preview is ClearsPreview of NavigationPreview. *)
EXTENDS SemanticMap

CONSTANTS
  MaxRequests, \* bound: new-map requests
  StaleAfter   \* the age at which process_request refuses a request, in ticks

ASSUME SiteAssumption == MaxRequests \in Nat /\ StaleAfter \in Nat

VARIABLES
  slam,    \* the number of the SLAM map, which a restart begins anew
  page,    \* queue_new_map_request between its checks and its write: the last sequence, its time
  inbox,   \* the request file and the file it is moved to
  site,    \* the bridge: how far its script is
  status,  \* the status file, and whether it is online
  runs,    \* history: when each request was confirmed, how often and when its script started
  voxels,  \* the maps whose depth points DepthVoxelMap holds
  depth    \* the map integrate_depth_voxel_frame looked its transform up in

siteVars == <<slam, page, inbox, site, status, runs, voxels, depth>>

NoMap == -1
NoRequest0 == [sequence |-> 0, at |-> 0]
NotRun(time) == [asked |-> time, count |-> 0, started |-> 0]
Maps == 0..MaxRequests
Script == <<"save", "semantic", "voxels", "slam", "wait">>

SiteInit ==
  /\ slam = 0 /\ page = [at |-> "idle", sequence |-> 0, since |-> 0]
  /\ inbox = [queued |-> NoRequest0, processing |-> NoRequest0]
  /\ site = "idle"
  /\ status = [state |-> "none", sequence |-> 0, online |-> FALSE]
  /\ runs = [r \in 1..MaxRequests |-> NotRun(0)]
  /\ voxels = {} /\ depth = NoMap

SiteTypeOK ==
  /\ slam \in Maps /\ page.sequence \in 0..MaxRequests
  /\ inbox.queued.sequence \in 0..MaxRequests /\ inbox.processing.sequence \in 0..MaxRequests
  /\ site \in {"idle", "taken", "save", "semantic", "voxels", "slam", "wait"}
  /\ status.state \in {"none", "running", "completed", "failed"}
  /\ voxels \subseteq Maps /\ depth \in Maps \cup {NoMap}

SemanticUnchanged == UNCHANGED semanticVars

-----------------------------------------------------------------------------
(* The page. *)

\* The checks of queue_new_map_request, under NEW_MAP_REQUEST_LOCK, and its timestamp.
Admits ==
  /\ page.at = "idle" /\ page.sequence < MaxRequests
  /\ ~(status.online /\ status.state = "running")
  /\ inbox.queued = NoRequest0
  /\ page' = [at |-> "writing", sequence |-> page.sequence + 1, since |-> now]
  /\ runs' = [runs EXCEPT ![page.sequence + 1] = NotRun(now)]
  /\ UNCHANGED <<slam, inbox, site, status, voxels, depth>> /\ SemanticUnchanged

Queues ==
  /\ page.at = "writing"
  /\ inbox' = [inbox EXCEPT !.queued = [sequence |-> page.sequence, at |-> page.since]]
  /\ page' = [page EXCEPT !.at = "idle"]
  /\ UNCHANGED <<slam, site, status, runs, voxels, depth>> /\ SemanticUnchanged

\* The file cannot be written, or the viewer dies before os.replace.
NotQueued ==
  /\ page.at = "writing" /\ page' = [page EXCEPT !.at = "idle"]
  /\ UNCHANGED <<slam, inbox, site, status, runs, voxels, depth>> /\ SemanticUnchanged

\* read_acoustic_state takes a status of 240 s for offline; the script of a running
\* bridge is killed after 180 s.
StatusAges ==
  /\ status.online /\ site = "idle"
  /\ status' = [status EXCEPT !.online = FALSE]
  /\ UNCHANGED <<slam, page, inbox, site, runs, voxels, depth>> /\ SemanticUnchanged

-----------------------------------------------------------------------------
(* The bridge. *)

\* os.replace moves the request, so that it is there no more.
LeftInPlace == [inbox EXCEPT !.processing = inbox.queued]
Moved == [queued |-> NoRequest0, processing |-> inbox.queued]

TakesRequest ==
  /\ site = "idle" /\ inbox.queued # NoRequest0
  /\ inbox' = Moved /\ site' = "taken"
  /\ UNCHANGED <<slam, page, status, runs, voxels, depth>> /\ SemanticUnchanged

Ended(state, sequence) ==
  /\ status' = [state |-> state, sequence |-> sequence, online |-> TRUE]
  /\ inbox' = [inbox EXCEPT !.processing = NoRequest0]
  /\ site' = "idle"

\* process_request refuses an old request; a failure is told without a sequence.
Refuses ==
  /\ site = "taken" /\ now - inbox.processing.at > StaleAfter
  /\ Ended("failed", 0)
  /\ UNCHANGED <<slam, page, runs, voxels, depth>> /\ SemanticUnchanged

Begun(run) == [asked |-> run.asked, count |-> run.count + 1, started |-> now]

StartsScript ==
  /\ site = "taken" /\ now - inbox.processing.at <= StaleAfter
  /\ status' = [state |-> "running", sequence |-> inbox.processing.sequence, online |-> TRUE]
  /\ runs' = [runs EXCEPT ![inbox.processing.sequence] = Begun(@)]
  /\ site' = "save"
  /\ UNCHANGED <<slam, page, inbox, voxels, depth>> /\ SemanticUnchanged

\* One step of prepare-new-site.sh. "semantic" and "voxels" are the parts of the
\* viewer's POST handler: SemanticMapStore.clear, then DepthVoxelMap.clear.
Saves == site = "save" /\ site' = "semantic" /\ SemanticUnchanged
         /\ UNCHANGED <<slam, page, inbox, status, runs, voxels, depth>>

ClearsLandmarks == site = "semantic" /\ ClearMap /\ site' = "voxels"
                   /\ UNCHANGED <<slam, page, inbox, status, runs, voxels, depth>>

ClearsVoxels == site = "voxels" /\ http = "idle" /\ voxels' = {} /\ site' = "slam" /\ SemanticUnchanged
                /\ UNCHANGED <<slam, page, inbox, status, runs, depth>>

RestartsSlam == site = "slam" /\ slam' = slam + 1 /\ site' = "wait" /\ SemanticUnchanged
                /\ UNCHANGED <<page, inbox, status, runs, voxels, depth>>

Completes ==
  /\ site = "wait" /\ Ended("completed", inbox.processing.sequence)
  /\ UNCHANGED <<slam, page, runs, voxels, depth>> /\ SemanticUnchanged

\* A step of the script fails, or the script is killed after 180 s.
ScriptFails ==
  /\ \E i \in DOMAIN Script : site = Script[i]
  /\ Ended("failed", 0)
  /\ UNCHANGED <<slam, page, runs, voxels, depth>> /\ SemanticUnchanged

\* The bridge dies and is started again: the moved file stays where it is.
BridgeDies ==
  /\ site # "idle" /\ site' = "idle"
  /\ UNCHANGED <<slam, page, inbox, status, runs, voxels, depth>> /\ SemanticUnchanged

-----------------------------------------------------------------------------
(* Depth voxels: looked up, then integrated without the viewer's lock. *)

LooksUpDepth ==
  /\ ros.at = "idle" /\ depth = NoMap /\ depth' = slam
  /\ UNCHANGED <<slam, page, inbox, site, status, runs, voxels>> /\ SemanticUnchanged

IntegratesDepth ==
  /\ depth # NoMap /\ voxels' = voxels \cup {depth} /\ depth' = NoMap
  /\ UNCHANGED <<slam, page, inbox, site, status, runs>> /\ SemanticUnchanged

\* _prune: voxels not seen again are dropped, those of an earlier map in the end.
PrunesVoxels ==
  /\ \E old \in SUBSET (voxels \ {slam}) : old # {} /\ voxels' = voxels \ old
  /\ UNCHANGED <<slam, page, inbox, site, status, runs, depth>> /\ SemanticUnchanged

\* The viewer's one ROS thread does not ingest while it integrates; a restart of the
\* viewer forgets the voxels.
Landmarks ==
  /\ depth # NoMap => UNCHANGED ros
  /\ SemanticStep(slam)
  /\ UNCHANGED siteVars

SiteStep ==
  \/ Admits \/ Queues \/ NotQueued \/ StatusAges
  \/ TakesRequest \/ Refuses \/ StartsScript \/ Saves \/ ClearsLandmarks \/ ClearsVoxels
  \/ RestartsSlam \/ Completes \/ ScriptFails \/ BridgeDies
  \/ LooksUpDepth \/ IntegratesDepth \/ PrunesVoxels

SiteSpec == SiteInit /\ SemanticInit /\ [][SiteStep \/ Landmarks]_<<siteVars, semanticVars>>

-----------------------------------------------------------------------------
(* Properties. *)

\* The script runs once at most for a confirmation, whatever fails or dies, and is not
\* begun for one that waited longer than StaleAfter since the page took it, in the page's
\* write, in the file or with the bridge down: a site is not cleared a second time or much
\* later by an old request (web-new-map-bridge.py:27-91, server.py:207-235).
NoRequestRunsTwice ==
  /\ \A r \in 1..MaxRequests :
       runs[r].count <= 1 /\ (runs[r].count = 1 => runs[r].started - runs[r].asked <= StaleAfter)
  /\ inbox.queued # NoRequest0 => runs[inbox.queued.sequence].count = 0
=============================================================================
