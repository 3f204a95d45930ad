------------------------- MODULE NavigationPreview -------------------------
(* The route preview of the web page: web-viewer/server.py, whose HTTP threads   *)
(* and ROS thread share DATA.lock, and nav2-preview/planner_bridge.py, one       *)
(* thread that asks Nav2 for a path. A click sets the goal under the lock and    *)
(* publishes it after the lock is given back. Goals and clears are separate      *)
(* queued topics; path and status are topics of depth one, whose new sample      *)
(* replaces one not yet delivered. Nav2 itself is external.                      *)
EXTENDS Naturals, Sequences, FiniteSets

CONSTANTS
  Spots,      \* places of the map a user may click on
  Browsers,   \* HTTP threads that serve the page's clicks
  MaxClicks   \* bound: clicks on the map and on the clear button

NoSpot == "none"
Unsent == "nothing"
Clear == "clear"

ASSUME PreviewAssumption == MaxClicks \in Nat /\ {NoSpot, Unsent, Clear} \cap Spots = {}

VARIABLES
  shown,    \* LatestData: navigation_goal, navigation_path and navigation_status
  grid,     \* map_frame: the spots the SLAM map has as free, none before the first map
  browser,  \* what a thread set and has still to publish
  wire,     \* the four topics
  planner,  \* PreviewPlannerBridge: generation, active_goal, and the goal it answers
  plans,    \* requests at Nav2
  clicks    \* how many clicks there were

previewVars == <<shown, grid, browser, wire, planner, plans, clicks>>

Spot == Spots \cup {NoSpot}
Statuses == {"waiting", "requested", "idle", "planning", "failed", "ready"}

\* A request at Nav2: sent, accepted, rejected, failed to be submitted (the future of its
\* answer raises), running, or answered with a path or without.
Phases == {"sent", "accepted", "rejected", "raised", "running", "found", "none"}
PlanRequest == [generation : 0..MaxClicks, goal : Spots, phase : Phases]

PreviewTypeOK ==
  /\ shown \in [goal : Spot, path : Spot, status : Statuses]
  /\ grid \subseteq Spots
  /\ browser \in [Browsers -> Spots \cup {Unsent, Clear}]
  /\ wire \in [goals : Seq(Spots), clears : 0..MaxClicks,
               path : Spot \cup {Unsent}, status : Statuses \cup {Unsent}]
  /\ planner \in [generation : 0..MaxClicks, active : 0..MaxClicks, goal : Spot]
  /\ plans \subseteq PlanRequest
  /\ clicks \in 0..MaxClicks

PreviewInit ==
  /\ shown = [goal |-> NoSpot, path |-> NoSpot, status |-> "waiting"]
  /\ grid = {}
  /\ browser = [b \in Browsers |-> Unsent]
  /\ wire = [goals |-> <<>>, clears |-> 0, path |-> Unsent, status |-> "waiting"]
  /\ planner = [generation |-> 0, active |-> 0, goal |-> NoSpot]
  /\ plans = {}
  /\ clicks = 0

-----------------------------------------------------------------------------
(* The web viewer. *)

\* request_navigation_preview up to the end of the locked part: a spot off the map,
\* unknown or occupied is refused.
AsksPreview(b, spot) ==
  /\ browser[b] = Unsent /\ clicks < MaxClicks
  /\ spot \in grid
  /\ shown' = [goal |-> spot, path |-> NoSpot, status |-> "requested"]
  /\ browser' = [browser EXCEPT ![b] = spot]
  /\ clicks' = clicks + 1
  /\ UNCHANGED <<grid, wire, planner, plans>>

ClearsPreview(b) ==
  /\ browser[b] = Unsent /\ clicks < MaxClicks
  /\ shown' = [goal |-> NoSpot, path |-> NoSpot, status |-> "idle"]
  /\ browser' = [browser EXCEPT ![b] = Clear]
  /\ clicks' = clicks + 1
  /\ UNCHANGED <<grid, wire, planner, plans>>

\* The publication, after the lock.
PublishesClick(b) ==
  /\ browser[b] # Unsent
  /\ wire' = IF browser[b] = Clear THEN [wire EXCEPT !.clears = @ + 1]
             ELSE [wire EXCEPT !.goals = Append(@, browser[b])]
  /\ browser' = [browser EXCEPT ![b] = Unsent]
  /\ UNCHANGED <<shown, grid, planner, plans, clicks>>

OnMap ==
  /\ grid' \in SUBSET Spots
  /\ UNCHANGED <<shown, browser, wire, planner, plans, clicks>>

OnNavigationPath ==
  /\ wire.path # Unsent
  /\ shown' = [shown EXCEPT !.path = wire.path]
  /\ wire' = [wire EXCEPT !.path = Unsent]
  /\ UNCHANGED <<grid, browser, planner, plans, clicks>>

OnNavigationStatus ==
  /\ wire.status # Unsent
  /\ shown' = [shown EXCEPT !.status = wire.status]
  /\ wire' = [wire EXCEPT !.status = Unsent]
  /\ UNCHANGED <<grid, browser, planner, plans, clicks>>

-----------------------------------------------------------------------------
(* The planner bridge. *)

\* clear_path, or a path, and the status that goes with it.
Tells(topics, path, status) == [topics EXCEPT !.path = path, !.status = status]

OnClear ==
  /\ wire.clears > 0
  /\ planner' = [generation |-> planner.generation + 1, active |-> 0, goal |-> NoSpot]
  /\ wire' = Tells([wire EXCEPT !.clears = @ - 1], NoSpot, "idle")
  /\ UNCHANGED <<shown, grid, browser, plans, clicks>>

\* on_goal; the web publishes finite goals of the map frame only. It waits two
\* seconds at most for Nav2's server.
OnGoal(ready) ==
  /\ wire.goals # <<>>
  /\ LET goal == Head(wire.goals)
         generation == planner.generation + 1
     IN /\ planner' = [generation |-> generation, active |-> 0, goal |-> goal]
        /\ wire' = Tells([wire EXCEPT !.goals = Tail(@)], NoSpot,
                         IF ready THEN "planning" ELSE "failed")
        /\ plans' = IF ready
                    THEN plans \cup {[generation |-> generation, goal |-> goal, phase |-> "sent"]}
                    ELSE plans
  /\ UNCHANGED <<shown, grid, browser, clicks>>

\* Does an answer belong to the goal the bridge works on?
AnyGeneration(plan) == TRUE
IsCurrent(plan) == plan.generation = planner.generation

Advances(plan, phase) == (plans \ {plan}) \cup {[plan EXCEPT !.phase = phase]}

\* on_goal_response, an answer: a stale goal that was accepted is cancelled.
OnGoalResponse(plan) ==
  /\ plan.phase \in {"accepted", "rejected"}
  /\ IF plan.phase = "accepted" /\ IsCurrent(plan)
     THEN /\ planner' = [planner EXCEPT !.active = plan.generation]
          /\ plans' = Advances(plan, "running")
          /\ UNCHANGED wire
     ELSE /\ plans' = plans \ {plan}
          /\ wire' = IF IsCurrent(plan) THEN [wire EXCEPT !.status = "failed"] ELSE wire
          /\ planner' = IF IsCurrent(plan) THEN [planner EXCEPT !.active = 0] ELSE planner
  /\ UNCHANGED <<shown, grid, browser, clicks>>

\* on_goal_response, an exception: the failure is told whatever goal it belongs to, and
\* neither the active goal nor the route is touched.
OnGoalRaises(plan) ==
  /\ plan.phase = "raised"
  /\ plans' = plans \ {plan}
  /\ wire' = [wire EXCEPT !.status = "failed"]
  /\ UNCHANGED <<shown, grid, browser, planner, clicks>>

\* on_result: a stale result is dropped, one without a path clears the preview.
OnResult(plan) ==
  /\ plan.phase \in {"found", "none"}
  /\ plans' = plans \ {plan}
  /\ IF IsCurrent(plan)
     THEN /\ planner' = [planner EXCEPT !.active = 0]
          /\ wire' = IF plan.phase = "found" THEN Tells(wire, plan.goal, "ready")
                     ELSE Tells(wire, NoSpot, "failed")
     ELSE UNCHANGED <<planner, wire>>
  /\ UNCHANGED <<shown, grid, browser, clicks>>

\* Nav2 takes or rejects a goal, or cannot be asked, and ends it with a path or without; a cancelled
\* one may end either way.
NavPlans(plan) ==
  /\ \E phase \in CASE plan.phase = "sent" -> {"accepted", "rejected", "raised"}
                    [] plan.phase = "running" -> {"found", "none"}
                    [] OTHER -> {} :
       plans' = Advances(plan, phase)
  /\ UNCHANGED <<shown, grid, browser, wire, planner, clicks>>

PreviewStep ==
  \/ \E b \in Browsers : (\E spot \in Spots : AsksPreview(b, spot)) \/ ClearsPreview(b) \/ PublishesClick(b)
  \/ OnMap \/ OnNavigationPath \/ OnNavigationStatus
  \/ OnClear \/ \E ready \in BOOLEAN : OnGoal(ready)
  \/ \E plan \in plans :
       OnGoalResponse(plan) \/ OnGoalRaises(plan) \/ OnResult(plan) \/ NavPlans(plan)

PreviewSpec == PreviewInit /\ [][PreviewStep]_previewVars

-----------------------------------------------------------------------------
(* Properties. *)

\* Nothing of a click is under way: not in a thread, not on a topic, not at Nav2.
AtRest ==
  /\ \A b \in Browsers : browser[b] = Unsent
  /\ wire = [goals |-> <<>>, clears |-> 0, path |-> Unsent, status |-> Unsent]
  /\ plans = {}

\* "ready" is said of a route only; a route stands beside "ready", or beside the failure of
\* an older goal that could not be submitted.
Fit(path, status) ==
  /\ status = "ready" => path # NoSpot
  /\ path # NoSpot => status \in {"ready", "failed"}

\* Once everything came to rest the page shows a route to the goal the bridge took last, or
\* none, and a status that fits it: no answer to an older goal brings back its route,
\* whatever the order of clicks, cancellations and results (planner_bridge.py:56-123).
PreviewSettles ==
  AtRest => shown.path \in {NoSpot, planner.goal} /\ Fit(shown.path, shown.status)
=============================================================================
