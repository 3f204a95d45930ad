------------------------------ MODULE RobotTasks ------------------------------
(***************************************************************************)
(* The task executor of the assistant (task_executor.py, robot_tools.py)   *)
(* over its ROS facade (ros_robot_interface.py), with Nav2 beside it.      *)
(*                                                                         *)
(* A task is a plan of blocking calls, done one after the other.  A call   *)
(* publishes velocities in a loop until the pose it looks up, or its       *)
(* deadline, ends it.  Deadlines and poses are free choices.  Nav2 is      *)
(* external: it drives to the last goal it accepted, until that ends or is *)
(* cancelled.                                                              *)
(***************************************************************************)
EXTENDS Naturals, Sequences

VARIABLES
  ex,    \* the executor: the calls it still has to make, where it is in the first, and
         \* how the last task ended
  said,  \* whether the last velocity of the task moves the robot
  nav    \* Nav2: the goal on its way to it, and the goal it drives to

taskVars == <<ex, said, nav>>

Calls == {"halt", "camera", "drive", "swing", "rotate", "rotateOrStep", "settle", "nav"}

\* A fallback of several steps is bounded to two (up to 80 and 24 in the code).
Steps(call) == {<<call, "halt">>, <<call, call, "halt">>}

Tasks == {"none", "stop", "look", "move_base", "move_distance", "turn_angle", "navigate_to_pose"}

\* TaskExecutor.execute: the calls a task comes to, once _navigation_ready and the
\* semantic map were asked, neither of which publishes anything.  The two inspect tasks
\* are looks, and so is going to an object or a pose without Nav2.
Plans(task) ==
  CASE task = "none" -> {<<>>}
    [] task = "stop" -> {<<"halt">>}
    [] task = "look" -> {<<"camera">>}
    [] task = "move_base" -> {<<"rotate">>, <<"nav">>, <<"drive">>}
    [] task = "move_distance" -> {<<"nav">>} \cup Steps("drive")
    [] task = "turn_angle" -> {<<"rotateOrStep">>}
    [] OTHER -> {<<>>, <<"camera">>, <<"nav", "settle">>, <<"nav", "settle", "rotate">>}

Places == {"begin", "run", "inner", "sent", "result", "cancel"}
Busy == ex.todo # <<>>
At(call, place) == Busy /\ Head(ex.todo) = call /\ ex.at = place

\* How a task ends: with a result; with a failure it returns or raises, the robot at rest;
\* with one it returns without a stop; or with its program.
Ends == {"well", "failed", "blind", "raised", "signalled", "killed"}

\* A goal is the running task's, or one its task has given up on.
Goals == {"none", "mine", "lost"}

TasksTypeOK ==
  /\ ex \in [todo : Seq(Calls), at : Places, end : Ends]
  /\ Len(ex.todo) <= 3
  /\ said \in BOOLEAN
  /\ nav \in [asked : Goals, drives : Goals]

TasksInit ==
  /\ ex = [todo |-> <<>>, at |-> "begin", end |-> "well"]
  /\ said = FALSE
  /\ nav = [asked |-> "none", drives |-> "none"]

-----------------------------------------------------------------------------
(* The executor *)

\* Velocities: "rest", "ahead" or "spin".
Publish(v) == said' = (v # "rest")
Silent == UNCHANGED said

Goto(place) == ex' = [ex EXCEPT !.at = place]
Replan(calls, end) == ex' = [todo |-> calls, at |-> "begin", end |-> end]
Plan(calls) == Replan(calls, ex.end)

\* The first call returned well: the next one.
Done == Plan(Tail(ex.todo))

\* It returned a failure: the task ends, but a turn goes on in steps without Nav2.
Failed ==
  \/ Replan(<<>>, "failed")
  \/ Head(ex.todo) = "rotateOrStep" /\ \E p \in Steps("swing") : Plan(p)

\* TaskExecutor.execute begins.
Take(task) ==
  /\ ~Busy
  /\ \E p \in Plans(task) : ex' = [todo |-> p, at |-> "begin", end |-> "well"]
  /\ said' = FALSE
  /\ UNCHANGED nav

\* stop: three times a velocity of zero.
Halt == At("halt", "begin") /\ Publish("rest") /\ Done /\ UNCHANGED nav

Capture == At("camera", "begin") /\ Done /\ Silent /\ UNCHANGED nav

Course(call) == IF call = "swing" THEN "spin" ELSE "ahead"

\* RobotRosInterface.move_base: publish until the duration is over, then stop.
Drive ==
  /\ Busy /\ Head(ex.todo) \in {"drive", "swing"} /\ ex.at = "begin"
  /\ \/ Publish(Course(Head(ex.todo))) /\ UNCHANGED ex
     \/ Publish("rest") /\ Done
  /\ UNCHANGED nav

Rotates == Busy /\ Head(ex.todo) \in {"rotate", "rotateOrStep"}

\* rotate_in_place: without a pose to start from it fails at once.
BeginRotate ==
  /\ Rotates /\ ex.at = "begin"
  /\ Goto("run") \/ Failed
  /\ Silent /\ UNCHANGED nav

\* Faulty: a turn that loses its pose returns its failure at once.
RotateBlind ==
  /\ Rotates /\ ex.at = "run"
  /\ \/ Publish("spin") /\ UNCHANGED ex
     \/ Publish("rest") /\ Done
     \/ Silent /\ Failed
  /\ UNCHANGED nav

\* Turn until the heading is reached; stop then, on a lost pose and on timeout.
Rotate ==
  /\ Rotates /\ ex.at = "run"
  /\ \/ Publish("spin") /\ UNCHANGED ex
     \/ Publish("rest") /\ (Done \/ Failed)
  /\ UNCHANGED nav

\* settle_to_position: drive towards the place, or turn towards it first.
Settle ==
  /\ At("settle", "begin")
  /\ \/ Publish("ahead") /\ UNCHANGED ex
     \/ Publish("rest") /\ (Done \/ Failed)
     \/ Silent /\ Goto("inner")
  /\ UNCHANGED nav

\* Its rotate_in_place finds no pose to start from; the failure is returned as it is.
SettleBlind ==
  /\ At("settle", "begin")
  /\ Replan(<<>>, "blind")
  /\ Silent /\ UNCHANGED nav

\* The rotate_in_place of settle_to_position; its failure is returned as it is.
SettleRotates ==
  /\ At("settle", "inner")
  /\ \/ Publish("spin") /\ UNCHANGED ex
     \/ Publish("rest") /\ (Goto("begin") \/ Failed)
  /\ UNCHANGED nav

-----------------------------------------------------------------------------
(* navigate_to_pose, navigate_relative *)

\* No pose, or no action server: a failure.  Otherwise the goal is sent.
SendGoal ==
  /\ At("nav", "begin")
  /\ \/ Failed /\ UNCHANGED nav
     \/ Goto("sent") /\ nav' = [nav EXCEPT !.asked = "mine"]
  /\ Silent

Lost(goal) == IF goal = "mine" THEN "lost" ELSE goal
Abandoned == [asked |-> Lost(nav.asked), drives |-> Lost(nav.drives)]

\* After five seconds without an answer the goal counts as rejected.  Nav2 has it.
GoalUnanswered == At("nav", "sent") /\ Failed /\ nav' = Abandoned /\ Silent

GoalAnswered ==
  /\ At("nav", "sent") /\ nav.asked # "mine"
  /\ IF nav.drives = "mine" THEN Goto("result") ELSE Failed
  /\ Silent /\ UNCHANGED nav

\* The result, in time or while waiting for the cancellation.
GoalEnded ==
  /\ (At("nav", "result") \/ At("nav", "cancel")) /\ nav.drives # "mine"
  /\ Failed \/ (ex.at = "result" /\ Done)
  /\ Silent /\ UNCHANGED nav

GoalTimeout ==
  /\ At("nav", "result") /\ nav.drives = "mine"
  /\ Goto("cancel")
  /\ Silent /\ UNCHANGED nav

\* The cancellation is not answered within two seconds either.
CancelUnanswered ==
  /\ At("nav", "cancel") /\ nav.drives = "mine"
  /\ Failed /\ nav' = Abandoned /\ Silent

\* The call ends in the middle.  Nobody stops what it started, and nobody cancels the goal.
Broken(calls, end) == Replan(calls, end) /\ nav' = Abandoned /\ Silent

\* A call raises, as capture_image does when no image came: execute stops the robot, and
\* the task has failed.
TaskRaises == Busy /\ Head(ex.todo) # "halt" /\ Broken(<<"halt">>, "failed")

Executor ==
  \/ Halt \/ Capture \/ Drive \/ BeginRotate \/ Rotate
  \/ Settle \/ SettleBlind \/ SettleRotates
  \/ SendGoal \/ GoalUnanswered \/ GoalAnswered \/ GoalEnded \/ GoalTimeout \/ CancelUnanswered

-----------------------------------------------------------------------------
(* Nav2 *)

\* A new goal takes the place of the one it drives to.
NavAnswers ==
  /\ nav.asked # "none"
  /\ nav' \in {[nav EXCEPT !.asked = "none"], [asked |-> "none", drives |-> nav.asked]}
  /\ UNCHANGED <<ex, said>>

\* Success, failure or cancellation; the controller leaves a zero velocity behind.
NavEnds ==
  /\ nav.drives # "none"
  /\ nav' = [nav EXCEPT !.drives = "none"]
  /\ UNCHANGED <<ex, said>>

TasksStep == Executor \/ NavAnswers \/ NavEnds
=============================================================================
