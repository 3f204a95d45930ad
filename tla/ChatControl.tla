----------------------------- MODULE ChatControl -----------------------------
(***************************************************************************)
(* The programs that give RobotTasks.tla its tasks: the chat               *)
(* (ros_chat_control.py), which asks the model what the user's words mean, *)
(* the agent loop (ros_agent_loop.py, agent_core.py), which asks it what   *)
(* to do next, and the keyboard (ros_teleop.py).  They run one at a time.  *)
(*                                                                         *)
(* The model's answers are free: any action with any task.                 *)
(***************************************************************************)
EXTENDS RobotTasks

VARIABLE
  chat  \* the program and where it is, what the user wants, and the task it runs

chatVars == <<taskVars, chat>>

Lengthwise == {"ahead", "back"}
Sideways == {"left", "right"}
Directions == Lengthwise \cup Sideways
\* parse_user_intent: what it is sure of; "open" is left to the model.
Intents == {"open", "stop", "look"} \cup Directions
TaskOf == [type : Tasks, dir : Directions]
Programs == {"chat", "agent", "teleop"}

ChatTypeOK ==
  /\ TasksTypeOK
  /\ chat \in [program : Programs, at : {"input", "look", "ask", "run", "stopping", "ended"},
               intent : Intents, task : TaskOf]

Nothing == [type |-> "none", dir |-> "ahead"]

ChatInit ==
  /\ TasksInit
  /\ chat \in [program : Programs, at : {"input"}, intent : {"open"}, task : {Nothing}]

In(program, place) == chat.program = program /\ chat.at = place
ChatGoto(place) == chat' = [chat EXCEPT !.at = place]
Still == UNCHANGED taskVars

-----------------------------------------------------------------------------
(* What the model answers: chat_policy.py *)

Answers == [action : Tasks \cup {"finish"}, dir : Directions, task : TaskOf \cup {Nothing}]

\* task_from_action, parse_task: the task the answer gives, or the one of its action.
TaskGiven(answer) ==
  IF answer.task # Nothing THEN answer.task ELSE [type |-> answer.action, dir |-> answer.dir]

\* is_task_compatible_with_intent: a move only has to agree with the intent on its axis.
Compatible(task, intent) ==
  \/ /\ task.type = "move_distance"
     /\ intent \in Directions /\ (intent \in Lengthwise => task.dir = intent)
  \/ /\ task.type = "turn_angle"
     /\ intent \in Directions /\ (intent \in Sideways => task.dir = intent)

ActionOf(intent) == IF intent \in Directions THEN "move_base" ELSE intent

\* constrain_decision_to_intent
Constrained(answer, intent) ==
  IF Compatible(TaskGiven(answer), intent) \/ answer.action \in {"stop", "look", "none", ActionOf(intent)}
    THEN TaskGiven(answer)
    ELSE [type |-> ActionOf(intent), dir |-> IF intent \in Directions THEN intent ELSE "ahead"]

\* decide_from_user: an answer that cannot be had or read is a stop.
Decided(answer, intent) ==
  IF answer.action = "finish" THEN Nothing
  ELSE IF intent = "open" THEN TaskGiven(answer)
  ELSE Constrained(answer, intent)

-----------------------------------------------------------------------------
(* ros_chat_control.py *)

\* "q", an empty input stream or any exception: stop, and the end.
Hear ==
  /\ In("chat", "input")
  /\ ChatGoto("stopping")
     \/ \E i \in Intents : chat' = [chat EXCEPT !.at = "look", !.intent = i]
  /\ Still

\* tools.look raises when there is no image.
ChatLooks == In("chat", "look") /\ (ChatGoto("ask") \/ ChatGoto("stopping")) /\ Still

ChatAsks ==
  /\ In("chat", "ask")
  /\ \E t \in {Decided(a, chat.intent) : a \in Answers} \cup {[type |-> "stop", dir |-> "ahead"]} :
       chat' = [chat EXCEPT !.at = "run", !.task = t] /\ Take(t.type)

TaskEnds == chat.at = "run" /\ ~Busy /\ ChatGoto("input") /\ Still

-----------------------------------------------------------------------------
(* ros_agent_loop.py and ros_teleop.py *)

\* AgentRunner.run_step, _execute: a look, a short move, a stop, or nothing.
AgentActs ==
  /\ In("agent", "input")
  /\ \/ (ChatGoto("stopping") \/ ChatGoto("look")) /\ Still
     \/ ChatGoto("run") /\ Take("stop")
     \/ ChatGoto("run") /\ ~Busy /\ Plan(<<"drive">>) /\ UNCHANGED <<said, nav>>

\* No image: the exception is not one main catches.
AgentLooks ==
  /\ In("agent", "look")
  /\ \/ ChatGoto("input") /\ Still
     \/ ChatGoto("ended") /\ Broken(<<>>, "raised")

TeleopActs ==
  /\ In("teleop", "input")
  /\ \/ ChatGoto("stopping") /\ Still
     \/ ChatGoto("run") /\ Take("stop")
     \/ ChatGoto("run") /\ ~Busy /\ Plan(<<"drive">>) /\ UNCHANGED <<said, nav>>

-----------------------------------------------------------------------------
(* The end of a program *)

\* A call raises: the task of a chat goes on with a stop, the keyboard's program ends over
\* one.  The agent's main catches two kinds of exceptions only, and ends at once over others.
CallRaises ==
  /\ chat.at = "run" /\ Busy
  /\ \/ chat.program = "chat" /\ TaskRaises /\ UNCHANGED chat
     \/ chat.program # "chat" /\ ChatGoto("stopping") /\ Broken(<<>>, "failed")
     \/ chat.program = "agent" /\ ChatGoto("ended") /\ Broken(<<>>, "raised")

\* A key interrupt: main's handlers stop the robot, but rclpy's own handler of the signal,
\* which init installs, shuts the context down meanwhile.
Signalled == chat.at # "ended" /\ ChatGoto("stopping") /\ Broken(<<>>, "signalled")

\* Killed, or terminated, with the context shut down and no exception.
Killed == chat.at # "ended" /\ ChatGoto("ended") /\ Broken(<<>>, "killed")

\* tools.stop in main's handlers; it raises once the context is down.
StopsFirst ==
  /\ chat.at = "stopping"
  /\ Publish("rest") \/ (ex.end = "signalled" /\ Silent)

ProgramEnds == StopsFirst /\ ChatGoto("ended") /\ UNCHANGED <<ex, nav>>

\* Someone starts one of them again.
Begins ==
  /\ chat.at = "ended"
  /\ \E p \in Programs :
       chat' = [program |-> p, at |-> "input", intent |-> "open", task |-> Nothing]
  /\ ex' = [ex EXCEPT !.end = "well"] /\ said' = FALSE
  /\ UNCHANGED nav

ChatStep ==
  \/ Hear \/ ChatLooks \/ ChatAsks \/ AgentActs \/ AgentLooks \/ TeleopActs
  \/ TaskEnds \/ CallRaises \/ Signalled \/ Killed \/ ProgramEnds \/ Begins
  \/ Executor /\ UNCHANGED chat
  \/ (NavAnswers \/ NavEnds) /\ UNCHANGED chat

ChatSpec == ChatInit /\ [][ChatStep]_chatVars

-----------------------------------------------------------------------------
(* Properties *)

\* Whatever calls a task came to and whichever of them failed, timed out or raised, the
\* robot was told to rest when its program does something else or has ended, except when a
\* settling turn found no pose, and when an exception nobody catches, a key or a kill ended
\* the program.
RestsBetweenTasks ==
  chat.at \notin {"run", "stopping"} /\ said =>
    \/ ex.end \in {"raised", "signalled", "killed"}
    \/ ex.end = "blind" /\ chat.at # "ended"

\* A task that failed has stopped the robot: nothing it began drives on.
FailedTasksStop ==
  chat.at = "input" /\ ex.end \in {"failed", "blind"} => ~said /\ nav.drives # "lost"
=============================================================================
