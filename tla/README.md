# Phytium robot: models and proofs

This directory holds TLA+ models of the control software of a wheel-legged robot
with a two-axis gimbal, model checked with TLC on small instances, and theorems about
them that TLAPS proves for every value of their constants. The code is under
`src/backups/phytiumpi-20260727/home-user/`; paths below are relative to it, and `RPC/`
stands for `openamp_rpmsg_comm/`.

## The system

The robot has a Phytium board whose cores are split: Linux runs on most of them, and
one *slave core* runs bare-metal firmware that owns the motors. They talk over an RPMsg
device that one Linux process may open at a time.

```
voice assistant   navigation   screen        gimbalctl   rprun / rpmsg_client   monitors
       |              |           |               |                |               |
       +-- ROS 2: chassis_node, gimbal node   gimbal_daemon        |               |
                      |                           |                |               |
                      +--------- unix sockets: rpmsg_broker ---------+-------------+
                                               |  /dev/rpmsg0
                        ======== RPMsg link (frames with an 8-bit sequence) ========
                                               |
                                 slave_app: commands and poll, one loop
                               /               |                 \
                    balance_controller   servo_motion       gimbal_controller
                     (CAN wheels, IMU)     (PWM legs)          (CAN drives)
```

### Inventory

| Component | Source | State it keeps | Operations | What makes it correct |
|---|---|---|---|---|
| RPMsg broker | `RPC/linux_user/rpmsg_broker.c` | device lock, 8-bit sequence number, one thread per connection, the accept loops, `g_stopping` | accept, receive, transact (lock, write, wait, unlock), send, signal, restart | nobody is given another request's reply; a request runs at most once; the lock is given back; the process ends when told to |
| RPMsg protocol | `RPC/src/rpmsg_protocol.c`, `rpmsg_transport.c` | none | encode, decode | a damaged frame is refused |
| Command dispatch | `RPC/remote_firmware/slave_app.c` | a few pending flags | one handler per command, and the poll | commands of wheels, legs and gimbal exclude each other where they must |
| Balance controller | `RPC/remote_firmware/balance_controller.c`, `lqr_controller.c`, `position_hold_controller.c` | state, fault bits, commanded and applied speed, the drives' last reports | init, enable, disable, set motion, set track, poll | arms only on new reports; a failed enable and every fault stop the wheels and forgets the speed; a silent client's speed expires |
| Servo motion | `RPC/remote_firmware/servo_motion_controller.c`, `phytium_servo_port.c` | state, current, target and start angles, which channels are on | enable, start, test one, stop, polarity, poll | legs stay in their ranges, are off while the robot balances, and a movement ends |
| Gimbal controller | `RPC/remote_firmware/gimbal_controller.c` | state, faults, limits and which of them are valid, targets, timers, calibration | enable, disable, emergency stop, target, four kinds of limit commands, origin, poll | moves only inside valid limits on recent feedback; faults stop it; a shutdown ends and is never called off |
| Motor frames and CAN port | `motor_can.c`, `phytium_can_port.c` | receive FIFO, last report of each motor | send, poll | a frame is sent or its loss reported |
| IMU port, leg kinematics | `phytium_bmi088_port.c`, `RPC/src/leg_*.c` | filters | numeric | - |
| Gimbal daemon | `RPC/linux_user/gimbal_daemon.py`, `gimbalctl.py` | one broker connection, its sequence number, the client being served | enable, disable, set, center, estop, status | nothing is decided on a late reply; an enabled gimbal that cannot return safely is stopped; everyone is served |
| Chassis node | `RPC/ros2/chassis_control_ros2/` | last `cmd_vel` and its time, telemetry, odometry | callback, timer, services | an old velocity is replaced by zero, and expires when the node dies |
| State export and camera transform | `RPC/linux_user/gimbal_tf_state_bridge.py`, `RPC/ros2/gimbal_camera_tf_ros2/` | a JSON file, the last number seen | request, write; read, publish | no transform of an old pose |
| Monitors, command-line tools | `rpmsg_monitor.py`, `chassis_state_bridge.py`, `rpmsg_client.c`, ... | - | read-only, or one request | - |
| Voice assistant | `robot_ai_app/robot_ai_app/voice_chat_demo.py`, `gimbal_voice.py`, `acoustic_direction.py`, `expression_bridge.py`; `camera_capture_bridge.py` | the turn, players, the photo's three files, samples of the sound sensor | listen, recognize, look, turn the camera, speak | does not hear itself; the photo, the direction and what it says belong to this turn |
| Tasks and motion programs | `task_executor.py`, `ros_robot_interface.py`, `robot_tools.py`, `ros_chat_control.py`, `ros_agent_loop.py`, `ros_teleop.py` | the task's blocking calls, Nav2's goal | tasks, stop, end by a key or an exception | the robot was told to rest between tasks |
| Screen controller | `wifi-screen-controller/` | page, lists and selection, two work queues, the requests for a face | events of the screen, commands of a socket, worker results | no operation lost or doubled; a row means what is shown on it; the wanted face is shown |
| Lidar viewer | `rplidar_deploy/web-viewer/` | pictures and their cache, hardware status, landmarks and their files, depth voxels, route preview | HTTP requests, ROS callbacks | pages do not go back in time; nothing written is lost; one bad sample moves nothing |
| Route preview planner, site change bridge | `nav2-preview/planner_bridge.py`, `web-new-map-bridge.py`, `slam/prepare-new-site.sh` | active goal and generation; a request file and the last sequence | goals, clears, answers; take, refuse, run | the preview settles; a confirmation clears once |
| Lidar odometry | `rplidar_deploy/odometry/` | reference scan, pose, rejections | scan | motion is counted once, and what a scan loses is bounded |
| Target localizer | `ros2_ws/src/target-localization-ros2/`, `yolo-detector.py` | last result, pending detection, ages of its inputs | poll, depth, status | places are called valid only on recent inputs; no result twice |
| Service control, sensors, start-up, terminal | `robot-service-control.py`, `acoustic-eye-i2c/`, unit files, `web-terminal.py` | - | thin | - |

How they interact. Clients of the broker connect to a sequenced-packet socket and may
write several requests without waiting; each connection has a thread, and all threads
share the device under one mutex. The firmware is one loop: it reads a frame, runs the
handler to its end, then polls the balance controller, the legs and the gimbal. Its
components share the CAN bus and, through `slave_app.c`, each other's state: enabling
balance releases the legs, the legs' poll is suspended while the robot balances, wheel
tests disable balance, changing the origin of a gimbal motor forgets the gimbal's limits.

On Linux, programs meet in sockets (the gimbal daemon, the screen's expression service, the
broker), in files that one writes and another polls (the gimbal's state, photo requests,
the sound sensor's angle, requests for a new site, the map), in ROS topics and Nav2's actions,
and in HTTP requests to the viewer. Nearly every one of them has a timeout of its own, after
which the caller goes on while the callee may still be at work.

What is hard here: replies that come after their transaction timed out, an 8-bit number
that must tell them apart, and a broker that is killed and starts at zero; frames on the
CAN bus that are lost one by one while the code goes on; sensors that go silent in any
state; commands in any order, in every state of three controllers; deadlines that run out
in the same poll in which something else happens; on Linux, calls that are given up and
carried out all the same, files and topics whose content is older than its reader thinks,
threads that use under one lock what they read under another, and programs that die between
two writes. `PROJECT.json` lists these hazards at their lines.

## Modules

| Module | What it is |
|---|---|
| `RequestReply` | abstract: what the broker promises its clients |
| `RpmsgBroker` | the broker's threads, the link, signals, kills and restarts; implements `RequestReply` |
| `GimbalController` | every command of the gimbal and its whole poll |
| `BalanceController` | the balance controller and its wheel drives; no `Next` of its own |
| `ServoMotion` | the legs' motion controller and PWM port; no `Next` of its own |
| `SlaveApp` | composes the last two with the wheel, leg and test commands of `slave_app.c` |
| `GimbalDaemon`, `GimbalVoice` | the single-threaded daemon between its clients, the broker and the gimbal; the voice assistant's gimbal programs on top of it |
| `ChassisNode` | the ROS node of the wheels over its broker connection |
| `StateExports` | the gimbal's pose through a file to the camera transform |
| `VoiceTurn`, `SpeakerDirection` | a turn of the voice assistant; where its words came from |
| `RobotTasks`, `ChatControl` | tasks over ROS and Nav2; the programs that give them |
| `NavigationPreview`, `SemanticMap`, `SiteChange`, `WebViewer` | the parts of the web viewer, with the planner bridge and the site bridge; `SiteChange` extends `SemanticMap` |
| `ExpressionService`, `ScreenController` | the face and the serial line; the pages and workers of the touch screen, on top of it |
| `LidarOdometry`, `TargetLocalization` | the pose from scans; detections placed in the map |
| `MCRpmsgBroker`, `MCGimbalController`, `MCSlaveApp`, `MCGimbalVoice`, `MCPrograms` | instances for TLC |
| `RpmsgBroker_proof`, `GimbalController_proof`, `ServoMotion_proof`, `SlaveApp_proof`, `GimbalVoice_proof` | theorems and proofs about the module of that name; the last also about `GimbalDaemon` |
| `Perception_proof` | those about `StateExports`, `LidarOdometry`, `SpeakerDirection`, `TargetLocalization` |
| `Navigation_proof` | those about `ChassisNode`, `NavigationPreview`, `SiteChange` with `SemanticMap`, `WebViewer` |
| `Interaction_proof` | those about `VoiceTurn`, `ChatControl` with `RobotTasks`, `ScreenController` with `ExpressionService` |

### The broker

`pc[k]` is where the thread of connection `k` is in `serve_client`: receiving, waiting for
the device lock, waiting for its reply, sending. Taking the lock, drawing the number and
writing the frame are one step (`BeginTransaction`), since nothing else touches the device
or `g_sequence` between lock and unlock; reading each frame is a step of its own
(`ReadFrame`), and so is every way out of the wait (`TransactionFails` is the deadline, a
poll or read error and `g_stopping` together: they do the same). A frame carries, besides the
number the program compares, which request it belongs to and which transaction and broker
process wrote it; these are history, and no guard reads them but `LinkKeepsUp`. The firmware
answers in order, not at all, or with a damaged frame. `Kill` is possible at every point;
`Restart` starts with every static variable at zero, while requests that were written are
still on their way.

*Assumption about the link*: a frame is read before `LinkWindow` more transactions have
begun, and `LinkWindow < SequenceMod`. Without it an 8-bit number cannot identify anything.
In the code `SequenceMod` is 256 and a transaction takes up to 5 s, so the assumption is
that no frame waits in the link while 255 others are written.

### The gimbal

State, faults, limits, targets, settle counters and the calibration are the variables of
`g_telemetry` and the file's statics. The code compares the time since an event with a
constant and nothing else, so a poll has as input the set of *delays* that have run out
(`late`): any subset at any poll. What the two drives last reported, and whether it is recent
enough, is an input too (`fb`): any positions, any of the axes fresh. Each frame may be lost
(`phytium_can_send` fails); the operators `Sent`, `Idled`, `ThenSent` are the sets of outcomes
of sending, and follow the code in what is sent after a failure and what is not. `drive` is
the last command each drive took. Speeds, currents, ages in telemetry and the torque of
single commands are left out; `staleLimits` is a history variable.

### Wheels and legs

`BalanceController` and `ServoMotion` define the operations of their files on their own
variables, and `SlaveApp` puts them into commands the way the handlers do: `EnableCommand` is
`StopLegs /\ BalanceEnable`, leg commands ask whether balance is disabled, `SlavePoll` polls
the legs unless the robot balances. Delays are inputs as in the gimbal. So is what the
sensors say of the body (level, tilted, fallen, wheels too fast), whether the IMU and the bus
answer, and which drives report. The LQR and position-hold laws are abstracted to "some
torque is sent"; a drive is *idle*, or *awake* since it was last sent any other frame. What
caused a fault is told to clients only and left out. `feedback` is whether a drive's last
report is from this arming run or from before: enable drains sixteen frames of the receive
FIFO and clears the table, but replies behind those are read, and stamped, later; `left` are
the drives that have such replies. Wheel commands and tests reach the drives behind the
controller's back, as in the code, and `meddled` records that, and a stop of which a frame
was lost. The legs report nothing: their angles are those commanded. A PWM
register may refuse a pulse; initialisation may fail before any channel, and leaves a channel
that was on either on or off, since that is the SDK's affair. `round` is the parity of the
polls: it makes a poll that changes nothing a step, so that fairness can speak of it.

Two places where the model is stronger than the code needs a word: an IMU sample is fresh
after an update that succeeded in the same poll, so the branch that finds it stale cannot be
reached; and a velocity outside the limits is refused by `balance_control_set_motion_command`
without a trace, so only legal speeds are enumerated.

### The gimbal daemon and its clients

`GimbalDaemon` is the sequential program: `pc` is where its loop is, `stage` the transaction
of the request being served. Sending a frame, receiving its reply together with everything
computed until the next frame or the answer, and giving up on it are steps; the broker and
the firmware run between them. `backlog` is the listening socket's queue. The firmware is the
part of `GimbalController` the daemon can tell apart, angles are places on a line, and a frame
bears the history flag `late`: the daemon gave up on its request. `GimbalVoice` adds
`gimbal_voice.py`: short programs of `gimbalctl` calls, each of which may be given up while
the daemon works on it, among other clients that may say nothing for a while. `voice.at` is
where the program believes the camera to be.

### The chassis node

Requests to the broker block the one thread of `chassis_node.py`, so a request and its end
are two steps with no callback between; the timer, `/cmd_vel`, the services and
`destroy_node` are actions, and the process may die. `topic` is the queue of the
subscription, which keeps the last `Depth` messages (ten in the code) and is lost with the
node. A request given up after 0.15 s, or one the node was killed in, may go to `orphans`: the
broker carries it out later, even after those of the next connection.
Ages are counted in ticks up to the first value beyond their limit.

### The exported pose

`StateExports` has the bridge's request and write as separate steps and the reader's timer as
another; the age of the drives' feedback, of the request, of the file and of the last
transform are separate. Both programs may restart, the bridge counting from one again.

### The voice assistant

A turn of `VoiceTurn` is a plan of steps chosen from what was said: recording with its
counters of loud and quiet blocks, the wake word, the turn to the speaker, a photo, the reply,
the face, speech. Beside it run the player of the network voice and its local replacement,
each of which may overrun, and the capture bridge with its three files (request, picture,
answer). `SpeakerDirection` has the sensor's reader, the file, the tracker's polling thread
and the turn that asks for a past moment. What is recognized and answered is free.

### Tasks and motion programs

`RobotTasks` is the executor: a task is a plan of blocking calls, a call publishes until its
pose or its deadline ends it, and `said` is whether the last velocity published moves the
robot. Nav2 is external and accepts a goal when it likes. `ChatControl` adds the three
programs that give tasks, one at a time: any action with any task for the model's answer, and
the ways to end: by command, by a key, by an exception, by being killed. `rclpy.init` installs
its own handler of the key interrupt, which shuts the context down; the zero of the handlers
in `main` may then not leave (`StopsFirst`). The agent's `main` catches two kinds of
exceptions and the key (`ros_agent_loop.py:57`), and ends over any other without a stop.

### The web viewer and its bridges

`NavigationPreview`: clicks of several browsers, each of which sets the goal under the lock and
publishes after it; the planner bridge with its generation and active goal; Nav2's answers in any
order, and a goal that cannot be asked about (`OnGoalRaises`), whose failure is told without a
look at its generation; topics of depth one. `SemanticMap`: ingestion of samples, one landmark at
a time, beside HTTP requests and the flush of two files, with deaths of the viewer, failed writes
and spoiled files. `SiteChange`: the request file from the page to the bridge, with the time the
page took it, the script step by step, and the map each landmark and voxel was seen in.
`WebViewer`: HTTP threads over the picture cache, the gimbal commands with their lock, the cached
hardware status, the one-time terminal, restarts of the viewer.

### The screen

`ExpressionService` is the manager of faces with its socket, the serial line and what the
screen does with it: it reports pages that are entered and faces the user sets, and shows
only what is written to the page it is on. The face is the variable `sys2` of the screen,
which the face page draws when it is entered: a write of the variable alone changes no
picture, and the controller has the page entered again only when it knows it is up. Writes
fail at the variable or after it, and the port is opened again.
`ScreenController` adds the pages, lists and selections and the workers that do one operation
after the other. Wi-Fi and Bluetooth are of one form and meet only in the face, so a
behaviour follows one of them (`radio`).

### Perception

`LidarOdometry`: the robot moves along a line and a scan is where it was taken. Two scans
taken within `Unseen` of each other may look the same, as with the thresholds
`static_scan_rms` and `static_zero_rms`; a match that is accepted finds the motion, which the
`Deadband` may swallow, and whether one is accepted is free within the limits of speed. That
scans farther apart than `Unseen` differ is an assumption about the place: not a bare corridor.
`TargetLocalization`: a result of the detector is a number and a time, and each input of the
localizer (depth image, gimbal status, transform, calibration) has its own age.

## What the runs show

| Run | Bounds | Shows |
|---|---|---|
| `broker` | 2 connections, 3 requests, numbers 1 and 2, no restart | nobody gets another request's reply; the broker implements `RequestReply`, in which nothing runs twice |
| `broker_live` | 2 connections, 2 requests, one restart, fair threads | replies to frames of this process are never swapped, restart or not; the lock is always given back |
| `broker_restart` | the same | **violated**: `ReplyAnswersRequest` with a restart |
| `gimbal` | 2 limits per axis, one position in the overshoot and one beyond, a torque ramp of two steps, two settle samples, one lost frame | motion is informed; goals stay in limits; faults are honoured; calibration never moves a drive; a stopped gimbal is idle; a shutdown is final; transitions end |
| `gimbal_lost` | two lost frames | **violated**: `FaultStopsDrives` |
| `slave` | speeds 0 and 1 with a ramp step of 2, one lost frame, one servo, a safe, an unsafe and a raw pose | wheels idle whenever balance is off, also after an enable that failed halfway; arming on new feedback, but for replies left in the FIFO; no forgotten speed; legs off while balancing; legs in range |
| `slave_live` | speeds 0 and 3 with a ramp step of 2, no lost frame, leg commands only | an unrepeated speed expires; a leg movement ends |
| `slave_arming` | the same | **violated**: `ArmingEnds` |
| `slave_legs_stop` | two servos | **violated**: `StoppedLegsAreLimp` |
| `failed_task` | the programs that give tasks, alone | **violated**: `FailedTasksStop` |
| `gimbal_voice` | the voice and a console that stops or looks, five yaw places, two sequence numbers, two status polls, one late reply or closed connection | see below |
| `programs` | one program per behaviour, the bounds below | see below |

Types (`TypeOK`, `ExportTypeOK`, ...) are stated in the modules and proved, two of them but for
TLC's bounds (see below); the runs spend themselves on the other properties.

**`gimbal_voice`.** `OwnAnswer`: what the daemon decides on is the reply to the frame it
just sent. A timeout leaves the connection open and the late reply in it, where a later
transaction reads it; only command and sequence number tell the two apart.
`UnsafeIsStopped`: the daemon enables first and checks the return position afterwards, and
yet leaves no gimbal enabled that could not return, provided no transaction failed.
`EndedIsOff`: so does its end. `SaidIsDone`, `ScanEndsAhead`: what the voice says of the
camera has happened, whatever calls timed out and whatever the console did.
`EveryoneIsServed`: another client that connects is answered, gives up, or sees the daemon
end; the wait for a target is bounded.

**`programs`** takes each of twelve programs through its behaviours; they share no state in
these models, and the variables of the others rest.

| Program | Property | Says | Bounds |
|---|---|---|---|
| chassis | `VelocityExpires` | unless set off by a request the node gave up or was killed in, the wheels turn only while the last velocity the node took is younger than the timeouts of node, reply and firmware together, also when the node dies | each timeout one tick, one fault, a queue of two |
| exports | `PoseIsFresh` | a published pose is no older than the two limits together | limits of one tick, numbers up to 2 |
| voice | `HearsNoPlayback` | the microphone is closed while the assistant speaks, except over a player that ran past 30 s | four blocks, two attempts |
| voice | `PhotoIsOfThisRequest` | a question is answered with the picture taken for it | two requests' tokens |
| chat | `RestsBetweenTasks` | whichever call of a task failed, timed out or raised, the robot was told to rest when the program goes on or has ended; except after a settling turn without a pose, an exception nobody catches, a key and a kill | every task, every end |
| preview | `PreviewSettles` | at rest the page shows a route to the goal the bridge took last, or none, and a status that fits: "ready" beside a route only, and beside a route nothing but "ready" or the failure of a goal that could not be submitted | two browsers, two clicks, two spots |
| map | `NothingWrittenIsLost` | the next viewer finds what was last written, or the backup's last when the file is spoiled | two deaths or damages |
| map | `OneSampleMovesNothing` | a confirmed landmark leaves its place only after enough samples in a row away from it | two landmarks, two places beyond each other's reach, two samples in a row |
| site | `NoRequestRunsTwice` | a confirmation clears a site once at most, and not after it waited longer than `StaleAfter` since the page took it | two requests, each failing or interrupted anywhere; two ticks, one of which a request may wait |
| viewer | `PictureIsNewer` | a page is sent only newer frames, and the picture that bears a number shows that frame | two threads, two frames, a restart |
| screen | `PendingIsWork` | an operation is pending exactly while queued, running or its result waits, and once | two names, one touch at a time |
| screen | `RowsAreTheList` | the rows shown are the list a touch refers to | a page of one row |
| screen | `FaceHolds` | while the controller knows the face page to be up and has read its events, the winning request's face is shown, also after faces asked for, expired or cleared while the user's was on its way, and failed writes | two faces, one unread event |
| localizer | `TargetsAreSound` | no result is published twice; places are valid only on recent inputs and a settled transform | three results, three instants |
| odometry | `MotionCountsOnce` | no motion is counted twice, and a scan loses no more than the deadband in a match, than may go unseen in each scan since the reference while the robot seems to stand, and all only through rejections, a gap or a restart | three moves of one place, which neither a scan nor a match need show |
| direction | `DirectionIsOfTheWords` | a turn's direction is that of exactly the samples read in the window of its words | five moments, a history of three |

Why the bounds are enough to be telling. With two sequence numbers the counter wraps within
three transactions, and a link window of two lets one old reply survive into the next
transaction, which is all the code has to tell apart. Two connections make one contend for
the lock and give one the chance to get the other's reply; the third request lets the number
wrap while two are in flight. One lost frame in the gimbal hits each frame of each handler in
some behaviour; the second one, in `gimbal_lost`, is needed to lose both a frame and the idle
frame that answers it. A speed of 3 with a step of 2 makes a ramp of a whole and a part step,
and speeds within one step of zero would be overshot by a ramp that does not stop. One servo
is enough for the order of the leg commands and for one register that refuses; two are
needed only to see single channels differ, and the proof of `LegsInRange` covers any number.
In the daemon one fault is one late reply or one closed connection at any transaction, and five
places leave room for a return position outside the limits and for a target clipped to them. In
the programs each limit is one tick, so that at, below and beyond it are all reached; the clock
of the map and the site goes to two, the first at which a request has waited too long, and the
landmarks alone are followed for one flush period. The one event of the screen that may be
unread is crossed by expiries, results, errors and commands of the socket: it is an event of
the page, of the face the user chose or a touch, each of which they can overtake. Two threads
or browsers are one that overtakes and one that is overtaken, and two damages one of each of
two files. The clocks, sequence numbers and revisions are capped (`MaxClock`, `MaxMoment`,
`SequenceCap`, `MaxRevision`): a program stops there. Each property has been seen to fail under
a mutation of the code's behaviour (`PROJECT.json`, "mutants"), so the bounds let it be
violated. Only the broker's connections are symmetric, and symmetry is not used where liveness
is checked. Runs without deadlock checking may really stop: clients issue a bounded number of
requests, programs end, and the firmware waits for commands.

### Fairness

`RpmsgBroker!Fairness`: time passes (`DeadlinePasses`), a thread that has passed its deadline
runs, and a thread that has a reply sends it. Nothing is asked of clients, of monitors, of the
firmware, of the signal, or of which thread gets a contended mutex. `GimbalController!FairSpec`:
`slave_app_poll` is called without end and time passes, so a state that lasts is found by a poll
with all its delays over; nothing is asked of the feedback. `SlaveApp!FairSpec` asks the same of
the polls of wheels and legs, but not that a period is missed (`overrun`), and nothing of the
sensors, the bus or the drives. The firmware's main loop has no other exit than shutdown, and
commands run to their end, which is what justifies these. `GimbalVoice!FairVoiceSpec`: the
daemon's process and the broker run on, and a client other than the voice that has connected
speaks sooner or later. The last is an assumption about clients, not about the daemon:
`receive_json` waits without a timeout, and one that connects and says nothing keeps everyone else
waiting. Nothing is asked of the firmware, the camera or the voice programs.

### Disagreements found

1. **A reply survives the broker** (`broker_restart`). `g_sequence` starts at 0 in every
   process. A request written by the process before the restart is answered after it, its
   number is that of a new transaction, and a client is given a reply to another's request.
   `RPMSG_BROKER_GUIDE.md:22` says programs do not take each other's replies. Within one
   process they do not, which `NoRepliesSwapped` proves.
2. **A faulted gimbal may keep moving** (`gimbal_lost`). `enter_fault` sends idle once and
   ignores whether it was sent; when that frame is lost too, nothing sends it again.
   `RPC/README.md:402` says both motors go to idle at once.
3. **Arming may not time out** (`slave_arming`). `balance_control_poll` returns when the IMU
   update fails, before it looks at the arming deadline; with a silent IMU the drives stay
   enabled in ARMING. `LQR_IMPLEMENTATION_REPORT.md:50` lists a timeout of 2 s.
4. **Stopped legs may stay powered** (`slave_legs_stop`). SERVO_POLARITY clears the port's ready
   flag even when it is refused as busy; SERVO_STOP then finds nothing to switch off and
   reports UNARMED with the outputs on. `SERVO_ROLL_BRINGUP.md:160` says servo-stop really
   switches them off.
5. **A failed task may drive later** (`failed_task`). A goal that Nav2 does not answer within five
   seconds counts as rejected (`ros_robot_interface.py:266-270`); the task returns a failure, the
   executor stops on exceptions only (`task_executor.py:63`), and nobody cancels the goal Nav2
   has. `robot_ai_app/README.md:20-21` says that local code stops after each segment and falls
   back to stop when the execution fails.

**Observations that are not runs.** They were met while modelling; either no document of the
repository says otherwise, or what it says is not about a reachable state of a model here.

- A move whose correcting turn finds no transform (`ros_robot_interface.py:212-214`, `137-139`)
  returns without a stop, like the goal of `failed_task`; the last velocity stands until the next
  task or the timeout of `/cmd_vel`.
- The programs that give tasks stop the robot in their handlers of a key interrupt
  (`ros_chat_control.py`, `ros_agent_loop.py`, `ros_teleop.py`), but `rclpy.init` has installed a
  handler that shuts the context down, so the zero may not leave; the expiry of `/cmd_vel`
  stops the robot then.
- Closing a listening socket does not wake a thread that sleeps in `accept4`
  (`rpmsg_broker.c`): after SIGTERM `main` may wait in `pthread_join` for the monitor thread
  until a monitor connects. `tests/test_rpmsg_broker.py:65-69` allows for it, with a kill.
- `chat_policy.py:117` forbids the model the contrary of a clear direction; `:145` lets a
  contrary task through when the action beside it is the intent's.
- `prepare-new-site.sh` clears landmarks and voxels (`:17-23`) before it stops SLAM, so
  detections of the old map made in between are kept in the new one; a depth frame whose
  transform was looked up before the clear (`server.py:1162-1179`) is integrated after it.
- `planner_bridge.py`: when a click and a clear of two browsers cross, the page may show the
  route of the goal the bridge took last and not of the one clicked last; and when an older goal
  cannot be submitted (`:87-91`), "failed" may stand beside the newer goal's route.
- A face page that was up when the screen's controller started, or whose event was lost, keeps
  its old face until the next event (`controller.py:338-342` reloads only the page it knows of); a
  touch that was on its way when a list was replaced selects another name; and a face the user
  set is made the default when the request it answered has ended before the event is read
  (`controller.py:235-236`).
- `scan_matcher.py:358-372`, `383-399`: a robot that moves slowly enough is taken to stand in scan
  after scan, and its motion is lost each time the reference is replaced, up to the threshold
  for each scan.
- `motion_safety.py:128` takes balance state 3 for active; in the firmware 3 is FAULT. No program
  imports the module.
- An emergency stop on the web page waits for the command under way, up to 17 s
  (`server.py:457-490`, one `command_lock`). The daemon serves it after the client before it.
- `angle_reader.py` stamps a sample when it is read, so a sensor that repeats itself counts as
  fresh. `target_localizer.py:127-139` keeps a pending detection without looking at its age.
- `scan_matcher.py:350-358`: a reference reset keeps `consecutive_rejections`.
- Firmware: `LEG_ENABLE` during a single-servo test finds the outputs marked on; the motion
  deadline of the gimbal is capped at 15 s (`gimbal_controller.c:208`), less than a legal slow
  motion needs; `CAN_*` commands reach the wheels behind the balance controller
  (`slave_app.c:195`; `meddled` in the model); a monitor's slot of the broker is freed only by
  a broadcast that fails (`rpmsg_broker.c:148`).

## What is proved

TLAPS checks these for every value of the constants, from the assumptions the modules name.

**Broker** (`RpmsgBroker_proof`), from `ConnAssumption`, `BoundAssumption`, `SeqAssumption`,
`WindowAssumption`: `TypeCorrect`, `DeviceIsSerial`, `NoRepliesSwapped`, and `NoRestartNoSwap`
for brokers that are not restarted. That replies are not swapped is not inductive: a thread
compares a frame with `sequence`, so one has to know of every frame in the link *which* number
it bears. The invariant `FramesOK` says that a frame of this process that is `d` transactions
old carries the number `d` cyclic steps back from the present one, that it is younger than
`LinkWindow`, and that a frame of the transaction in progress belongs to the request of the
thread that holds the lock. `NumberIdentifies` then says that of the frames in the link only
those of the transaction in progress carry its number; the wrap of the counter from
`SequenceMod - 1` to 1 is in `NextSeqStep` and `FrameAges`.

`BrokerKeepsPromise`: a broker that is not restarted implements `RequestReply`. The initial
state maps to the abstract one, and every step to a step or a stutter: receiving to `Issue`,
the firmware's work to `Execute`, sending a reply to `Answer`, the end of a connection to
`GiveUp` of all it held, the rest to stutters. It needs, besides `FramesOK`, the invariant `PInv`:
requests not yet issued, queued, or waiting for the lock are untouched (never run, in no frame),
those a connection holds are open and held by it alone, a frame on its way to the firmware is
the only one of a request that never ran, and one on its way back, about to be sent or
delivered, is of a request that ran once.

**Gimbal** (`GimbalController_proof`), from the assumptions on torques, sizes, positions and
limits, none of which relates one to another: `GimbalTypeCorrect`, `MotionStaysInformed`,
`GoalsStayInLimits`, `CalibrationStaysLimp`, `FaultsStayHonoured`, `ShutdownStaysFinal`,
`StoppedStaysIdle`. The invariant `IInv` adds to the properties what they rest on: the target that
refreshes repeat is itself in reach (`TargetInReach`), the settle counters are below their end
while the state lasts (`SettleCounts`), limits are always those of the present origin, and no
calibration runs outside the stopped states. Lemmas say once what sending leaves in the drives
(`SentOutcome`, `IdledOutcome`) and that faults and stops leave a safe state; there is one lemma
per command and per state of the poll. `StoppedStaysIdle` counts frames instead: a failure the
code sees is a frame lost (`After`), idle frames none of which is lost leave the drives idle
(`IdledAfter`), and `CanMeansLost`, that a CAN bit in the faults comes with a loss, makes "at
most the one frame the fault reports" inductive.

**Wheels and legs** (`ServoMotion_proof`, `SlaveApp_proof`), from `SpeedAssumption`,
`LossAssumption` and `ServoAssumption` (the reference pose is within the ranges):
`MotionStaysForgotten`, `LegsStayOff`, `ActiveIsInformed`, `LegsStayInRange`, `WheelsStayIdle`,
`SlaveTypeCorrect`. The first three need that while the controller balances no report from before
`enable` is read of a drive that had none left in the FIFO (`OnlyNewReports`). `LegsStayInRange`
needs much more than the duty of powered channels: every angle that a later step may program has
to be safe (`AnglesSafe`: the current, the target and, while moving, the start angles), all
intermediate angles of a trajectory lie between its ends although C divides towards zero
(`Between`, `DivBounds`), and setting the channels keeps a safe port safe wherever it fails
(`SetAllPort`). `WheelsStayIdle` rests on `WheelInv`: the controller does not balance before it is
initialised, and every way out of balancing, and of an enable that failed, sends idle frames or
notes that one was lost. `SlaveTypeCorrect` adds `RampInv`: the applied speed lies between two
speeds that clients may command, since a step of the ramp passes neither the goal nor what it
started from (`ApproachStaysBetween`).

**Daemon and voice** (`GimbalVoice_proof`), from `ClientAssumption`, `LimitAssumption`,
`CountAssumption`, `FaultAssumption` (fewer faults than sequence numbers) and `VoiceAssumption`:
`DaemonTypeCorrect`, `AnswersAreOwn`, `UnsafeGimbalIsStopped`, `EndedDaemonLeavesItOff`,
`WhatIsSaidIsDone`, `ScanReturnsAhead`. The daemon's part, `DaemonInv`, says of the socket that its
frames are those of the last transactions in their order, no more of them overdue than faults
happened (`InOrder`), and of the gimbal what the daemon knows of it while socket and daemon are
in step (`Facts`). `VoiceInv` adds what the voice may believe: which of its requests may still be
on its way after it gave up (`Clients`, `QuietThen`), where the camera then is or turns to
(`FacesIt`, `Seen`), and that a scan's remaining targets lead ahead (`Plans`).

**Perception** (`Perception_proof`), each from the assumptions on its limits:

- `StateExports`: `PublishedPoseIsFresh`. The pose's age is bounded at each place it passes: the
  answer (`AnswerIsYoung`) and the file (`FileIsYoung`) are no older than the feedback limit and
  their stamp's age together.
- `LidarOdometry`: `MotionIsCountedOnce`, from `OdometryAssumption`. Unless a match was rejected,
  every scan since the reference was of a robot that seemed to stand, so the last of them is no
  farther from it than what goes unseen in each (`SlowSince`); `Reach` bounds the places.
- `SpeakerDirection`: `DirectionStaysOfTheWords`. The tracker keeps only what it read
  (`KeepsOnlyRead`) and all of it that the history reaches (`KeepsTheRecent`).
- `TargetLocalization`: `TargetsStaySound`. A pending detection is newer than all published
  (`PendingIsNew`), and the time since which the map is there is after its last absence
  (`SinceIsAfterMiss`).

Each comes with its type invariant (`ExportTypeCorrect` and so on).

**Navigation** (`Navigation_proof`), each program under its own specification:

- `ChassisNode`: `VelocitiesExpire`, from `TimeAssumption`. A velocity is old before it reaches
  the wheels, so its age is bounded at every place it stays at: the latest command, the request
  the node is blocked in, what is left of the firmware's time (`MovesAreYoung`). Requests left
  behind by a timeout or a kill are the only ones without a bound.
- `NavigationPreview`: `PreviewIsOfLastGoal`, from `PreviewAssumption` (a spot is not one of the
  marks). The property speaks of rest; the invariant `RouteInv` says before that what the page
  will show, the sample on the topic or what it shows, fits (`ToldFits`), except while a click is
  under way, and that two plans are never of one generation (`PlansAreKnown`).
- `SiteChange` and `SemanticMap`: `LandmarksSurvive`, `RequestsRunOnce`, `SemanticTypeCorrect` and
  the action property `OneSampleIsNotEnough`, from `SemanticAssumption` and `SiteAssumption`.
  `DiskInv`: the backup is never newer than a file that can be read, and between the two writes
  the file is of the store. `SoundMark`, of memory and of both files: no more samples are pending
  for a new place than were seen away from the old one. `RequestInv`: a request that waits never
  ran, bears the time the page took it, and is later than the one taken.
- `WebViewer`: `PagesGoForward` and `ViewerTakesTurns`, from `ViewerAssumption`. A thread knows
  enough at each step (`Sure`), and the cache holds one frame's pictures (`CacheOfOneFrame`).
  `ViewerTakesTurns` is about the locks of the gimbal commands, of the hardware status and of the
  one-time terminal; no run checks it.

**Interaction** (`Interaction_proof`), each program under its own specification:

- `VoiceTurn`: `NothingPlayedIsHeard`, `PicturesAreAnswers`, from `VoiceTurnAssumption`.
  `InItsStep` ties the player and the camera request to their steps of the turn.
  `AnswerIsWithItsPicture` says, stage by stage of the camera bridge, which token the files and
  the picture bear; that a new token is unlike the one the bridge still works at, and that nothing
  is left to write over a picture once its answer is there, is its heart.
- `ChatControl` and `RobotTasks`: `TasksLeaveRest`. A velocity other than zero stands only while a
  call that publishes is made, while a program stops, or after one of the ends the property names
  (`MovesAreCalls`): every other way out of such a call passes a stop.
- `ScreenController` and `ExpressionService`: `RowsShowTheList`, `FaceIsTheWinner`,
  `OperationsAreWork`, from `ScreenAssumption` (no network is named like the row that is unknown).
  What the screen shows may be wrong only while the event that will set it right is unread:
  `RowsHold` and `FaceIsHeld` name that event; for the face it is one of the face page, so that a
  page the controller knows of shows the winner however requests and events cross. Since only what
  the cache does not hold is written, the cache of the page that is up holds what is shown, or
  nothing (`CacheIsTrue`). Each handler is an instance of a few lemmas about the screen: a port
  that opens or closes, rows rendered (`RenderedFits`), a face applied (`AppliedFits`), a manager
  called back (`CalledBackFits`). `WorkInv` has each operation in one queue of its worker, once.

The theorems are about each program alone, whose constants are arbitrary; `MCPrograms` runs the
programs together only because they share no variable.

**Only model-checked**: the liveness properties (`LockReleased`, `TransitionsEnd`,
`CommandsExpire`, `LegsSettle`, `EveryoneIsServed`), which need fairness and ENABLED and are out
of the prover's reach. Every invariant and every other action property that a passing run checks
is a theorem, and so is `KeepsPromise`. **Only stated**: type invariants that bound a value by
TLC's counts of clicks and requests (`PreviewTypeOK`, `SiteTypeOK`); what the proofs need of these
types is in `RouteShape` and `RequestInv`. No module declares a RECURSIVE operator.

## What is not modelled, and why

- *Arithmetic*: LQR, position hold, filters of the IMU port, leg kinematics, scan matching,
  fusion, maps, image geometry and detection are floating point; they are left out or appear as
  free inputs. The lengths of delays are abstracted, so run times of commands and the
  computation of the gimbal's motion deadline are not seen.
- *Firmware details*: origin and tuning commands of the wheels, IMU commands, register reads,
  bit packing of frames, the length of the receive FIFO.
- *Broker*: the monitors' event stream and its 16 slots.
- *Thin or read-only programs*: `rpmsg_client.c` and the other command-line tools,
  `rpmsg_monitor.py`, `chassis_state_bridge.py` (writes a file of the same form as the gimbal's
  bridge that no program reads), `aht20_reader.py`, `target_detection.py`,
  `voice-navigation-bridge.py`, `robot-service-control.py` beyond the restart the viewer asks for,
  unit files, launch files and start scripts.
- *Programs no other program uses*: `motion_safety.py`.
- *A session in front of a shell*: `web-terminal.py`; its one flag is guarded by one lock and
  cleared when the shell ends. (A client that leaves between `:168` and the shell's start leaves
  it set.)
- *Older copies*: `rplidar_deploy/web-viewer-restored-20260723/`, `rplidar_deploy/server.py`, the
  top-level `gimbal-daemon/`, `robot_ai_app/voice_chat_demo.py` and `chat_policy.py` beside the
  package, and the copies of the localizer and of the camera transform in the other
  workspaces. The start scripts and unit files run the ones modelled.
- *External*: Nav2, SLAM, the screen's own program, speech and language models, the SDK of the
  slave core and vendored drivers; what the modelled code sees of them is stated in the modules.

## What remains

The proofs would go on with refinements: an abstract camera that `GimbalVoice` implements (a reply
is of a state that was, and success is of the state that is), and an abstract map that
`SemanticMap` implements, of which a crash loses at most one write. The broker's monitor slots are
the one stateful part of the deployed C code without a model. A composition of `ChassisNode` with
`RpmsgBroker` and `SlaveApp`, in place of the parts of them it has now, is beyond TLC at useful
bounds.
