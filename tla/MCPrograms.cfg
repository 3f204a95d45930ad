\* Every clock of the chassis node and of the exported files runs out after a tick or
\* two; the microphone gives four blocks and photos have two tokens; two clicks of two
\* browsers; two site changes, each with the time
\* to grow too old; two landmarks on a line of two places, a file damaged
\* twice; two HTTP threads, two frames, one restart of the viewer; a screen with one
\* row for two names and two expressions; three results of the detector and three instants
\* with every limit of the localizer one; a robot that moves three times, by one place at a
\* time, which neither a scan nor a match need show; five moments of
\* the turns, of which the history reaches back three.
\* No deadlock check: a program may stop, and its bounds may be used up.
SPECIFICATION Spec
CONSTANTS
  CmdTimeout = 1
  ReplyTimeout = 1
  Lifetime = 1
  Depth = 2
  MaxFaults = 1
  MaxFeedback = 1
  MaxState = 1
  Timeout = 1
  SequenceCap = 2
  Trigger = 1
  MinVoiced = 2
  Silence = 1
  MaxBlocks = 4
  PreRoll = 1
  Attempts = 2
  Tokens = {t1, t2}
  Spots = {"p", "q"}
  Browsers = {b1, b2}
  MaxClicks = 2
  Kinds = {"chair", "person"}
  Dynamic = {"person"}
  Line = {0, 3}
  MinimumObservations = 2
  RelocationObservations = 2
  MinimumDuration = 0
  RelocationTimeout = 0
  CandidateTimeout = 0
  DynamicTimeout = 0
  FlushPeriod = 1
  Scenes <- MCScenes
  MaxLandmarks = 2
  MaxRevision = 5
  MaxTime = 2
  MaxDamage = 2
  MaxRequests = 2
  StaleAfter = 1
  Handlers = {h1, h2}
  Widths = {"fast"}
  MaxFrames = 2
  MaxRestarts = 1
  Expressions = {"smile", "hello"}
  Priorities = {60}
  Sources = {"external", "wifi.error"}
  MaxQueue = 1
  MaxTouches = 1
  Names = {n1, n2}
  PageSize = 1
  MaxWork = 1
  MaxResult = 1
  MaxInfo = 1
  MaxStatus = 1
  MaxTransform = 1
  MaxData = 1
  Settling = 1
  MaxResults = 3
  MaxClock = 3
  MaxReference = 3
  Refresh = 2
  MaxSpeed = 1
  Unseen = 1
  Deadband = 1
  MaxMoves = 3
  History = 3
  WakeWindow = 1
  ShortWords = 1
  LongWords = 2
  StaleSample = 1
  MaxMoment = 5
CHECK_DEADLOCK FALSE
INVARIANTS VelocityExpires PoseIsFresh HearsNoPlayback PhotoIsOfThisRequest RestsBetweenTasks
  PreviewSettles NothingWrittenIsLost NoRequestRunsTwice PictureIsNewer
  PendingIsWork RowsAreTheList FaceHolds
PROPERTIES OneSampleMovesNothing TargetsAreSound MotionCountsOnce DirectionIsOfTheWords
