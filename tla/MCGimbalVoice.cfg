\* One console that stops or looks, one late reply, one closed connection.
SPECIFICATION FairVoiceSpec
CONSTANTS
  voiceClient = voiceClient
  console = console
  NoClient = NoClient
  Client = {voiceClient, console}
  Voice = voiceClient
  Listener = {voiceClient}
  Talker = {console}
  OtherCmds = {"estop"}
  Limit = 2
  Margin = 1
  Inset = 1
  SequenceMod = 2
  EnableTries = 1
  SettleSamples = 2
  MaxPolls = 2
  Backlog = 1
  MaxFaults = 1
CHECK_DEADLOCK FALSE
INVARIANTS OwnAnswer UnsafeIsStopped EndedIsOff SaidIsDone ScanEndsAhead
PROPERTY EveryoneIsServed
