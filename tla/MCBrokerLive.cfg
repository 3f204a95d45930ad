\* Fair threads and one restart of the broker process; no symmetry, since a
\* liveness property is checked.
SPECIFICATION FairSpec
CONSTANTS
  c1 = c1
  c2 = c2
  NoConn = NoConn
  Conn = {c1, c2}
  MaxReq = 2
  SequenceMod = 3
  LinkWindow = 2
  MaxRestarts = 1
CHECK_DEADLOCK FALSE
INVARIANT RunReplyAnswersRequest
PROPERTY LockReleased
