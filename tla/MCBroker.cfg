\* Two connections, three requests, one incarnation, sequence numbers 1 and 2.
SPECIFICATION Spec
CONSTANTS
  c1 = c1
  c2 = c2
  NoConn = NoConn
  Conn = {c1, c2}
  MaxReq = 3
  SequenceMod = 3
  LinkWindow = 2
  MaxRestarts = 0
SYMMETRY ConnSymmetry
CHECK_DEADLOCK FALSE
INVARIANT ReplyAnswersRequest
PROPERTY KeepsPromise
