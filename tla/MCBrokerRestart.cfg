\* One restart of the broker process between a request and its reply.
SPECIFICATION Spec
CONSTANTS
  c1 = c1
  c2 = c2
  NoConn = NoConn
  Conn = {c1, c2}
  MaxReq = 2
  SequenceMod = 3
  LinkWindow = 2
  MaxRestarts = 1
SYMMETRY ConnSymmetry
CHECK_DEADLOCK FALSE
INVARIANT ReplyAnswersRequest
