SPECIFICATION Spec
CONSTANTS
  c1 = c1  c2 = c2  a = a  b = b  d = d  NoClient = NoClient
  Client = {c1}
  Service = {0}
  CopyId = {a, b, d}
  NMR = 3
  LIVENESS = 1
  MaxHeartbeats = 2
  MaxAnswers = 1
  Mortal <- OneCopy
  Faulty <- OneCopy
  WrongValue = 99
  Leaving = {c1}
  MaxRequests = 1
  Timely = TRUE
  Parameters <- Params
INVARIANT ReliableResult
INVARIANT OneAnswer
INVARIANT NoSilentMajority
PROPERTY Implements
SYMMETRY SymmetryBut_a
CHECK_DEADLOCK FALSE
