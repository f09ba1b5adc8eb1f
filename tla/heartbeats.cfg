SPECIFICATION Spec
CONSTANTS
  c1 = c1  c2 = c2  a = a  b = b  d = d  NoClient = NoClient
  Client = {}
  Service = {0}
  CopyId = {a, b, d}
  NMR = 3
  LIVENESS = 2
  MaxHeartbeats = 5
  MaxAnswers = 1
  Mortal <- OneCopy
  Faulty <- NoCopies
  WrongValue = 99
  Leaving = {}
  MaxRequests = 1
  Timely = TRUE
  Parameters <- Params
INVARIANT TypeOK
INVARIANT PingsReachAll
PROPERTY NoFalseAlarm
SYMMETRY SymmetryBut_a
CHECK_DEADLOCK FALSE
