SPECIFICATION Spec
CONSTANTS
  c1 = c1  c2 = c2  a = a  b = b  d = d  NoClient = NoClient
  Client = {c1}
  Service = {0}
  CopyId = {a, b, d}
  NMR = 3
  LIVENESS = 3
  MaxHeartbeats = 0
  MaxAnswers = 1
  Mortal <- NoCopies
  Faulty <- NoCopies
  WrongValue = 99
  Leaving = {}
  MaxRequests = 1
  Timely = TRUE
  Parameters <- Params
INVARIANT NoOutOfBounds
SYMMETRY Symmetry
CHECK_DEADLOCK FALSE
