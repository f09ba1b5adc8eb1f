SPECIFICATION Spec
CONSTANTS
  c1 = c1  c2 = c2  a = a  b = b  d = d  NoClient = NoClient
  Client = {c1}
  Service = {0}
  CopyId = {a, b}
  NMR = 2
  LIVENESS = 1
  MaxHeartbeats = 2
  MaxAnswers = 1
  Mortal <- OneCopy
  Faulty <- NoCopies
  WrongValue = 99
  Leaving = {}
  MaxRequests = 3
  Timely = TRUE
  Parameters <- Params
PROPERTY RefusedOnlyIfServed
CHECK_DEADLOCK FALSE
