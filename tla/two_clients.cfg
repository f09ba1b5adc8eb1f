SPECIFICATION FairSpec
CONSTANTS
  c1 = c1  c2 = c2  a = a  b = b  d = d  NoClient = NoClient
  Client = {c1, c2}
  Service = {0}
  CopyId = {a, b}
  NMR = 2
  LIVENESS = 1
  MaxHeartbeats = 0
  MaxAnswers = 1
  Mortal <- NoCopies
  Faulty <- NoCopies
  WrongValue = 99
  Leaving = {}
  MaxRequests = 1
  Timely = FALSE
  Parameters <- Params
INVARIANT Isolation
INVARIANT OneAnswer
PROPERTY Answered
CHECK_DEADLOCK FALSE
