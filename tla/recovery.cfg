SPECIFICATION RecoverySpec
CONSTANTS
  c1 = c1  a = a  b = b  NoClient = NoClient
  Client = {c1}
  Service = {0}
  CopyId = {a, b}
  NMR = 2
  LIVENESS = 1
  MaxHeartbeats = 1
  MaxAnswers = 1
  Mortal <- NoCopies
  Faulty <- NoCopies
  WrongValue = 99
  Leaving = {}
  MaxRequests = 1
  Timely = TRUE
  Parameters <- Params
  MaxCrashes = 1
INVARIANT CallOnce
INVARIANT RegistrationInFlight
PROPERTY Recovers
CHECK_DEADLOCK FALSE
