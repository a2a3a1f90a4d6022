SPECIFICATION Spec
CONSTANTS
  ada = ada  p1 = p1  p2 = p2  w1 = w1  w2 = w2
  None = None
  Emails <- Addresses
  Pendings <- Forms
  LastChallenge = 3
  LastToken = 3
  Workers <- Dispatchers
  Instants <- Moments
  MAX_ATTEMPTS = 2
  Scenarios <- Everything
SYMMETRY SameForms
CHECK_DEADLOCK FALSE
INVARIANTS TypeOK ConfirmedHasAccount OneWayIn DeadCodesAreNotQueued OpenFlowIsRecoverable OneLiveToken
PROPERTIES FinalMailStays
