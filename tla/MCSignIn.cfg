SPECIFICATION Spec
CONSTANTS
  w1 = w1
  w2 = w2
  Workers = {w1, w2}
  TPS = 2
  MaxNow = 3
  MaxStep = 2
  MaxPasswords = 2
  MaxSecrets = 2
  MaxLogin = 2
  MaxTotp = 2
  MaxRequests = 4
  AtOnce = 1
SYMMETRY Symmetry
CHECK_DEADLOCK FALSE
INVARIANTS TypeOK EndedStaysEnded CodesAreSingleUse LockoutHolds
