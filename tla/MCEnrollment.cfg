CONSTANTS
  r1 = r1
  r2 = r2
  t1 = t1
  t2 = t2
  w1 = w1
  w2 = w2
  Ids = {r1, r2}
  Tokens = {t1, t2}
  Workers = {w1, w2}
  MaxSecrets = 2
  MaxRequests = 3
SPECIFICATION Spec
SYMMETRY Symmetry
INVARIANTS
  ClaimsAreSingleUse
  NoTokenIsLost
PROPERTIES
  IdentityIsProved
CHECK_DEADLOCK FALSE
