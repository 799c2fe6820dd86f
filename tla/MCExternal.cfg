SPECIFICATION Spec
CONSTANTS
  w1 = w1
  w2 = w2
  a1 = a1
  a2 = a2
  s1 = s1
  s2 = s2
  k1 = k1
  t1 = t1
  t2 = t2
  Workers = {w1, w2}
  Accounts = {a1, a2}
  Existing = {a1}
  Subjects = {s1, s2}
  Keys = {k1}
  Trips = {t1, t2}
  MaxKeys = 1
  MaxChanges = 3
SYMMETRY Symmetry
INVARIANTS EveryWayInWasAskedFor
PROPERTIES TripsAreSingleUse SignInIsCurrent
