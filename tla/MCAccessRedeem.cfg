SPECIFICATION Spec
CONSTANTS
  w1 = w1
  w2 = w2
  e1 = e1
  a1 = a1
  t1 = t1
  Workers = {w1, w2}
  Computers = {e1}
  Assignments = {a1}
  Tokens = {t1}
  MaxChanges = 2
  DayMinutes = 3
SYMMETRY Symmetry
INVARIANTS OffboardedStaysOut ScheduleMatchesClock
PROPERTIES ImplementsSingleUse RedeemedWasAuthorized DecisionsStand
