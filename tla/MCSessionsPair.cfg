CONSTANTS
  s1 = s1
  s2 = s2
  h1 = h1
  h2 = h2
  w1 = w1
  Sessions = {s1, s2}
  Handlers = {h1, h2}
  Sweepers = {}
  MaxTime = 0
  LastCreate = 0
  MaxActive = 1
  MaxEvents = 2
  LaunchTTL = 1
  SilenceTTL = 1
  LongTTL = 2
SPECIFICATION Spec
SYMMETRY Symmetry
INVARIANT AttributionBounded
