CONSTANTS
  s1 = s1
  s2 = s2
  h1 = h1
  h2 = h2
  w1 = w1
  Sessions = {s1}
  Handlers = {h1}
  Sweepers = {w1}
  MaxTime = 3
  LastCreate = 0
  MaxActive = 1
  MaxEvents = 4
  LaunchTTL = 1
  SilenceTTL = 1
  LongTTL = 2
SPECIFICATION FairSpec
INVARIANTS
  TypeOK
  TimelineExplainsStatus
  CommittedDecisionIsCurrent
  MeasuredMeansObserved
  NoBurntKeys
PROPERTIES
  ClosedIsFinal
  ImplementsLifecycle
  ManagedLaunchResolves
