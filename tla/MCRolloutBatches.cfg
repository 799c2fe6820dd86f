SPECIFICATION FairSpec
CONSTANTS
  w1 = w1
  NumEndpoints = 2
  NumRollouts = 1
  Components = {"RUSTDESK"}
  BatchSize = 1
  Threshold = 1
  MaxAttempts = 2
  Workers = {w1}
PROPERTIES PilotGate InstallGetsVerdict
