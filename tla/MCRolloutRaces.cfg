SPECIFICATION Spec
CONSTANTS
  w1 = w1
  w2 = w2
  w3 = w3
  NumEndpoints = 1
  NumRollouts = 1
  Components = {"RUSTDESK"}
  BatchSize = 1
  Threshold = 1
  MaxAttempts = 2
  Workers = {w1, w2, w3}
SYMMETRY Symmetry
INVARIANTS TypeOK AttemptsBounded
