SPECIFICATION FairSpec
CONSTANTS
  w1 = w1
  w2 = w2
  Workers = {w1, w2}
  MaxInstalls = 2
  MaxRotations = 2
  MaxPasswords = 3
  MaxSecrets = 2
  Faults <- NoFaults
INVARIANTS TypeOK RotatedWasTaken
PROPERTIES PasswordSyncs RotationResolves
