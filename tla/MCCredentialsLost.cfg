SPECIFICATION FairSpec
CONSTANTS
  w1 = w1
  w2 = w2
  Workers = {w1, w2}
  MaxInstalls = 1
  MaxRotations = 1
  MaxPasswords = 2
  MaxSecrets = 1
  Faults <- LostAnswers
PROPERTIES PasswordSyncs
