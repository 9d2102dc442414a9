SPECIFICATION Spec
CONSTANTS
  Levels <- MCLevels
  Seeds <- MCSeeds
  KeyOf <- MCKeyOf
  MaxAttempts = 2
  LockoutSecs = 3
  SeedTimeoutSecs = 2
  MaxTime = 7
INVARIANTS
  TypeOK
  AttemptRate
PROPERTIES
  UnlockAnswersSeed
