SPECIFICATION Spec
VIEW MCView
CONSTANTS
  WordMod = 2
  FlashSize = 1
  Regions <- MCRegions
  Byte <- MCByte
  EraseValue = 1
  MaxBlockData = 1
  SeqMax = 1
  MaxDataLen = 1
  Levels <- MCLevels
  Seeds <- MCSeeds
  KeyOf <- MCKeyOf
  MaxAttempts = 1
  LockoutSecs = 1
  SeedTimeoutSecs = 1
  MaxTime = 1
  Dids <- MCDids
  UnknownDid <- MCUnknownDid
  DidTable <- MCDidTable
  DidValues <- MCDidValues
  DidDefaults <- MCDidDefaults
  DtcCodes <- MCDtcCodes
  DtcDefaults <- MCDtcDefaults
  MaxDidList = 1
PROPERTY DefaultSessionLocks
