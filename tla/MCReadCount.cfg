SPECIFICATION Spec
CONSTANTS
  WordMod = 2
  FlashSize = 1
  Regions <- MCRegions
  Byte <- MCByte
  EraseValue = 0
  MaxBlockData = 1
  SeqMax = 1
  MaxDataLen = 1
  Levels <- MCLevels
  Seeds <- MCSeeds
  KeyOf <- MCKeyOf
  MaxAttempts = 1
  LockoutSecs = 1
  SeedTimeoutSecs = 1
  MaxTime = 0
  Dids <- MCDids
  UnknownDid <- MCUnknownDid
  DidTable <- MCDidTable
  DidValues <- MCDidValues
  DidDefaults <- MCDidDefaults
  DtcCodes <- MCDtcCodes
  DtcDefaults <- MCDtcDefaults
  MaxDidList = 3
  DrawnSeeds <- MCSeeds
  P2 = 50
  P2Star = 2000
  Buses <- MCClean
  Calls <- MCCounts
  MaxPending = 1
  MaxInFlight = 2
  MaxDisturb = 0
INVARIANT CountOk
