SPECIFICATION RetrySpec
CONSTANTS
  WordMod = 4
  Radix = 2
  WordBytes = 2
  FlashSize = 3
  Regions <- MCRegions
  Byte <- MCByte
  EraseValue = 1
  MaxBlockData = 2
  SeqMax = 2
  MaxDataLen = 1
  Buses <- MCLossy
  Jobs <- MCDownloads
  MaxPending = 1
  MaxInFlight = 3
  MaxDisturb = 1
PROPERTY RestartAfterInterruption
