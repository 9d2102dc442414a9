SPECIFICATION Spec
CONSTANTS
  SFMax = 2
  FFData = 1
  CFData = 2
  FFMaxLen = 8
  FdSFMax = 3
  FdFFData = 3
  FdFFExtData = 2
  FdCFData = 4
  SNMod = 2
  MaxWait = 1
  BlockSize = 2
  BufSize <- MCBufSize
  Modes <- MCModes
  Buses <- MCBuses
  Losable <- MCLosable
  Lengths <- MCLengths
  MaxSends = 3
  MaxFaults = 2
INVARIANTS
  TypeOK
  NoFlowLeftOver
PROPERTIES
  ImplementsChannel
  CallsReturn
  EveryPduDelivered
