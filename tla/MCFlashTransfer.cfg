SPECIFICATION Spec
CONSTANTS
  WordMod = 8
  FlashSize = 6
  Regions <- MCRegions
  Byte <- MCByte
  EraseValue = 1
  MaxBlockData = 2
  SeqMax = 2
  MaxDataLen = 2
INVARIANTS
  TypeOK
  WindowInRegion
  BlocksProgrammable
  DownloadContents
  UploadServed
  BlocksInOrder
PROPERTIES
  FailureChangesNothing
  ProtectedCellsFixed
  TransferExclusive
