SPECIFICATION Spec
CONSTANTS
  WordMod = 4
  Radix = 2
  WordBytes = 2
  FlashSize = 3
  Regions <- MCRegions
  Byte <- MCByte
  EraseValue = 1
  MaxBlockData = 2
  SeqMax = 2
  MaxDataLen = 1
  Buses <- MCBuses
  Jobs <- MCJobs
  MaxPending = 1
  MaxInFlight = 3
  MaxDisturb = 2
INVARIANTS
  TypeOK
  DownloadOk
  UploadOk
  CleanJobSucceeds
PROPERTY JobEnds
\* The user of the library may stop starting jobs.
CHECK_DEADLOCK FALSE
