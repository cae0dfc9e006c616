\* The clients of the services and the programs over them, one at a time: each
\* with the smallest lengths, counts and versions that reach every path.
CONSTANTS
  MaxCommands = 3
  MaxStatuses = 3
  WaitTicks = 3
  NotifyTicks = 1
  FileSizes = {0, 1, 2}
  MaxCopied = 1
  AfcCallers = {1, 2}
  MaxAfcCalls = 3
  MaxSegments = 2
  MaxSyncCalls = 5
  SyncVersion <- MSyncVersion
  SyncMinors <- MSyncMinors
  LockAttempts = 2
  MaxRequests = 2
  MaxUnits = 8
  Hashes = {1, 2}
  Unhashed = {2}
  MaxVersion = 2
  MaxRuns = 2
  PacketSize = 2
  BufferLengths = {0, 2, 5}
  OpenAttempts = 2
  MaxIbCalls = 4
  ConnectAttempts = 2
  PacketTries = 2
  ChunkSize = 3
  WordSize = 16
  FileLengths = {0, 3, 7, 9, 17}
  MaxAsked = 2
  ImageLengths = {0, 2, 5}
  ReadSize = 2
  MaxConnections = 3
SPECIFICATION GuestSpec
\* Every program ends, and every bound on calls is reached.
CHECK_DEADLOCK FALSE
INVARIANTS ServicesTypeOK UpdaterOwned WaitsForFirstRound ToolTransfersWhole BelievedIsPerformed
  DirectionFollowsDevice LockReleased StreamInStep BackupTrusted RestoreVerified
  RestoreTransfersWhole ForwardersOutlived
