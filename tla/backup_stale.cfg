\* idevicebackup: two files, one of them without a hash, two versions of each, and two runs of the tool.
CONSTANTS
  Hashes = {1, 2}
  Unhashed = {2}
  MaxVersion = 2
  MaxRuns = 2
SPECIFICATION BackupSpec
\* The tool may be run no more.
CHECK_DEADLOCK FALSE
INVARIANT LastValidManifest
