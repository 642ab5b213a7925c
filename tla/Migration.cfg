SPECIFICATION MigrationSpec
CONSTANTS
  old = old
  new = new
  other = other
  Absent = Absent
  Broken = Broken
  Unknown = Unknown
  N = 4
  Objects <- MCObjects
  Expected <- Rehearsed
  After <- Conversion
  Foreign = {}
  Faults = {"check", "commit"}
  Interruptible = TRUE
  Original = v1
  Revised = revised
  Reports = {"clean", "dirty"}
  None = None
  MaxMoves = 2
INVARIANT FailedCommitRestores
INVARIANT MigrationTells
INVARIANT UnderBackup
INVARIANT RerunAccepted
PROPERTY CommandEnds
