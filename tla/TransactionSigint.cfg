SPECIFICATION Spec
CONSTANTS
  old = old
  new = new
  other = other
  Absent = Absent
  Broken = Broken
  Unknown = Unknown
  N = 1
  Objects <- MCObjects
  Expected <- UpdateCreateDelete
  After <- UpdateCreateDeleteAfter
  Foreign = {}
  Faults = {}
  Interruptible = TRUE
INVARIANT ExitTruthful
