SPECIFICATION Spec
CONSTANTS
  old = old
  new = new
  other = other
  Absent = Absent
  Broken = Broken
  Unknown = Unknown
  N = 2
  Objects <- MCObjects
  Expected <- UpdateCreateDelete
  After <- UpdateCreateDeleteAfter
  Foreign = {old, new, other, Absent}
  Faults = {}
  Interruptible = TRUE
INVARIANT ResidueComplete
PROPERTY ForeignNotRemoved
