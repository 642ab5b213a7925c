SPECIFICATION Spec
CONSTANTS
  old = old
  new = new
  other = other
  Absent = Absent
  Broken = Broken
  Unknown = Unknown
  N = 1
  Objects <- MCObjects
  Expected <- Created
  FirstAfter <- UpdatedNew
  SecondAfter <- UpdatedNew
  Faults = {}
INVARIANT WinnerKept
