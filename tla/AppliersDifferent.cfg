SPECIFICATION Spec
CONSTANTS
  old = old
  new = new
  other = other
  Absent = Absent
  Broken = Broken
  Unknown = Unknown
  N = 2
  Objects <- MCObjects
  Expected <- Updated
  FirstAfter <- UpdatedNew
  SecondAfter <- UpdatedOther
  Faults = {}
INVARIANT OneWinner
INVARIANT WinnerKept
