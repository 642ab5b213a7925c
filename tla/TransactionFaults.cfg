SPECIFICATION Spec
CONSTANTS
  old = old
  new = new
  other = other
  Absent = Absent
  Broken = Broken
  Unknown = Unknown
  N = 2
  Objects <- MCObjects
  Expected <- UpdateCreateDelete
  After <- UpdateCreateDeleteAfter
  Foreign = {}
  Faults = {"check", "stage", "abandon", "commit", "rollback", "cleanup"}
  Interruptible = FALSE
INVARIANT TypeOK
INVARIANT ExitTruthful
INVARIANT ResidueComplete
INVARIANT ChangeReported
INVARIANT PriorNeverLost
INVARIANT StagedBeforeReplace
PROPERTY ImplementsAtomicMutation
