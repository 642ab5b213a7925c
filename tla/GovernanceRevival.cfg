SPECIFICATION Spec
CONSTANTS
  a = a
  d1 = d1
  d2 = d2
  v1 = v1
  v2 = v2
  None = None
  Lost = Lost
  Skills = {a}
  Distributions = {d1}
  Processes = {"p", "q"}
  Members <- OneMember
  Versions = {v1}
  Description <- SameDescription
  Declarations = {"x"}
  Profiles = {"default"}
  Required <- Behavior
  MaxRecords = 2
  MaxReviews = 1
CHECK_DEADLOCK FALSE
PROPERTY DeletionNeverReadies
