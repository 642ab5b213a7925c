SPECIFICATION Spec
CONSTANTS
  a = a
  d1 = d1
  d2 = d2
  v1 = v1
  v2 = v2
  None = None
  Lost = Lost
  Skills = {a}
  Distributions = {d1, d2}
  Processes = {"p"}
  Members <- OneMember
  Versions = {v1, v2}
  Description <- OwnDescription
  Declarations = {"x", "y"}
  Profiles = {"default"}
  Required <- RoutingToo
  MaxRecords = 2
  MaxReviews = 1
INVARIANT TypeOK
INVARIANT NoRevival
PROPERTY RecordingNeverReadies
PROPERTY DeletionNeverReadies
PROPERTY OthersStayReady
