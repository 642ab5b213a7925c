SPECIFICATION Spec
CONSTANTS
  a = a
  b = b
  v1 = v1
  v2 = v2
  v3 = v3
  None = None
  Governed <- MCGoverned
  Versions = {v1, v2, v3}
  Policies <- MCPolicies
  Unreported <- MCUnreported
  Commits <- MCCommits
  Mirrors <- MCMirrors
  HistoryLimit = 2
  MaxMirror = 4
  MaxSource = 5
  MaxMoves = 2
INVARIANT PayloadIsCommitted
INVARIANT VerifiedIsReviewed
INVARIANT PreparedReleaseVerifies
