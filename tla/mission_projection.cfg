SPECIFICATION WorkSpec
CONSTANTS
  EffectNodes = 0
  Workers = {w1, w2}
  Sessions = {s1}
  Approvers = {}
  Redecide = FALSE
  MaxEvents = 4
  MaxApprovals = 0
  MaxEpoch = 0
  MaxFollow = 1
  MaxLapses = 0
  MaxFaults = 1
  None = None
  WorkNodes = {n1, n2}
  MaxStale = 1
SYMMETRY Symmetry
CHECK_DEADLOCK FALSE
INVARIANTS ProjectedPrefix GenuineOutcome
PROPERTIES WorkFollowsTheFeed
