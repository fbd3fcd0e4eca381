SPECIFICATION FairSpec
CONSTANTS
  EffectNodes = 2
  Workers = {w1, w2}
  Sessions = {}
  Approvers = {v1, v2}
  Redecide = FALSE
  MaxEvents = 2
  MaxApprovals = 4
  MaxEpoch = 2
  MaxFollow = 1
  MaxLapses = 1
  MaxFaults = 0
CHECK_DEADLOCK FALSE
INVARIANTS CancelledMeansStopped QueuedHasAJob ApprovedRequestResumes
PROPERTIES OutcomeReported
