SPECIFICATION Spec
CONSTANTS
  EffectNodes = 1
  Workers = {w1}
  Sessions = {s1}
  Approvers = {v1}
  Redecide = TRUE
  MaxEvents = 2
  MaxApprovals = 2
  MaxEpoch = 1
  MaxFollow = 1
  MaxLapses = 1
  MaxFaults = 1
CONSTRAINT DriftOrLapse
SYMMETRY Symmetry
CHECK_DEADLOCK FALSE
INVARIANTS OnlyApprovedPlans
PROPERTIES ImplementsContract
