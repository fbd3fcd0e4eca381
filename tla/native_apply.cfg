SPECIFICATION Spec
CONSTANTS
  Artifacts = {"a", "b"}
  Ddl = {"a"}
  Sources = {"p", "q"}
  Changes <- Overlapping
  Pinned = {}
  Requests = {r1, r2}
  Exclusive = TRUE
  MaxSets = 2
  MaxEdits = 1
  MaxFaults = 1
SYMMETRY Symmetry
CHECK_DEADLOCK FALSE
INVARIANTS KeysNeverCycle 
PROPERTIES VerifiedInPlace PlannedOnly
