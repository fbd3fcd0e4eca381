SPECIFICATION FairSpec
CONSTANTS
  Artifacts = {"a", "b", "c"}
  Ddl = {"c"}
  Sources = {"p", "q"}
  Changes <- Disjoint
  Pinned = {"p"}
  Requests = {r1, r2}
  Exclusive = TRUE
  MaxSets = 2
  MaxEdits = 0
  MaxFaults = 0
CHECK_DEADLOCK FALSE
PROPERTIES ApplyingEnds
