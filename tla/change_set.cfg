SPECIFICATION Spec
CONSTANTS
  None = None
  Plans <- MCPlans
  Targets = {"u", "c", "f", "s", "d", "x"}
  Existing = {"u", "d", "x"}
  Submitted = {"x"}
  Clients = {c1, c2}
  MaxChanges = 3
SYMMETRY MCSymmetry
INVARIANTS EffectsFollowDependencies 
PROPERTIES SavedOverThePlan
CHECK_DEADLOCK FALSE
