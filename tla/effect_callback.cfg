SPECIFICATION Spec
CONSTANTS
  Requests = {r1, r2}
  MaxFence = 2
  MaxEdits = 3
SYMMETRY Symmetry
INVARIANTS FencedReplay
PROPERTIES PlannedRevisionOnly ImplementsContract
