SPECIFICATION Spec
CONSTANTS
  None = None
  Proposals = {p1, p2}
  Requester = a
  Administrators = {a, b}
  Clients = {c1, c2}
  MaxPatches = 2
  MaxChanges = 1
SYMMETRY MCSymmetry
INVARIANTS OnePatchAtATime OnlyReviewedPatches 
CHECK_DEADLOCK FALSE
