SPECIFICATION Spec
CONSTANTS
  None = None
  Proposals = {p}
  Operations = {"none", "update", "delete"}
  Requester = u
  Reviewers = {v, w}
  Clients = {c1, c2}
  Keys = {k}
  Auths = {a}
  MaxWorkflows = 2
  MaxVersions = 2
  MaxChanges = 1
SYMMETRY Symmetry
CHECK_DEADLOCK FALSE
INVARIANTS MissionsRunTheReviewedGraph PublicationsAreApproved ApprovalsAreDual
PROPERTY ReceiptsAreFinal
