SPECIFICATION Spec
CONSTANTS
  None = None
  r1 = r1
  r2 = r2
  Clients = {c1, c2}
  TurnKeys = {t1, t2}
  Keys = {k1}
  Actions = {"update"}
  Records = {r1, r2}
  Scopes <- MCScopes
  Routes <- MCRoutes
  MaxChanges = 1
SYMMETRY MCSymmetry
INVARIANTS  AnswersAreLinked PlansTheRecordNamed
CHECK_DEADLOCK FALSE
