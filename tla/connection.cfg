SPECIFICATION BrowserSpec
CONSTANTS
  None = None
  States = {s1}
  Nonces = {n1}
  Gateways = {g1, g2}
  Keys = {k1}
  Accounts = {t1, t2}
  Clients = {c1, c2}
  Tickets = {b1}
  Contexts = {x1, x2}
  MaxLapses = 1
SYMMETRY MCSymmetry
INVARIANTS UsedOnce StatusWasGranted
CHECK_DEADLOCK FALSE
