CONSTANTS
  u = u
  a = a
  b = b
  c1 = c1
  c2 = c2
  Principals = {u}
  Admins = {u, a, b}
  Orgs = {"org"}
  Platform = "platform"
  Expiries = {0, 1}
  DualControl = FALSE
  UniqueIndex = FALSE
  Servers = {"s1"}
  Calls = {c1, c2}
  Server <- OneServer
  MaxGrants = 2
  MaxNow = 1
  MaxFaults = 1
SYMMETRY Symmetry
SPECIFICATION Spec
CHECK_DEADLOCK FALSE
INVARIANTS OneActivePerScope TwoPersonRule SweepRevokes
PROPERTIES DeadStaysDead
