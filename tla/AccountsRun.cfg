CONSTANTS
  ada = ada
  bob = bob
  Users = {ada, bob}
  Orgs = {"a", "b"}
  All = "all"
  Rows0 <- OneUser
  Passwords = {0, 1}
  Bodies <- Changes
  NewRoles <- OneRole
  Callers = {"c1"}
  Logins = {"l1"}
  MaxBegun = 6
  MaxFaults = 1
SPECIFICATION Spec
CHECK_DEADLOCK FALSE
INVARIANTS AdministratorsAreGranted RevocationReaches
PROPERTIES LastAdministratorsRemain
