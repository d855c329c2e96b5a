CONSTANTS
  ada = ada
  bob = bob
  Users = {ada, bob}
  Orgs = {"a"}
  All = "all"
  Rows0 <- TwoAdministrators
  Passwords = {0}
  Bodies <- Demotions
  NewRoles <- OneRole
  Callers = {"c1", "c2"}
  Logins = {"l1"}
  MaxBegun = 2
  MaxFaults = 0
SPECIFICATION Spec
CHECK_DEADLOCK FALSE
INVARIANTS PlatformHasAdministrator
