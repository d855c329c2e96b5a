------------------------------- MODULE MCAdmin -------------------------------
(* An organization's own administrator, and the platform's from another.    *)
EXTENDS Naturals, TLC

HomeOf == "ann" :> "acme" @@ "root" :> "default"

CONSTANTS MaxCalls, MaxCrashes

VARIABLES defs, inst, done, created, dry, forks, drivers, tasks, calls, audit, changed, ncalls, crashes
INSTANCE WorkflowAdmin WITH
  Users <- {"ann", "root"}, Home <- HomeOf, Admins <- {"root"}, OrgAdmins <- {"ann"},
  Shapes <- {"chain"}, Clients <- {"c1", "c2"}, Names <- {"w"}, MaxInstances <- 2
=============================================================================
