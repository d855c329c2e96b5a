----------------------------- MODULE MCMonitoring -----------------------------
(* Two runs of one email-triggered workflow, one disk, one level.            *)
EXTENDS Naturals, Sequences

TwoRuns  == {"run1", "run2"}
Triage   == [i \in TwoRuns |-> "triage"]

CONSTANTS MaxTime, MaxChanges, MaxFaults
VARIABLES now, inst, consent, low, high, round, alerted, since, log, heard, mailed, posted,
          lost, changes, faults, restarts
INSTANCE Monitoring WITH
  Instances <- TwoRuns, Workflow <- Triage, Mounts <- {"/"}, Levels <- {"error_rate"}, Nobody <- "nobody"
=============================================================================
