------------------------------- MODULE MCAgent -------------------------------
(* A triage step and an apply step: the second holds the tool that acts,     *)
(* sees only its inputs and is pinned to the message that triggered it.      *)
EXTENDS Naturals, Sequences

Does(tools, allowed, pin, minimized, required) ==
  [tools |-> tools, allowed |-> allowed, pin |-> pin, minimized |-> minimized, required |-> required,
   retries |-> 1, maxTurns |-> 2, maxTokens |-> 1]

Tools == {"read", "apply"}
StepConfigs ==
  {Does({"read"}, Tools, "none", FALSE, {}), Does(Tools, {"read"}, "none", FALSE, {"read"}),
   Does({"apply"}, Tools, "resolves", TRUE, {"apply"}), Does({"apply"}, Tools, "missing", TRUE, {"apply"})}

CONSTANTS MaxBatch, MaxTries, MaxWait, AnswerCost
VARIABLES step, memory, attempt, left, effects, audit, spent, result
INSTANCE AgentLoop WITH Configs <- StepConfigs
=============================================================================
