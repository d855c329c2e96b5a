----------------------------- MODULE AttemptLog -----------------------------
(***************************************************************************)
(* What the engine promises about the step_executions table of one         *)
(* workflow instance (docs/EXECUTION_SEMANTICS.md, sections 3 and 3a): the *)
(* immutable-attempt model.  A step's rows are a log of attempts.  The log *)
(* only grows, a terminal row is never rewritten, attempt numbers increase *)
(* strictly, no attempt follows a settled one, and a step is attempted (or *)
(* skipped) only after everything it depends on has settled.  An instance  *)
(* is COMPLETED only when every step has settled.                          *)
(*                                                                         *)
(* Nothing here says who writes: dispatch loops, step tasks, operators,    *)
(* crashes and the boot sweep of WorkflowEngine are all steps of this log. *)
(***************************************************************************)
EXTENDS Naturals, Sequences

CONSTANTS Steps,  \* the step ids of the definition
          Edges   \* its edges, pairs <<source, target>>

VARIABLES inst,   \* the state column of the instance row
          rows,   \* rows[s]: the attempts of step s, oldest first
          cond    \* cond[e]: what the condition of edge e evaluates to

logVars == <<inst, rows, cond>>

Terminal == {"COMPLETED", "FAILED", "CANCELLED", "SKIPPED"}

HasRow(s, states) == \E i \in DOMAIN rows[s] : rows[s][i].state \in states
IsSettled(s) == HasRow(s, {"COMPLETED", "SKIPPED"})

Incoming(s) == {e \in Edges : e[2] = s}

\* An edge that can no longer activate its target.
Dead(e) == \/ HasRow(e[1], {"SKIPPED"})
           \/ HasRow(e[1], {"COMPLETED"}) /\ cond[e] = "false"

LogInit ==
  /\ inst = "RUNNING"
  /\ rows = [s \in Steps |-> << >>]
  /\ cond \in [Edges -> {"true", "false", "error"}]

\* A new attempt of s, numbered above every earlier one.
BeginAttempt(s) ==
  /\ ~IsSettled(s)
  /\ \A e \in Incoming(s) : IsSettled(e[1])
  /\ \E n \in 1 .. Len(rows[s]) + 1 :
       /\ \A i \in DOMAIN rows[s] : rows[s][i].attempt < n
       /\ rows' = [rows EXCEPT ![s] =
                     Append(@, [attempt |-> n, state |-> "RUNNING"])]
  /\ UNCHANGED <<inst, cond>>

\* The attempt in row i of s ends.
EndAttempt(s, i) ==
  /\ rows[s][i].state = "RUNNING"
  /\ \E st \in {"COMPLETED", "FAILED"} : rows' = [rows EXCEPT ![s][i].state = st]
  /\ UNCHANGED <<inst, cond>>

\* Every way into s is dead: s is skipped, without an attempt before it.
Skip(s) ==
  /\ Incoming(s) # {} /\ \A e \in Incoming(s) : Dead(e)
  /\ rows[s] = << >>
  /\ rows' = [rows EXCEPT ![s] = <<[attempt |-> 1, state |-> "SKIPPED"]>>]
  /\ UNCHANGED <<inst, cond>>

\* Attempts in flight are given up: a sibling failed, a pause, a kill, a sweep.
Cancelled(S) ==
  [s \in Steps |-> [i \in DOMAIN rows[s] |->
     IF s \in S /\ rows[s][i].state = "RUNNING"
     THEN [rows[s][i] EXCEPT !.state = "CANCELLED"] ELSE rows[s][i]]]

CancelAttempts ==
  /\ \E S \in SUBSET Steps : rows' = Cancelled(S)
  /\ inst' \in {inst, "PAUSED"}
  /\ UNCHANGED cond

\* The instance row changes state.
SetState(st) ==
  /\ st = "COMPLETED" => \A s \in Steps : IsSettled(s)
  /\ inst' = st
  /\ UNCHANGED <<rows, cond>>

LogNext ==
  \/ \E s \in Steps : BeginAttempt(s) \/ Skip(s)
  \/ \E s \in Steps : \E i \in DOMAIN rows[s] : EndAttempt(s, i)
  \/ CancelAttempts
  \/ \E st \in {"RUNNING", "PAUSED", "COMPLETED", "FAILED", "KILLED"} : SetState(st)

LogSpec == LogInit /\ [][LogNext]_logVars
=============================================================================
