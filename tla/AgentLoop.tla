------------------------------- MODULE AgentLoop -------------------------------
(***************************************************************************)
(* One agentic step (engine/executor.py _run_agentic, agent/agent.py,       *)
(* bedrock/client.py): the prompt is put together, parameters are pinned,   *)
(* the model is asked, its tool calls are dispatched, and when it is done   *)
(* the engine audits the calls, counts the spend and checks that a required *)
(* call was made.  The model answers anything; a call of the model may fail *)
(* and is tried again; a tool may fail after it has acted; the step's time  *)
(* limit may cut the attempt anywhere.                                      *)
(***************************************************************************)
EXTENDS Naturals, Sequences, FiniteSets

CONSTANTS
  Tools,       \* the tools of the platform
  Configs,     \* [tools, allowed, pin, minimized, required, retries, maxTurns, maxTokens]
  MaxBatch,    \* bound: calls in one answer of the model
  MaxTries,    \* RetryPolicy.max_attempts, of one model call
  MaxWait,     \* RetryPolicy.max_total_delay, in units of the base delay
  AnswerCost   \* tokens of one answer

VARIABLES
  step,      \* the step's definition
  memory,    \* what memory and recall hold: "none", "rubric", "mail"
  attempt,   \* [pc, turns, tokens, tries, waited, todo, calls, prompt, stop]
  left,      \* attempts left
  effects,   \* what tools did: sequence of [attempt, tool, value, ok]
  audit,     \* audit entries of tool calls: [attempt, tool, ok, override]
  spent,     \* tokens counted on the run
  result     \* "none", "completed" or "failed"

vars == <<step, memory, attempt, left, effects, audit, spent, result>>

Values == {"pinned", "other"}
Stops  == {"end_turn", "max_tokens"}   \* and tool_use; the rest are as max_tokens
Number == step.retries + 1 - left      \* the number of the attempt under way

Blank(pc) == [pc |-> pc, turns |-> 0, tokens |-> 0, tries |-> 0, waited |-> 0,
              todo |-> <<>>, calls |-> <<>>, prompt |-> {}, stop |-> "none"]

Init ==
  /\ step \in Configs /\ memory \in {"none", "rubric", "mail"}
  /\ attempt = Blank("ready") /\ left = step.retries + 1
  /\ effects = <<>> /\ audit = <<>>
  /\ spent = 0 /\ result = "none"

-----------------------------------------------------------------------------
(* Before the model is asked.                                              *)

\* Mutant of Prompt: memory is loaded whatever the step declares.
MutPrompt == {"context"} \cup ({memory} \ {"none"})

\* A step that declares its inputs sees them and nothing else: no memory, no
\* recalled mail.  Any other sees the trigger, the steps before it, and both.
Prompt == IF step.minimized THEN {"inputs"} ELSE {"context"} \cup ({memory} \ {"none"})

\* Where an attempt that failed leaves the step: StepFailure has the budget of
\* retries, a pin that does not resolve and any other exception have none.
Fail(retryable) ==
  /\ attempt' = Blank(IF retryable /\ left > 0 THEN "ready" ELSE "over")
  /\ result' = IF retryable /\ left > 0 THEN result ELSE "failed"

Begin ==
  /\ attempt.pc = "ready" /\ left > 0 /\ left' = left - 1
  /\ IF step.pin = "missing" THEN /\ attempt' = Blank("over") /\ result' = "failed"
     ELSE /\ attempt' = [Blank("ask") EXCEPT !.prompt = Prompt]
          /\ UNCHANGED result
  /\ UNCHANGED <<step, memory, effects, audit, spent>>

-----------------------------------------------------------------------------
(* The loop.                                                               *)

Stop(why) == [attempt EXCEPT !.pc = "audit", !.stop = why, !.todo = attempt.calls]

\* Before every call: the budget, then the number of turns.
Ask ==
  /\ attempt.pc = "ask"
  /\ attempt' = IF attempt.turns >= step.maxTurns THEN Stop("max_iterations")
                ELSE IF attempt.tokens > step.maxTokens THEN Stop("budget_exhausted")
                ELSE [attempt EXCEPT !.pc = "model", !.tries = 1, !.waited = 0]
  /\ UNCHANGED <<step, memory, left, effects, audit, spent, result>>

\* 2^(tries-1) base delays, of which half is at random.
Delays == {d \in 1 .. MaxWait + 1 : 2 * d >= 2 ^ (attempt.tries - 1) /\ d <= 2 ^ (attempt.tries - 1)}

\* A transient error waits and asks again while the tries and the wait last; a
\* permanent one, and the last transient one, is raised through the step.
ModelFails ==
  /\ attempt.pc = "model"
  /\ \/ Fail(FALSE)
     \/ /\ attempt.tries < MaxTries
        /\ \E d \in Delays :
             /\ attempt.waited + d <= MaxWait
             /\ attempt' = [attempt EXCEPT !.tries = @ + 1, !.waited = @ + d]
        /\ UNCHANGED result
  /\ UNCHANGED <<step, memory, left, effects, audit, spent>>

Uses == [tool : Tools, value : Values]

ModelAnswers ==
  /\ attempt.pc = "model"
  /\ LET heard == [attempt EXCEPT !.turns = @ + 1, !.tokens = @ + AnswerCost]
     IN \/ \E why \in Stops :
             attempt' = [heard EXCEPT !.pc = "audit", !.stop = why, !.todo = heard.calls]
        \/ \E n \in 1 .. MaxBatch : \E batch \in [1 .. n -> Uses] :
             attempt' = [heard EXCEPT !.pc = "tools", !.todo = batch]
  /\ UNCHANGED <<step, memory, left, effects, audit, spent, result>>

\* Mutant of Pinned: only a parameter the model left out is filled in.
MutPinned(use) == [value |-> use.value, override |-> FALSE]

\* The engine's value replaces the model's, and a different one is noted.
Pinned(use) ==
  IF step.pin = "resolves" THEN [value |-> "pinned", override |-> use.value # "pinned"]
  ELSE [value |-> use.value, override |-> FALSE]

\* _dispatch: refused by the capabilities, not a tool of this step, or run; a
\* tool that raises, before or after it has acted, is an error result.
Dispatch ==
  /\ attempt.pc = "tools" /\ attempt.todo # <<>>
  /\ LET use == Head(attempt.todo)
         p   == Pinned(use)
         may == use.tool \in step.allowed /\ use.tool \in step.tools
     IN \E acts, ok \in BOOLEAN :
          /\ ok => acts
          /\ acts => may
          /\ effects' = IF acts THEN Append(effects, [attempt |-> Number, tool |-> use.tool, value |-> p.value])
                        ELSE effects
          /\ attempt' = [attempt EXCEPT !.todo = Tail(@),
                           !.calls = Append(@, [tool |-> use.tool, ok |-> ok, acted |-> acts,
                                                override |-> p.override])]
  /\ UNCHANGED <<step, memory, left, audit, spent, result>>

Answered ==
  /\ attempt.pc = "tools" /\ attempt.todo = <<>>
  /\ attempt' = [attempt EXCEPT !.pc = "ask"]
  /\ UNCHANGED <<step, memory, left, effects, audit, spent, result>>

-----------------------------------------------------------------------------
(* After the model is done.                                                *)

AuditCall ==
  /\ attempt.pc = "audit" /\ attempt.todo # <<>>
  /\ LET c == Head(attempt.todo)
     IN audit' = Append(audit, [attempt |-> Number, tool |-> c.tool, acted |-> c.acted, override |-> c.override])
  /\ attempt' = [attempt EXCEPT !.todo = Tail(@)]
  /\ UNCHANGED <<step, memory, left, effects, spent, result>>

\* Mutant of Met: any call to the tool will do.
MutMet == Cardinality({i \in DOMAIN attempt.calls : attempt.calls[i].tool \in step.required})
            >= Cardinality(step.required)

\* require_tool_call: a call to the tool that succeeded.
Met == Cardinality({i \in DOMAIN attempt.calls : attempt.calls[i].tool \in step.required /\ attempt.calls[i].ok})
         >= Cardinality(step.required)

\* The spend is counted before the required call is looked for.
Finish ==
  /\ attempt.pc = "audit" /\ attempt.todo = <<>>
  /\ spent' = spent + attempt.tokens
  /\ IF Met THEN result' = "completed" /\ attempt' = [attempt EXCEPT !.pc = "over"] ELSE Fail(TRUE)
  /\ UNCHANGED <<step, memory, left, effects, audit>>

\* The time limit: a StepFailure, wherever the attempt is.
Cut ==
  /\ attempt.pc \in {"ask", "model", "tools", "audit"}
  /\ Fail(TRUE)
  /\ UNCHANGED <<step, memory, left, effects, audit, spent>>

Next == Begin \/ Ask \/ ModelFails \/ ModelAnswers \/ Dispatch \/ Answered \/ AuditCall \/ Finish \/ Cut

Spec == Init /\ [][Next]_vars

-----------------------------------------------------------------------------
(* Properties.                                                             *)

\* Whatever mail says to the model, a tool acts only if the step and the
\* capabilities allow it and only on the pinned value, and a step that
\* declares its inputs was never shown recalled mail (EMAIL_TRIAGE_ACT_PLAN).
ActionsAreBounded ==
  /\ \A i \in DOMAIN effects :
       /\ effects[i].tool \in step.tools \cap step.allowed
       /\ step.pin # "none" => effects[i].value = "pinned"
  /\ step.minimized => "mail" \notin attempt.prompt

\* A step that completed made its required call, within its budget but for one
\* answer, each of its attempt's effects is on record, and an attempt that was
\* not cut is paid for.
CompletedIsEarned ==
  result = "completed" =>
    /\ \A t \in step.required : \E i \in DOMAIN effects : effects[i].attempt = Number /\ effects[i].tool = t
    /\ attempt.tokens <= step.maxTokens + AnswerCost /\ attempt.turns <= step.maxTurns
    /\ Cardinality({i \in DOMAIN audit : audit[i].attempt = Number /\ audit[i].acted})
         = Cardinality({i \in DOMAIN effects : effects[i].attempt = Number})
    /\ attempt.tokens <= spent

\* EXECUTION_SEMANTICS: "every agent tool call appends an audit entry": when the
\* step is over, every act of a tool is on record.
ActsAreAudited ==
  attempt.pc = "over" => Len(SelectSeq(audit, LAMBDA e : e.acted)) = Len(effects)
=============================================================================
