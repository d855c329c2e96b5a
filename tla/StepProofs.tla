------------------------------ MODULE StepProofs ------------------------------
(***************************************************************************)
(* Theorems about what a run's steps work with in Platform: the agent's    *)
(* loop, the trace store, learned memory and the files they move, each for *)
(* any number of its calls, documents, runs and faults.                    *)
(* A part's variables have the names its module gives them.                *)
(***************************************************************************)
EXTENDS PlatformProofs

-----------------------------------------------------------------------------
(* AgentLoop.                                                              *)

step    == v1
memory  == v2
attempt == v3
left    == v4
effects == v5
audit   == v6
spent   == v7
result  == v8

Pcs == {"ready", "ask", "model", "tools", "audit", "over"}
Whys == {"none", "end_turn", "max_tokens", "max_iterations", "budget_exhausted"}
CallType    == [tool: AgentTools, ok: BOOLEAN, acted: BOOLEAN, override: BOOLEAN]
AttemptType == [pc: Pcs, turns: Nat, tokens: Nat, tries: Nat, waited: Nat, todo: Seq(AL!Uses \cup CallType),
                calls: Seq(CallType), prompt: SUBSET {"inputs", "context", "rubric", "mail"}, stop: Whys]
EffectType  == [attempt: Nat, tool: AgentTools, value: AL!Values]
EntryType   == [attempt: Nat, tool: AgentTools, acted: BOOLEAN, override: BOOLEAN]

AgentType ==
  /\ step \in AgentConfigs /\ memory \in {"none", "rubric", "mail"} /\ attempt \in AttemptType
  /\ left \in Nat /\ left <= step.retries + 1
  /\ effects \in Seq(EffectType) /\ audit \in Seq(EntryType)
  /\ spent \in Nat /\ result \in {"none", "completed", "failed"}

Number == step.retries + 1 - left
Going  == {"ask", "model", "tools", "audit"}
ActsOf(n)    == {i \in DOMAIN effects : effects[i].attempt = n}
EntriesOf(n) == {i \in DOMAIN audit : audit[i].attempt = n /\ audit[i].acted}
ActingCalls  == {i \in DOMAIN attempt.calls : attempt.calls[i].acted}
Noted        == {i \in ActingCalls : i <= Len(attempt.calls) - Len(attempt.todo)}

\* What a tool did, a step whose pin does not resolve never having asked for any.
BoundInv ==
  /\ \A i \in DOMAIN effects :
       /\ effects[i].tool \in step.tools \cap step.allowed
       /\ step.pin # "none" => effects[i].value = "pinned"
  /\ step.minimized => "mail" \notin attempt.prompt
  /\ step.pin = "missing" => attempt.pc \in {"ready", "over"}
  /\ attempt.pc = "tools" => attempt.todo \in Seq(AL!Uses)

\* An attempt's calls are its acts: each that acted is an effect of its own, and
\* the calls that have left the list to audit are its entries.
OnRecordInv ==
  /\ \A i \in DOMAIN effects : effects[i].attempt <= Number
  /\ \A i \in DOMAIN audit : audit[i].attempt <= Number
  /\ attempt.pc \in {"ask", "model", "tools"} => \A i \in DOMAIN audit : audit[i].attempt # Number
  /\ attempt.pc \in Going => Cardinality(ActsOf(Number)) = Cardinality(ActingCalls)
  /\ attempt.pc \in Going => \A i \in DOMAIN attempt.calls :
       /\ attempt.calls[i].ok => attempt.calls[i].acted
       /\ attempt.calls[i].acted =>
            \E j \in DOMAIN effects : effects[j].attempt = Number /\ effects[j].tool = attempt.calls[i].tool
  /\ attempt.pc = "audit" =>
       /\ Len(attempt.todo) <= Len(attempt.calls)
       /\ \A i \in DOMAIN attempt.todo :
            attempt.todo[i] = attempt.calls[Len(attempt.calls) - Len(attempt.todo) + i]
       /\ Cardinality(EntriesOf(Number)) = Cardinality(Noted)

\* The budgets are looked at before every call of the model.
BudgetInv ==
  /\ attempt.pc \in Going =>
       attempt.tokens <= step.maxTokens + AnswerCost /\ attempt.turns <= step.maxTurns
  /\ attempt.pc = "model" => attempt.tokens <= step.maxTokens /\ attempt.turns < step.maxTurns
  /\ attempt.pc # "over" => result = "none"
  /\ result = "completed" =>
       /\ \A t \in step.required : \E i \in DOMAIN effects : effects[i].attempt = Number /\ effects[i].tool = t
       /\ attempt.tokens <= step.maxTokens + AnswerCost /\ attempt.turns <= step.maxTurns
       /\ Cardinality(EntriesOf(Number)) = Cardinality(ActsOf(Number))
       /\ attempt.tokens <= spent

AgentInv == AgentType /\ BoundInv /\ OnRecordInv /\ BudgetInv

USE DEF step, memory, attempt, left, effects, audit, spent, result

\* The instances of the library's cardinality are the library's.
LEMMA AgentCardinality == ASSUME NEW S PROVE AL!Cardinality(S) = Cardinality(S)
BY DEF AL!Cardinality, Cardinality

\* What can be counted, and what one more counts for.
LEMMA IndexesAreFinite ==
  ASSUME NEW S, NEW s \in Seq(S), NEW A, A \subseteq DOMAIN s
  PROVE  IsFiniteSet(A) /\ Cardinality(A) \in Nat
<1>1. Len(s) \in Nat /\ DOMAIN s = 1 .. Len(s)
  OBVIOUS
<1>2. IsFiniteSet(1 .. Len(s))
  BY <1>1, FS_Interval
<1>. QED
  BY <1>1, <1>2, FS_Subset, FS_CardinalityType

\* A new element makes a finite set one larger.
LEMMA OneMore ==
  ASSUME NEW A, NEW n, NEW B, IsFiniteSet(A), n \notin A, B = A \cup {n}
  PROVE  Cardinality(B) = Cardinality(A) + 1
BY FS_AddElement

\* The constants of a step, and the fields of an attempt.
LEMMA StepFacts ==
  ASSUME AgentType
  PROVE  /\ step.tools \subseteq AgentTools /\ step.allowed \subseteq AgentTools
         /\ step.pin \in {"none", "resolves", "missing"} /\ step.minimized \in BOOLEAN
         /\ step.required = {} \/ \E t \in AgentTools : step.required = {t}
         /\ step.retries \in Nat /\ step.maxTurns \in Nat /\ step.maxTokens \in Nat /\ AnswerCost \in Nat
BY AgentAssumption DEF AgentType

\* What the type says of the attempt, field by field.
LEMMA AttemptFacts ==
  ASSUME AgentType
  PROVE  /\ attempt \in AttemptType /\ attempt.pc \in Pcs /\ attempt.turns \in Nat /\ attempt.tokens \in Nat
         /\ attempt.tries \in Nat /\ attempt.waited \in Nat /\ attempt.todo \in Seq(AL!Uses \cup CallType)
         /\ attempt.calls \in Seq(CallType) /\ attempt.prompt \in SUBSET {"inputs", "context", "rubric", "mail"}
         /\ left \in Nat /\ Number \in Nat
<1>1. attempt \in AttemptType
  BY DEF AgentType
<1>2. Number \in Nat
  BY StepFacts DEF AgentType, Number
<1>. QED
  BY <1>1, <1>2 DEF AgentType, AttemptType

\* An attempt that has done nothing.
LEMMA BlankFacts ==
  ASSUME NEW pc \in Pcs
  PROVE  /\ AL!Blank(pc) \in AttemptType /\ AL!Blank(pc).pc = pc /\ AL!Blank(pc).turns = 0
         /\ AL!Blank(pc).tokens = 0 /\ AL!Blank(pc).prompt = {}
         /\ AL!Blank(pc).todo = <<>> /\ AL!Blank(pc).calls = <<>>
BY DEF AL!Blank, AttemptType, Pcs, Whys

\* What the steps make of an attempt.
LEMMA FailFacts ==
  ASSUME AgentType, NEW retryable \in BOOLEAN, AL!Fail(retryable)
  PROVE  /\ attempt' \in AttemptType /\ attempt'.pc \in {"ready", "over"} /\ attempt'.prompt = {}
         /\ result' \in {result, "failed"}
         /\ attempt'.pc = "ready" => result' = result /\ left > 0
         /\ attempt'.pc = "over" => result' = "failed"
<1>1. CASE retryable /\ left > 0
  <2>1. attempt' = AL!Blank("ready") /\ result' = result
    BY <1>1 DEF AL!Fail
  <2>. QED
    BY <1>1, <2>1, BlankFacts DEF Pcs
<1>2. CASE ~(retryable /\ left > 0)
  <2>1. attempt' = AL!Blank("over") /\ result' = "failed"
    BY <1>2 DEF AL!Fail
  <2>. QED
    BY <2>1, BlankFacts DEF Pcs
<1>. QED
  BY <1>1, <1>2

\* What the beginning of an attempt leaves: its prompt is the inputs alone when the step is minimized.
LEMMA BeginFacts ==
  ASSUME AgentType, AL!Begin
  PROVE  /\ attempt' \in AttemptType /\ attempt.pc = "ready" /\ left > 0 /\ left' = left - 1
         /\ UNCHANGED <<step, memory, effects, audit, spent>>
         /\ \/ step.pin = "missing" /\ attempt'.pc = "over" /\ result' = "failed" /\ attempt'.prompt = {}
            \/ /\ step.pin # "missing" /\ attempt'.pc = "ask" /\ result' = result
               /\ attempt'.turns = 0 /\ attempt'.tokens = 0
               /\ attempt'.todo = <<>> /\ attempt'.calls = <<>>
               /\ step.minimized => attempt'.prompt = {"inputs"}
<1>1. CASE step.pin = "missing"
  <2>1. attempt' = AL!Blank("over")
    BY <1>1 DEF AL!Begin
  <2>. QED
    BY <1>1, <2>1, BlankFacts DEF AL!Begin, Pcs
<1>2. CASE step.pin # "missing"
  <2>1. attempt' = [AL!Blank("ask") EXCEPT !.prompt = AL!Prompt] /\ result' = result
    BY <1>2 DEF AL!Begin
  <2>2. AL!Prompt \in SUBSET {"inputs", "context", "rubric", "mail"} /\ (step.minimized => AL!Prompt = {"inputs"})
    BY StepFacts DEF AL!Prompt, AgentType
  <2>3. AL!Blank("ask") \in AttemptType
    BY BlankFacts DEF Pcs
  <2>4. /\ attempt' \in AttemptType /\ attempt'.pc = AL!Blank("ask").pc /\ attempt'.prompt = AL!Prompt
        /\ attempt'.turns = AL!Blank("ask").turns /\ attempt'.tokens = AL!Blank("ask").tokens
        /\ attempt'.todo = AL!Blank("ask").todo /\ attempt'.calls = AL!Blank("ask").calls
    BY Zenon, <2>1, <2>2, <2>3 DEF AttemptType
  <2>5. attempt.pc = "ready" /\ left > 0 /\ left' = left - 1 /\ UNCHANGED <<step, memory, effects, audit, spent>>
    BY DEF AL!Begin
  <2>. QED
    BY <1>2, <2>1, <2>2, <2>4, <2>5, BlankFacts DEF Pcs
<1>. QED
  BY <1>1, <1>2

\* Asking goes on to the model only below both budgets.
LEMMA AskFacts ==
  ASSUME AgentType, AL!Ask
  PROVE  /\ attempt' \in AttemptType /\ attempt.pc = "ask"
         /\ UNCHANGED <<step, memory, left, effects, audit, spent, result>>
         /\ attempt'.turns = attempt.turns /\ attempt'.tokens = attempt.tokens
         /\ attempt'.calls = attempt.calls /\ attempt'.prompt = attempt.prompt
         /\ \/ attempt'.pc = "audit" /\ attempt'.todo = attempt.calls
            \/ attempt'.pc = "model" /\ attempt.tokens <= step.maxTokens /\ attempt.turns < step.maxTurns
<1>1. attempt \in AttemptType /\ attempt.pc = "ask" /\ UNCHANGED <<step, memory, left, effects, audit, spent, result>>
  BY DEF AgentType, AL!Ask
<1>2. \/ attempt' = [attempt EXCEPT !.pc = "audit", !.stop = "max_iterations", !.todo = attempt.calls]
      \/ attempt' = [attempt EXCEPT !.pc = "audit", !.stop = "budget_exhausted", !.todo = attempt.calls]
      \/ /\ attempt' = [attempt EXCEPT !.pc = "model", !.tries = 1, !.waited = 0]
         /\ ~(attempt.turns >= step.maxTurns) /\ ~(attempt.tokens > step.maxTokens)
  BY DEF AL!Ask, AL!Stop
<1>3. CASE \/ attempt' = [attempt EXCEPT !.pc = "audit", !.stop = "max_iterations", !.todo = attempt.calls]
           \/ attempt' = [attempt EXCEPT !.pc = "audit", !.stop = "budget_exhausted", !.todo = attempt.calls]
  <2>1. attempt.calls \in Seq(AL!Uses \cup CallType)
    BY AttemptFacts
  <2>. QED
    BY Zenon, <1>1, <1>3, <2>1 DEF AttemptType, Pcs, Whys
<1>4. CASE /\ attempt' = [attempt EXCEPT !.pc = "model", !.tries = 1, !.waited = 0]
           /\ ~(attempt.turns >= step.maxTurns) /\ ~(attempt.tokens > step.maxTokens)
  <2>1. attempt.tokens <= step.maxTokens /\ attempt.turns < step.maxTurns
    BY <1>4, StepFacts, AttemptFacts
  <2>. QED
    BY Zenon, <1>1, <1>4, <2>1 DEF AttemptType, Pcs, Whys
<1>. QED
  BY <1>2, <1>3, <1>4

\* A model call that fails ends the attempt or is tried again.
LEMMA ModelFailsFacts ==
  ASSUME AgentType, AL!ModelFails
  PROVE  /\ attempt.pc = "model" /\ UNCHANGED <<step, memory, left, effects, audit, spent>>
         /\ \/ AL!Fail(FALSE)
            \/ /\ attempt' \in AttemptType /\ attempt'.pc = "model" /\ result' = result
               /\ attempt'.turns = attempt.turns /\ attempt'.tokens = attempt.tokens
               /\ attempt'.calls = attempt.calls /\ attempt'.prompt = attempt.prompt
<1>1. attempt \in AttemptType /\ attempt.pc = "model" /\ UNCHANGED <<step, memory, left, effects, audit, spent>>
  BY Zenon DEF AgentType, AL!ModelFails
<1>2. CASE AL!Fail(FALSE)
  BY Zenon, <1>1, <1>2
<1>3. CASE /\ \E d \in AL!Delays : attempt' = [attempt EXCEPT !.tries = @ + 1, !.waited = @ + d]
           /\ result' = result
  <2>1. PICK d \in AL!Delays : attempt' = [attempt EXCEPT !.tries = @ + 1, !.waited = @ + d]
    BY Zenon, <1>3
  <2>2. d \in Nat
    BY DEF AL!Delays
  <2>3. attempt.tries + 1 \in Nat /\ attempt.waited + d \in Nat
    BY <2>2, AttemptFacts
  <2>. QED
    BY Zenon, <1>1, <1>3, <2>1, <2>3 DEF AttemptType
<1>. QED
  BY Zenon, <1>2, <1>3 DEF AL!ModelFails

\* An answer costs a turn and its tokens.
LEMMA AnswerFacts ==
  ASSUME AgentType, AL!ModelAnswers
  PROVE  /\ attempt' \in AttemptType /\ attempt.pc = "model"
         /\ UNCHANGED <<step, memory, left, effects, audit, spent, result>>
         /\ attempt'.turns = attempt.turns + 1 /\ attempt'.tokens = attempt.tokens + AnswerCost
         /\ attempt'.calls = attempt.calls /\ attempt'.prompt = attempt.prompt
         /\ \/ attempt'.pc = "audit" /\ attempt'.todo = attempt.calls
            \/ attempt'.pc = "tools" /\ attempt'.todo \in Seq(AL!Uses)
<1>1. /\ attempt \in AttemptType /\ attempt.pc = "model"
      /\ UNCHANGED <<step, memory, left, effects, audit, spent, result>>
  BY Zenon DEF AgentType, AL!ModelAnswers
<1> DEFINE heard == [attempt EXCEPT !.turns = @ + 1, !.tokens = @ + AnswerCost]
<1>2. /\ heard \in AttemptType /\ heard.turns = attempt.turns + 1 /\ heard.tokens = attempt.tokens + AnswerCost
      /\ heard.calls = attempt.calls /\ heard.prompt = attempt.prompt
  <2>1. attempt.turns + 1 \in Nat /\ attempt.tokens + AnswerCost \in Nat
    BY AttemptFacts, StepFacts
  <2>. QED
    BY Zenon, <1>1, <2>1 DEF AttemptType
<1>3. \/ \E why \in AL!Stops : attempt' = [heard EXCEPT !.pc = "audit", !.stop = why, !.todo = heard.calls]
      \/ \E n \in 1 .. MaxBatch : \E batch \in [1 .. n -> AL!Uses] :
           attempt' = [heard EXCEPT !.pc = "tools", !.todo = batch]
  BY Zenon DEF AL!ModelAnswers
<1> HIDE DEF heard
<1>4. heard.calls \in Seq(AL!Uses \cup CallType)
  BY <1>2, AttemptFacts
<1>5. CASE \E why \in AL!Stops : attempt' = [heard EXCEPT !.pc = "audit", !.stop = why, !.todo = heard.calls]
  <2>1. PICK why \in AL!Stops : attempt' = [heard EXCEPT !.pc = "audit", !.stop = why, !.todo = heard.calls]
    BY Zenon, <1>5
  <2>2. why \in Whys
    BY DEF AL!Stops, Whys
  <2>. QED
    BY Zenon, <1>1, <1>2, <1>4, <2>1, <2>2 DEF AttemptType, Pcs, Whys
<1>6. CASE \E n \in 1 .. MaxBatch : \E batch \in [1 .. n -> AL!Uses] :
             attempt' = [heard EXCEPT !.pc = "tools", !.todo = batch]
  <2>1. PICK n \in 1 .. MaxBatch : \E batch \in [1 .. n -> AL!Uses] :
           attempt' = [heard EXCEPT !.pc = "tools", !.todo = batch]
    BY Zenon, <1>6
  <2>2. PICK batch \in [1 .. n -> AL!Uses] : attempt' = [heard EXCEPT !.pc = "tools", !.todo = batch]
    BY Zenon, <2>1
  <2>3. batch \in Seq(AL!Uses) /\ batch \in Seq(AL!Uses \cup CallType)
    <3>1. n \in Nat
      OBVIOUS
    <3>. QED
      BY <3>1
  <2>. QED
    BY Zenon, <1>1, <1>2, <2>2, <2>3 DEF AttemptType, Pcs, Whys
<1>. QED
  BY Zenon, <1>3, <1>5, <1>6

\* A tool call has an effect only if it acted, and only with a tool that the step allows.
LEMMA DispatchFacts ==
  ASSUME AgentType, BoundInv, AL!Dispatch
  PROVE  /\ attempt' \in AttemptType /\ attempt.pc = "tools" /\ attempt'.pc = "tools"
         /\ UNCHANGED <<step, memory, left, audit, spent, result>>
         /\ attempt'.turns = attempt.turns /\ attempt'.tokens = attempt.tokens
         /\ attempt'.prompt = attempt.prompt /\ attempt'.todo \in Seq(AL!Uses)
         /\ \E c \in CallType :
              /\ attempt'.calls = Append(attempt.calls, c) /\ (c.ok => c.acted)
              /\ ~c.acted => effects' = effects
              /\ c.acted => \E e \in EffectType :
                   /\ effects' = Append(effects, e) /\ e.attempt = Number /\ e.tool = c.tool
                   /\ e.tool \in step.tools \cap step.allowed
                   /\ step.pin = "resolves" => e.value = "pinned"
<1>1. /\ attempt \in AttemptType /\ attempt.pc = "tools" /\ attempt.todo # <<>>
      /\ UNCHANGED <<step, memory, left, audit, spent, result>>
  BY DEF AgentType, AL!Dispatch
<1>2. attempt.todo \in Seq(AL!Uses)
  BY <1>1 DEF BoundInv
<1> DEFINE use == Head(attempt.todo)
           p   == AL!Pinned(use)
<1>3. use \in AL!Uses /\ Tail(attempt.todo) \in Seq(AL!Uses)
  BY <1>1, <1>2
<1>4. PICK acts \in BOOLEAN, ok \in BOOLEAN :
        /\ ok => acts
        /\ acts => use.tool \in step.allowed /\ use.tool \in step.tools
        /\ effects' = IF acts THEN Append(effects, [attempt |-> Number, tool |-> use.tool, value |-> p.value])
                      ELSE effects
        /\ attempt' = [attempt EXCEPT !.todo = Tail(@),
                         !.calls = Append(@, [tool |-> use.tool, ok |-> ok, acted |-> acts,
                                              override |-> p.override])]
  BY Zenon DEF AL!Dispatch, AL!Number, Number
<1>5. /\ use.tool \in AgentTools /\ use.value \in AL!Values
      /\ p.value \in AL!Values /\ p.override \in BOOLEAN /\ (step.pin = "resolves" => p.value = "pinned")
  BY Zenon, <1>3 DEF AL!Uses, AL!Pinned, AL!Values
<1> HIDE DEF use, p
<1> DEFINE c == [tool |-> use.tool, ok |-> ok, acted |-> acts, override |-> p.override]
           e == [attempt |-> Number, tool |-> use.tool, value |-> p.value]
<1>6. c \in CallType /\ c.tool = use.tool /\ c.ok = ok /\ c.acted = acts
  BY <1>5 DEF CallType
<1>7. e \in EffectType /\ e.attempt = Number /\ e.tool = use.tool /\ e.value = p.value
  BY <1>5, AttemptFacts DEF EffectType
<1>8. attempt' = [attempt EXCEPT !.todo = Tail(attempt.todo), !.calls = Append(attempt.calls, c)]
  BY <1>4
<1>9. effects' = IF acts THEN Append(effects, e) ELSE effects
  BY <1>4
<1> HIDE DEF c, e
<1>10. Append(attempt.calls, c) \in Seq(CallType) /\ Tail(attempt.todo) \in Seq(AL!Uses \cup CallType)
  BY <1>3, <1>6, AttemptFacts, Appended
<1>11. /\ attempt' \in AttemptType /\ attempt'.pc = "tools" /\ attempt'.turns = attempt.turns
       /\ attempt'.tokens = attempt.tokens /\ attempt'.prompt = attempt.prompt
       /\ attempt'.todo = Tail(attempt.todo) /\ attempt'.calls = Append(attempt.calls, c)
  BY Zenon, <1>1, <1>8, <1>10 DEF AttemptType
<1>12. (c.ok => c.acted) /\ (~c.acted => effects' = effects)
  BY <1>4, <1>6, <1>9
<1>13. c.acted => /\ effects' = Append(effects, e) /\ e.attempt = Number /\ e.tool = c.tool
                  /\ e.tool \in step.tools \cap step.allowed
                  /\ step.pin = "resolves" => e.value = "pinned"
  BY <1>4, <1>5, <1>6, <1>7, <1>9
<1>. QED
  BY <1>1, <1>3, <1>6, <1>7, <1>11, <1>12, <1>13

\* One call goes on record, in order.
LEMMA AuditFacts ==
  ASSUME AgentType, OnRecordInv, AL!AuditCall
  PROVE  /\ attempt' \in AttemptType /\ attempt.pc = "audit" /\ attempt'.pc = "audit"
         /\ UNCHANGED <<step, memory, left, effects, spent, result>>
         /\ attempt'.turns = attempt.turns /\ attempt'.tokens = attempt.tokens
         /\ attempt'.prompt = attempt.prompt /\ attempt'.calls = attempt.calls
         /\ attempt'.todo = Tail(attempt.todo) /\ attempt.todo # <<>>
         /\ \E e \in EntryType :
              /\ audit' = Append(audit, e) /\ e.attempt = Number
              /\ e.acted = attempt.calls[Len(attempt.calls) - Len(attempt.todo) + 1].acted
<1>1. /\ attempt \in AttemptType /\ attempt.pc = "audit" /\ attempt.todo # <<>>
      /\ UNCHANGED <<step, memory, left, effects, spent, result>>
      /\ attempt' = [attempt EXCEPT !.todo = Tail(@)]
  BY DEF AgentType, AL!AuditCall
<1>2. Tail(attempt.todo) \in Seq(AL!Uses \cup CallType)
  BY <1>1, AttemptFacts
<1>3. /\ attempt' \in AttemptType /\ attempt'.pc = "audit" /\ attempt'.turns = attempt.turns
      /\ attempt'.tokens = attempt.tokens /\ attempt'.prompt = attempt.prompt
      /\ attempt'.calls = attempt.calls /\ attempt'.todo = Tail(attempt.todo)
  BY Zenon, <1>1, <1>2 DEF AttemptType
<1> DEFINE c == Head(attempt.todo)
           e == [attempt |-> Number, tool |-> c.tool, acted |-> c.acted, override |-> c.override]
           k == Len(attempt.calls) - Len(attempt.todo) + 1
<1>4. c = attempt.calls[k] /\ c \in CallType
  <2>1. attempt.todo \in Seq(AL!Uses \cup CallType) /\ attempt.calls \in Seq(CallType)
    BY AttemptFacts
  <2>2. c = attempt.todo[1] /\ 1 \in DOMAIN attempt.todo /\ Len(attempt.todo) \in Nat /\ Len(attempt.todo) >= 1
    BY <1>1, <2>1
  <2>3. Len(attempt.todo) <= Len(attempt.calls) /\ c = attempt.calls[k]
    BY Zenon, <1>1, <2>2 DEF OnRecordInv
  <2>4. k \in 1 .. Len(attempt.calls)
    <3>1. \A m, n \in Nat : n >= 1 /\ n <= m => m - n + 1 \in 1 .. m
      OBVIOUS
    <3>2. Len(attempt.calls) \in Nat /\ Len(attempt.todo) \in Nat /\ Len(attempt.todo) <= Len(attempt.calls)
      BY <1>1, <2>1 DEF OnRecordInv
    <3>. QED
      BY Zenon, <2>2, <3>1, <3>2
  <2>5. attempt.calls[k] \in CallType
    <3> HIDE DEF k
    <3>. QED
      BY <2>1, <2>4
  <2>. QED
    BY Zenon, <2>3, <2>5
<1>5. audit' = Append(audit, e)
  BY DEF AL!AuditCall, AL!Number, Number
<1> HIDE DEF c
<1>6. e \in EntryType /\ e.attempt = Number /\ e.acted = c.acted
  BY Zenon, <1>4, AttemptFacts DEF EntryType, CallType
<1> HIDE DEF e, k
<1>7. e.acted = attempt.calls[k].acted
  BY <1>4, <1>6
<1>. QED
  BY Zenon, <1>1, <1>3, <1>5, <1>6, <1>7 DEF k

\* The attempt is over, completed only if its criteria are met.
LEMMA FinishFacts ==
  ASSUME AgentType, AL!Finish
  PROVE  /\ attempt.pc = "audit" /\ attempt.todo = <<>>
         /\ UNCHANGED <<step, memory, left, effects, audit>> /\ spent' = spent + attempt.tokens
         /\ \/ /\ AL!Met /\ result' = "completed" /\ attempt' \in AttemptType /\ attempt'.pc = "over"
               /\ attempt'.turns = attempt.turns /\ attempt'.tokens = attempt.tokens
               /\ attempt'.prompt = attempt.prompt /\ attempt'.calls = attempt.calls
            \/ AL!Fail(TRUE)
<1>1. /\ attempt \in AttemptType /\ attempt.pc = "audit" /\ attempt.todo = <<>>
      /\ UNCHANGED <<step, memory, left, effects, audit>> /\ spent' = spent + attempt.tokens
  BY DEF AgentType, AL!Finish
<1>2. CASE AL!Met
  <2>1. result' = "completed" /\ attempt' = [attempt EXCEPT !.pc = "over"]
    BY <1>2 DEF AL!Finish
  <2>. QED
    BY Zenon, <1>1, <1>2, <2>1 DEF AttemptType, Pcs
<1>3. CASE ~AL!Met
  BY Zenon, <1>1, <1>3 DEF AL!Finish
<1>. QED
  BY Zenon, <1>2, <1>3

\* Every step keeps the types.
LEMMA AgentTypeStep ==
  ASSUME AgentType, BoundInv, OnRecordInv, AL!Next
  PROVE  AgentType'
<1>0. step' = step /\ memory' = memory
  BY Zenon DEF AL!Next, AL!Begin, AL!Ask, AL!ModelFails, AL!ModelAnswers, AL!Dispatch, AL!Answered, AL!AuditCall,
         AL!Finish, AL!Cut
<1>1. attempt' \in AttemptType
  <2>1. CASE AL!ModelFails
    <3>1. AL!Fail(FALSE) \/ attempt' \in AttemptType
      BY Zenon, <2>1, ModelFailsFacts
    <3>. QED
      BY Zenon, <3>1, FailFacts
  <2>2. CASE AL!Finish
    <3>1. AL!Fail(TRUE) \/ attempt' \in AttemptType
      BY Zenon, <2>2, FinishFacts
    <3>2. AL!Fail(TRUE) => attempt' \in AttemptType
      BY Zenon, FailFacts
    <3>. QED
      BY Zenon, <3>1, <3>2
  <2>3. CASE AL!Cut
    <3>1. AL!Fail(TRUE)
      BY Zenon, <2>3 DEF AL!Cut
    <3>2. AL!Fail(TRUE) => attempt' \in AttemptType
      BY Zenon, FailFacts
    <3>. QED
      BY <3>1, <3>2
  <2>4. CASE AL!Answered
    <3>1. attempt' = [attempt EXCEPT !.pc = "ask"]
      BY <2>4 DEF AL!Answered
    <3>. QED
      BY <3>1, AttemptFacts DEF AttemptType, Pcs
  <2>. QED
    BY Zenon, <2>1, <2>2, <2>3, <2>4, BeginFacts, AskFacts, AnswerFacts, DispatchFacts, AuditFacts DEF AL!Next
<1>2. left' \in Nat /\ left' <= step.retries + 1
  <2>1. left' = left \/ (left > 0 /\ left' = left - 1)
    BY Zenon DEF AL!Next, AL!Begin, AL!Ask, AL!ModelFails, AL!ModelAnswers, AL!Dispatch, AL!Answered, AL!AuditCall,
           AL!Finish, AL!Cut
  <2>. QED
    BY <2>1, StepFacts DEF AgentType
<1>3. effects' \in Seq(EffectType)
  <2>1. effects \in Seq(EffectType)
    BY DEF AgentType
  <2>2. CASE AL!Dispatch
    <3>1. effects' = effects \/ \E e \in EffectType : effects' = Append(effects, e)
      BY <2>2, DispatchFacts
    <3>. QED
      BY <2>1, <3>1, Appended
  <2>3. CASE ~AL!Dispatch
    BY Zenon, <2>1, <2>3 DEF AL!Next, AL!Begin, AL!Ask, AL!ModelFails, AL!ModelAnswers, AL!Answered, AL!AuditCall,
                      AL!Finish, AL!Cut
  <2>. QED
    BY <2>2, <2>3
<1>4. audit' \in Seq(EntryType)
  <2>1. audit \in Seq(EntryType)
    BY DEF AgentType
  <2>2. CASE AL!AuditCall
    <3>1. \E e \in EntryType : audit' = Append(audit, e)
      BY Zenon, <2>2, AuditFacts
    <3>. QED
      BY <2>1, <3>1, Appended
  <2>3. CASE ~AL!AuditCall
    BY Zenon, <2>1, <2>3 DEF AL!Next, AL!Begin, AL!Ask, AL!ModelFails, AL!ModelAnswers, AL!Answered, AL!Dispatch,
                      AL!Finish, AL!Cut
  <2>. QED
    BY <2>2, <2>3
<1>5. spent' \in Nat
  <2>1. spent' = spent \/ spent' = spent + attempt.tokens
    BY Zenon DEF AL!Next, AL!Begin, AL!Ask, AL!ModelFails, AL!ModelAnswers, AL!Dispatch, AL!Answered, AL!AuditCall,
           AL!Finish, AL!Cut
  <2>. QED
    BY <2>1, AttemptFacts DEF AgentType
<1>6. result' \in {"none", "completed", "failed"}
  BY Zenon DEF AL!Next, AL!Begin, AL!Ask, AL!ModelFails, AL!ModelAnswers, AL!Dispatch, AL!Answered, AL!AuditCall,
         AL!Finish, AL!Cut, AL!Fail, AgentType
<1>. QED
  BY <1>0, <1>1, <1>2, <1>3, <1>4, <1>5, <1>6 DEF AgentType

\* Every step keeps BoundInv.
LEMMA BoundStep ==
  ASSUME AgentType, BoundInv, OnRecordInv, AL!Next
  PROVE  BoundInv'
<1>0. effects \in Seq(EffectType)
  BY DEF AgentType
<1>1. ASSUME AL!Fail(TRUE) \/ AL!Fail(FALSE), UNCHANGED <<step, effects>>
      PROVE  BoundInv'
  <2>1. attempt'.pc \in {"ready", "over"} /\ attempt'.prompt = {}
    <3>1. AL!Fail(TRUE) => attempt'.pc \in {"ready", "over"} /\ attempt'.prompt = {}
      BY Zenon, FailFacts
    <3>2. AL!Fail(FALSE) => attempt'.pc \in {"ready", "over"} /\ attempt'.prompt = {}
      BY Zenon, FailFacts
    <3>. QED
      BY Zenon, <1>1, <3>1, <3>2
  <2>. QED
    BY <1>1, <2>1 DEF BoundInv
<1>2. CASE AL!Begin
  <2>1. /\ UNCHANGED <<step, effects>> /\ attempt'.pc # "tools"
        /\ step.minimized => "mail" \notin attempt'.prompt
        /\ step.pin = "missing" => attempt'.pc \in {"ready", "over"}
    BY <1>2, BeginFacts
  <2>. QED
    BY <2>1 DEF BoundInv
<1>3. CASE AL!Ask
  <2>1. UNCHANGED <<step, effects>> /\ attempt'.pc # "tools" /\ attempt'.prompt = attempt.prompt /\ attempt.pc = "ask"
    BY <1>3, AskFacts
  <2>. QED
    BY <2>1 DEF BoundInv
<1>4. CASE AL!ModelFails
  <2>1. CASE AL!Fail(FALSE)
    BY <1>1, <1>4, <2>1, ModelFailsFacts
  <2>2. CASE ~AL!Fail(FALSE)
    <3>1. UNCHANGED <<step, effects>> /\ attempt'.pc = "model" /\ attempt'.prompt = attempt.prompt /\ attempt.pc = "model"
      BY Zenon, <1>4, <2>2, ModelFailsFacts
    <3>. QED
      BY <3>1 DEF BoundInv
  <2>. QED
    BY Zenon, <2>1, <2>2
<1>5. CASE AL!ModelAnswers
  <2>1. /\ UNCHANGED <<step, effects>> /\ attempt'.prompt = attempt.prompt /\ attempt.pc = "model"
        /\ attempt'.pc = "tools" => attempt'.todo \in Seq(AL!Uses)
    BY <1>5, AnswerFacts
  <2>. QED
    BY <2>1 DEF BoundInv
<1>6. CASE AL!Dispatch
  <2>1. /\ step' = step /\ attempt'.prompt = attempt.prompt /\ attempt.pc = "tools"
        /\ attempt'.todo \in Seq(AL!Uses)
    BY <1>6, DispatchFacts
  <2>2. step.pin # "missing"
    BY <2>1 DEF BoundInv
  <2>3. \/ effects' = effects
        \/ \E e \in EffectType : /\ effects' = Append(effects, e)
                                 /\ e.tool \in step.tools \cap step.allowed
                                 /\ step.pin = "resolves" => e.value = "pinned"
    BY <1>6, DispatchFacts
  <2>4. \A i \in DOMAIN effects' :
          /\ effects'[i].tool \in step.tools \cap step.allowed
          /\ step.pin # "none" => effects'[i].value = "pinned"
    <3>1. CASE effects' = effects
      BY <3>1 DEF BoundInv
    <3>2. CASE \E e \in EffectType : /\ effects' = Append(effects, e)
                                     /\ e.tool \in step.tools \cap step.allowed
                                     /\ step.pin = "resolves" => e.value = "pinned"
      <4>1. PICK e \in EffectType : /\ effects' = Append(effects, e)
                                    /\ e.tool \in step.tools \cap step.allowed
                                    /\ step.pin = "resolves" => e.value = "pinned"
        BY <3>2
      <4>2. /\ DOMAIN effects' = DOMAIN effects \cup {Len(effects) + 1}
            /\ \A i \in DOMAIN effects : effects'[i] = effects[i]
            /\ effects'[Len(effects) + 1] = e
        BY <1>0, <4>1, Appended
      <4>3. step.pin # "none" => step.pin = "resolves"
        BY <2>2, StepFacts
      <4>. QED
        BY <4>1, <4>2, <4>3 DEF BoundInv
    <3>. QED
      BY <2>3, <3>1, <3>2
  <2>. QED
    BY <2>1, <2>2, <2>4 DEF BoundInv
<1>7. CASE AL!Answered
  <2>1. /\ UNCHANGED <<step, effects>> /\ attempt.pc = "tools" /\ attempt'.pc = "ask"
        /\ attempt'.prompt = attempt.prompt
    BY <1>7, AttemptFacts DEF AL!Answered, AttemptType
  <2>. QED
    BY <2>1 DEF BoundInv
<1>8. CASE AL!AuditCall
  <2>1. UNCHANGED <<step, effects>> /\ attempt'.pc = "audit" /\ attempt.pc = "audit" /\ attempt'.prompt = attempt.prompt
    BY <1>8, AuditFacts
  <2>. QED
    BY <2>1 DEF BoundInv
<1>9. CASE AL!Finish
  <2>1. CASE AL!Fail(TRUE)
    BY <1>1, <1>9, <2>1, FinishFacts
  <2>2. CASE ~AL!Fail(TRUE)
    <3>1. UNCHANGED <<step, effects>> /\ attempt'.pc = "over" /\ attempt'.prompt = attempt.prompt
      BY Zenon, <1>9, <2>2, FinishFacts
    <3>. QED
      BY <3>1 DEF BoundInv
  <2>. QED
    BY Zenon, <2>1, <2>2
<1>10. CASE AL!Cut
  BY <1>1, <1>10 DEF AL!Cut
<1>. QED
  BY <1>2, <1>3, <1>4, <1>5, <1>6, <1>7, <1>8, <1>9, <1>10 DEF AL!Next

\* What can be counted of an attempt.
LEMMA CountFacts ==
  ASSUME AgentType
  PROVE  /\ \A n : IsFiniteSet(ActsOf(n)) /\ Cardinality(ActsOf(n)) \in Nat
         /\ \A n : IsFiniteSet(EntriesOf(n)) /\ Cardinality(EntriesOf(n)) \in Nat
         /\ IsFiniteSet(ActingCalls) /\ IsFiniteSet(Noted)
<1>1. ASSUME NEW n
      PROVE  IsFiniteSet(ActsOf(n)) /\ Cardinality(ActsOf(n)) \in Nat
  <2>1. ActsOf(n) \subseteq DOMAIN effects /\ effects \in Seq(EffectType)
    BY DEF ActsOf, AgentType
  <2>. QED
    BY <2>1, IndexesAreFinite
<1>2. ASSUME NEW n
      PROVE  IsFiniteSet(EntriesOf(n)) /\ Cardinality(EntriesOf(n)) \in Nat
  <2>1. EntriesOf(n) \subseteq DOMAIN audit /\ audit \in Seq(EntryType)
    BY DEF EntriesOf, AgentType
  <2>. QED
    BY <2>1, IndexesAreFinite
<1>3. ASSUME NEW A, A \subseteq DOMAIN attempt.calls
      PROVE  IsFiniteSet(A)
  BY <1>3, AttemptFacts, IndexesAreFinite
<1>4. ActingCalls \subseteq DOMAIN attempt.calls /\ Noted \subseteq DOMAIN attempt.calls
  BY Zenon DEF ActingCalls, Noted
<1>. QED
  BY <1>1, <1>2, <1>3, <1>4

\* Every step keeps OnRecordInv.
LEMMA OnRecordStep ==
  ASSUME AgentType, AgentType', BoundInv, OnRecordInv, AL!Next
  PROVE  OnRecordInv'
<1>0. /\ effects \in Seq(EffectType) /\ audit \in Seq(EntryType) /\ attempt.calls \in Seq(CallType)
      /\ attempt.todo \in Seq(AL!Uses \cup CallType) /\ Number \in Nat
  BY AttemptFacts DEF AgentType
<1>1. ASSUME UNCHANGED <<step, left, effects, audit>>, attempt'.pc \in {"ready", "over"}
      PROVE  OnRecordInv'
  BY <1>1 DEF OnRecordInv, Number, Going
<1>2. ASSUME AL!Fail(TRUE) \/ AL!Fail(FALSE)
      PROVE  attempt'.pc \in {"ready", "over"}
  <2>1. AL!Fail(TRUE) => attempt'.pc \in {"ready", "over"}
    BY Zenon, FailFacts
  <2>2. AL!Fail(FALSE) => attempt'.pc \in {"ready", "over"}
    BY Zenon, FailFacts
  <2>. QED
    BY Zenon, <1>2, <2>1, <2>2
<1>3. ASSUME UNCHANGED <<step, left, effects, audit>>, attempt'.calls = attempt.calls,
             attempt'.pc \in {"ask", "model", "tools"}, attempt.pc \in {"ask", "model", "tools"}
      PROVE  OnRecordInv'
  <2>1. Number' = Number /\ ActsOf(Number)' = ActsOf(Number) /\ ActingCalls' = ActingCalls
    BY <1>3 DEF Number, ActsOf, ActingCalls
  <2>2. Cardinality(ActsOf(Number)') = Cardinality(ActingCalls')
    BY <1>3, <2>1 DEF OnRecordInv, Going
  <2>3. /\ \A i \in DOMAIN effects' : effects'[i].attempt <= Number'
        /\ \A i \in DOMAIN audit' : audit'[i].attempt <= Number'
        /\ \A i \in DOMAIN audit' : audit'[i].attempt # Number'
    BY <1>3, <2>1 DEF OnRecordInv
  <2>4. \A i \in DOMAIN attempt'.calls :
          /\ attempt'.calls[i].ok => attempt'.calls[i].acted
          /\ attempt'.calls[i].acted =>
               \E j \in DOMAIN effects' : effects'[j].attempt = Number' /\ effects'[j].tool = attempt'.calls[i].tool
    BY <1>3, <2>1 DEF OnRecordInv, Going
  <2>. QED
    BY <1>3, <2>2, <2>3, <2>4 DEF OnRecordInv
<1>4. ASSUME UNCHANGED <<step, left, effects, audit>>, attempt'.calls = attempt.calls,
             attempt'.pc = "audit", attempt.pc \in {"ask", "model"}, attempt'.todo = attempt.calls
      PROVE  OnRecordInv'
  <2>1. Number' = Number /\ ActsOf(Number)' = ActsOf(Number) /\ ActingCalls' = ActingCalls
    BY <1>4 DEF Number, ActsOf, ActingCalls
  <2>2. Cardinality(ActsOf(Number)') = Cardinality(ActingCalls')
    BY <1>4, <2>1 DEF OnRecordInv, Going
  <2>3. /\ \A i \in DOMAIN effects' : effects'[i].attempt <= Number'
        /\ \A i \in DOMAIN audit' : audit'[i].attempt <= Number'
    BY <1>4, <2>1 DEF OnRecordInv
  <2>4. \A i \in DOMAIN attempt'.calls :
          /\ attempt'.calls[i].ok => attempt'.calls[i].acted
          /\ attempt'.calls[i].acted =>
               \E j \in DOMAIN effects' : effects'[j].attempt = Number' /\ effects'[j].tool = attempt'.calls[i].tool
    BY <1>4, <2>1 DEF OnRecordInv, Going
  <2>5. Len(attempt.calls) \in Nat /\ DOMAIN attempt.calls = 1 .. Len(attempt.calls)
    BY <1>0
  <2>6. /\ Len(attempt'.todo) <= Len(attempt'.calls)
        /\ \A i \in DOMAIN attempt'.todo :
             attempt'.todo[i] = attempt'.calls[Len(attempt'.calls) - Len(attempt'.todo) + i]
    BY <1>4, <2>5
  <2>7. Noted' = {}
    BY <1>4, <2>5 DEF Noted, ActingCalls
  <2>8. EntriesOf(Number)' = {}
    BY <1>4, <2>1 DEF EntriesOf, OnRecordInv
  <2>9. Cardinality(EntriesOf(Number)') = Cardinality(Noted')
    BY <2>7, <2>8
  <2>. QED
    BY <1>4, <2>2, <2>3, <2>4, <2>6, <2>9 DEF OnRecordInv
<1>5. CASE AL!Begin
  <2>1. UNCHANGED <<step, effects, audit>> /\ left' = left - 1 /\ left > 0 /\ attempt'.pc \in {"over", "ask"}
    BY <1>5, BeginFacts
  <2>2. Number' = Number + 1
    BY <2>1, StepFacts DEF Number, AgentType
  <2>3. /\ \A i \in DOMAIN effects : effects[i].attempt \in Nat /\ effects[i].attempt <= Number
        /\ \A i \in DOMAIN audit : audit[i].attempt \in Nat /\ audit[i].attempt <= Number
    <3>1. /\ \A i \in DOMAIN effects : effects[i] \in EffectType
          /\ \A i \in DOMAIN audit : audit[i] \in EntryType
      BY <1>0
    <3>. QED
      BY <3>1 DEF OnRecordInv, EffectType, EntryType
  <2>4. /\ \A i \in DOMAIN effects' : effects'[i].attempt <= Number' /\ effects'[i].attempt # Number'
        /\ \A i \in DOMAIN audit' : audit'[i].attempt <= Number' /\ audit'[i].attempt # Number'
    BY <1>0, <2>1, <2>2, <2>3
  <2>5. CASE attempt'.pc = "over"
    BY <2>4, <2>5 DEF OnRecordInv, Going
  <2>6. CASE attempt'.pc = "ask"
    <3>1. attempt'.calls = <<>>
      BY <1>5, <2>6, BeginFacts
    <3>2. ActsOf(Number)' = {} /\ ActingCalls' = {}
      BY <2>4, <3>1 DEF ActsOf, ActingCalls
    <3>3. Cardinality(ActsOf(Number)') = Cardinality(ActingCalls')
      BY <3>2
    <3>. QED
      BY <2>4, <2>6, <3>1, <3>3 DEF OnRecordInv
  <2>. QED
    BY <2>1, <2>5, <2>6
<1>6. CASE AL!Ask
  <2>1. /\ UNCHANGED <<step, left, effects, audit>> /\ attempt'.calls = attempt.calls /\ attempt.pc = "ask"
        /\ attempt'.pc = "model" \/ (attempt'.pc = "audit" /\ attempt'.todo = attempt.calls)
    BY <1>6, AskFacts
  <2>. QED
    BY <1>3, <1>4, <2>1
<1>7. CASE AL!ModelFails
  <2>1. UNCHANGED <<step, left, effects, audit>> /\ attempt.pc = "model"
    BY <1>7, ModelFailsFacts
  <2>2. AL!Fail(FALSE) \/ (attempt'.pc = "model" /\ attempt'.calls = attempt.calls)
    BY Zenon, <1>7, ModelFailsFacts
  <2>. QED
    BY Zenon, <1>1, <1>2, <1>3, <2>1, <2>2
<1>8. CASE AL!ModelAnswers
  <2>1. /\ UNCHANGED <<step, left, effects, audit>> /\ attempt'.calls = attempt.calls /\ attempt.pc = "model"
        /\ attempt'.pc = "tools" \/ (attempt'.pc = "audit" /\ attempt'.todo = attempt.calls)
    BY <1>8, AnswerFacts
  <2>. QED
    BY <1>3, <1>4, <2>1
<1>9. CASE AL!Answered
  <2>1. /\ UNCHANGED <<step, left, effects, audit>> /\ attempt.pc = "tools" /\ attempt'.pc = "ask"
        /\ attempt'.calls = attempt.calls
    BY <1>9, AttemptFacts DEF AL!Answered, AttemptType
  <2>. QED
    BY <1>3, <2>1
<1>10. CASE AL!Finish
  <2>1. UNCHANGED <<step, left, effects, audit>> /\ (attempt'.pc = "over" \/ AL!Fail(TRUE))
    BY Zenon, <1>10, FinishFacts
  <2>. QED
    BY Zenon, <1>1, <1>2, <2>1
<1>11. CASE AL!Cut
  BY <1>1, <1>2, <1>11 DEF AL!Cut
<1>12. CASE AL!Dispatch
  <2>1. /\ UNCHANGED <<step, left, audit>> /\ attempt.pc = "tools" /\ attempt'.pc = "tools" /\ Number' = Number
    BY <1>12, DispatchFacts DEF Number
  <2>2. PICK c \in CallType :
          /\ attempt'.calls = Append(attempt.calls, c) /\ (c.ok => c.acted)
          /\ ~c.acted => effects' = effects
          /\ c.acted => \E e \in EffectType : effects' = Append(effects, e) /\ e.attempt = Number /\ e.tool = c.tool
    BY <1>12, DispatchFacts
  <2> DEFINE n == Len(attempt.calls) + 1
  <2>3. /\ DOMAIN attempt'.calls = DOMAIN attempt.calls \cup {n} /\ n \notin DOMAIN attempt.calls
        /\ \A i \in DOMAIN attempt.calls : attempt'.calls[i] = attempt.calls[i]
        /\ attempt'.calls[n] = c
    BY <1>0, <2>2, Appended
  <2> HIDE DEF n
  <2>4. c.acted \in BOOLEAN
    BY DEF CallType
  <2>5. /\ \A i \in DOMAIN audit' : audit'[i].attempt <= Number' /\ audit'[i].attempt # Number'
    BY <2>1 DEF OnRecordInv
  <2>6. /\ \A i \in DOMAIN effects : effects[i].attempt <= Number
        /\ Cardinality(ActsOf(Number)) = Cardinality(ActingCalls)
        /\ \A i \in DOMAIN attempt.calls :
             /\ attempt.calls[i].ok => attempt.calls[i].acted
             /\ attempt.calls[i].acted =>
                  \E j \in DOMAIN effects : effects[j].attempt = Number /\ effects[j].tool = attempt.calls[i].tool
    BY <2>1 DEF OnRecordInv, Going
  <2>7. CASE ~c.acted
    <3>1. effects' = effects /\ ~c.ok
      BY <2>2, <2>7
    <3>2. ActsOf(Number)' = ActsOf(Number)
      BY <2>1, <3>1 DEF ActsOf
    <3>3. ActingCalls' = ActingCalls
      BY <2>3, <2>7 DEF ActingCalls
    <3>4. Cardinality(ActsOf(Number)') = Cardinality(ActingCalls')
      BY <2>6, <3>2, <3>3
    <3>5. \A i \in DOMAIN attempt'.calls :
            /\ attempt'.calls[i].ok => attempt'.calls[i].acted
            /\ attempt'.calls[i].acted =>
                 \E j \in DOMAIN effects' : effects'[j].attempt = Number' /\ effects'[j].tool = attempt'.calls[i].tool
      BY <2>1, <2>3, <2>6, <2>7, <3>1
    <3>6. \A i \in DOMAIN effects' : effects'[i].attempt <= Number'
      BY <2>1, <2>6, <3>1
    <3>. QED
      BY <2>1, <2>5, <3>4, <3>5, <3>6 DEF OnRecordInv
  <2>8. CASE c.acted
    <3>1. PICK e \in EffectType : effects' = Append(effects, e) /\ e.attempt = Number /\ e.tool = c.tool
      BY <2>2, <2>8
    <3> DEFINE m == Len(effects) + 1
    <3>2. /\ DOMAIN effects' = DOMAIN effects \cup {m} /\ m \notin DOMAIN effects
          /\ \A i \in DOMAIN effects : effects'[i] = effects[i]
          /\ effects'[m] = e
      BY <1>0, <3>1, Appended
    <3> HIDE DEF m
    <3>3. ActsOf(Number)' = ActsOf(Number) \cup {m} /\ m \notin ActsOf(Number)
      BY <2>1, <3>1, <3>2 DEF ActsOf
    <3>4. ActingCalls' = ActingCalls \cup {n} /\ n \notin ActingCalls
      BY <2>3, <2>8 DEF ActingCalls
    <3>5. Cardinality(ActsOf(Number)') = Cardinality(ActsOf(Number)) + 1
      BY <3>3, CountFacts, OneMore
    <3>6. Cardinality(ActingCalls') = Cardinality(ActingCalls) + 1
      BY <3>4, CountFacts, OneMore
    <3>7. Cardinality(ActsOf(Number)') = Cardinality(ActingCalls')
      BY <2>6, <3>5, <3>6
    <3>8. ASSUME NEW i \in DOMAIN attempt'.calls
          PROVE  /\ attempt'.calls[i].ok => attempt'.calls[i].acted
                 /\ attempt'.calls[i].acted =>
                      \E j \in DOMAIN effects' :
                        effects'[j].attempt = Number' /\ effects'[j].tool = attempt'.calls[i].tool
      <4>1. CASE i = n
        BY <2>1, <2>2, <2>3, <2>8, <3>1, <3>2, <4>1
      <4>2. CASE i \in DOMAIN attempt.calls
        <5>1. attempt'.calls[i] = attempt.calls[i] /\ \A j \in DOMAIN effects : j \in DOMAIN effects' /\ effects'[j] = effects[j]
          BY <2>3, <3>2, <4>2
        <5>. QED
          BY <2>1, <2>6, <4>2, <5>1
      <4>. QED
        BY <2>3, <4>1, <4>2
    <3>9. \A i \in DOMAIN effects' : effects'[i].attempt <= Number'
      BY <1>0, <2>1, <2>6, <3>1, <3>2
    <3>. QED
      BY <2>1, <2>5, <3>7, <3>8, <3>9 DEF OnRecordInv
  <2>. QED
    BY <2>4, <2>7, <2>8
<1>13. CASE AL!AuditCall
  <2> DEFINE k == Len(attempt.calls) - Len(attempt.todo) + 1
  <2>1. /\ UNCHANGED <<step, left, effects>> /\ attempt.pc = "audit" /\ attempt'.pc = "audit" /\ Number' = Number
        /\ attempt'.calls = attempt.calls /\ attempt'.todo = Tail(attempt.todo) /\ attempt.todo # <<>>
    BY <1>13, AuditFacts DEF Number
  <2>2. PICK e \in EntryType : audit' = Append(audit, e) /\ e.attempt = Number /\ e.acted = attempt.calls[k].acted
    BY Zenon, <1>13, AuditFacts
  <2> DEFINE n == Len(audit) + 1
  <2>3. /\ DOMAIN audit' = DOMAIN audit \cup {n} /\ n \notin DOMAIN audit
        /\ \A i \in DOMAIN audit : audit'[i] = audit[i]
        /\ audit'[n] = e
    BY <1>0, <2>2, Appended
  <2> HIDE DEF n
  <2>4. /\ Len(attempt.todo) <= Len(attempt.calls)
        /\ \A i \in DOMAIN attempt.todo :
             attempt.todo[i] = attempt.calls[Len(attempt.calls) - Len(attempt.todo) + i]
        /\ Cardinality(EntriesOf(Number)) = Cardinality(Noted)
    BY <2>1 DEF OnRecordInv
  <2>5. /\ Len(attempt.todo) \in Nat /\ Len(attempt.calls) \in Nat /\ Len(attempt.todo) >= 1
        /\ Len(attempt'.todo) = Len(attempt.todo) - 1 /\ DOMAIN attempt.calls = 1 .. Len(attempt.calls)
        /\ \A i \in DOMAIN attempt'.todo : i + 1 \in DOMAIN attempt.todo /\ attempt'.todo[i] = attempt.todo[i + 1] /\ i \in Nat
    BY <1>0, <2>1
  <2> DEFINE m == Len(attempt.calls)
             q == Len(attempt.todo)
  <2>6. /\ m \in Nat /\ q \in Nat /\ q >= 1 /\ q <= m /\ k = m - q + 1 /\ DOMAIN attempt.calls = 1 .. m
        /\ Len(attempt'.todo) = q - 1 /\ Len(attempt'.calls) = m
        /\ \A i \in DOMAIN attempt.todo : attempt.todo[i] = attempt.calls[m - q + i]
    BY <2>1, <2>4, <2>5
  <2> HIDE DEF m, q, k
  <2>16. k \in DOMAIN attempt.calls /\ k \in Nat /\ k = Len(attempt'.calls) - Len(attempt'.todo) /\ k - 1 = m - q
    BY <2>6
  <2>7. /\ Len(attempt'.todo) <= Len(attempt'.calls)
        /\ \A i \in DOMAIN attempt'.todo :
             attempt'.todo[i] = attempt'.calls[Len(attempt'.calls) - Len(attempt'.todo) + i]
    <3>1. Len(attempt'.todo) <= Len(attempt'.calls)
      BY <2>6
    <3>2. ASSUME NEW i \in DOMAIN attempt'.todo
          PROVE  attempt'.todo[i] = attempt'.calls[Len(attempt'.calls) - Len(attempt'.todo) + i]
      <4>1. attempt'.todo[i] = attempt.calls[m - q + (i + 1)] /\ i \in Nat
        BY <2>5, <2>6
      <4>2. m - q + (i + 1) = Len(attempt'.calls) - Len(attempt'.todo) + i
        BY <2>6, <4>1
      <4>. QED
        BY Zenon, <2>1, <4>1, <4>2
    <3>. QED
      BY <3>1, <3>2
  <2>8. Noted' = IF attempt.calls[k].acted THEN Noted \cup {k} ELSE Noted
    <3>1. Noted' = {i \in ActingCalls : i <= k}
      BY <2>1, <2>16 DEF Noted, ActingCalls
    <3>2. Noted = {i \in ActingCalls : i <= k - 1}
      BY Zenon, <2>16 DEF Noted, m, q
    <3>3. \A i \in ActingCalls : i \in Nat
      BY <2>6 DEF ActingCalls
    <3>4. k \in ActingCalls <=> attempt.calls[k].acted
      BY Zenon, <2>16 DEF ActingCalls
    <3>5. \A i \in ActingCalls : (i <= k => i <= k - 1 \/ i = k) /\ (i <= k - 1 => i <= k) /\ (i = k => i <= k)
      <4>1. \A i, j \in Nat : (i <= j => i <= j - 1 \/ i = j) /\ (i <= j - 1 => i <= j) /\ (i = j => i <= j)
        OBVIOUS
      <4>. QED
        BY Zenon, <2>16, <3>3, <4>1
    <3>6. ~(k <= k - 1)
      BY <2>16
    <3>. QED
      BY <3>1, <3>2, <3>4, <3>5, <3>6
  <2>9. k \notin Noted
    <3>1. Noted = {i \in ActingCalls : i <= k - 1}
      BY Zenon, <2>16 DEF Noted, m, q
    <3>2. ~(k <= k - 1)
      BY <2>16
    <3>. QED
      BY <3>1, <3>2
  <2>10. EntriesOf(Number)' = IF e.acted THEN EntriesOf(Number) \cup {n} ELSE EntriesOf(Number)
    BY <2>1, <2>2, <2>3 DEF EntriesOf
  <2>11. n \notin EntriesOf(Number)
    BY <2>3 DEF EntriesOf
  <2>12. Cardinality(EntriesOf(Number)') = Cardinality(Noted')
    <3>1. CASE e.acted
      <4>1. Cardinality(EntriesOf(Number)') = Cardinality(EntriesOf(Number)) + 1
        <5>1. EntriesOf(Number)' = EntriesOf(Number) \cup {n}
          BY <2>10, <3>1
        <5>. QED
          BY <2>11, <5>1, CountFacts, OneMore
      <4>2. Cardinality(Noted') = Cardinality(Noted) + 1
        <5>1. Noted' = Noted \cup {k}
          BY <2>2, <2>8, <3>1
        <5>. QED
          BY <2>9, <5>1, CountFacts, OneMore
      <4>. QED
        BY <2>4, <4>1, <4>2
    <3>2. CASE ~e.acted
      <4>1. EntriesOf(Number)' = EntriesOf(Number) /\ Noted' = Noted
        BY <2>2, <2>8, <2>10, <3>2
      <4>. QED
        BY <2>4, <4>1
    <3>. QED
      BY <3>1, <3>2
  <2>13. ActsOf(Number)' = ActsOf(Number) /\ ActingCalls' = ActingCalls
    BY <2>1 DEF ActsOf, ActingCalls
  <2>14. /\ \A i \in DOMAIN effects' : effects'[i].attempt <= Number'
         /\ Cardinality(ActsOf(Number)') = Cardinality(ActingCalls')
         /\ \A i \in DOMAIN attempt'.calls :
              /\ attempt'.calls[i].ok => attempt'.calls[i].acted
              /\ attempt'.calls[i].acted =>
                   \E j \in DOMAIN effects' : effects'[j].attempt = Number' /\ effects'[j].tool = attempt'.calls[i].tool
    BY <2>1, <2>13 DEF OnRecordInv, Going
  <2>15. \A i \in DOMAIN audit' : audit'[i].attempt <= Number'
    BY <1>0, <2>1, <2>2, <2>3 DEF OnRecordInv
  <2>. QED
    BY <2>1, <2>7, <2>12, <2>14, <2>15 DEF OnRecordInv
<1>. QED
  BY <1>5, <1>6, <1>7, <1>8, <1>9, <1>10, <1>11, <1>12, <1>13 DEF AL!Next

\* A call that met the requirement, found among the effects.
LEMMA MetFacts ==
  ASSUME AgentType, OnRecordInv, attempt.pc \in Going, AL!Met
  PROVE  \A t \in step.required : \E i \in DOMAIN effects : effects[i].attempt = Number /\ effects[i].tool = t
<1> DEFINE good == {i \in DOMAIN attempt.calls : attempt.calls[i].tool \in step.required /\ attempt.calls[i].ok}
<1>1. SUFFICES ASSUME NEW t \in step.required
               PROVE  \E i \in DOMAIN effects : effects[i].attempt = Number /\ effects[i].tool = t
  OBVIOUS
<1>2. step.required = {t}
  BY StepFacts
<1>3. Cardinality(step.required) = 1
  BY <1>2, FS_Singleton
<1>4. Cardinality(good) >= 1
  BY <1>3, AgentCardinality DEF AL!Met
<1> HIDE DEF good
<1>5. good # {}
  <2>1. Cardinality({}) = 0
    BY FS_EmptySet
  <2>. QED
    BY <1>4, <2>1
<1>6. PICK i \in DOMAIN attempt.calls : attempt.calls[i].tool = t /\ attempt.calls[i].ok
  BY <1>2, <1>5 DEF good
<1>. QED
  BY <1>6 DEF OnRecordInv

\* Every step keeps BudgetInv.
LEMMA BudgetStep ==
  ASSUME AgentType, BoundInv, OnRecordInv, BudgetInv, AL!Next
  PROVE  BudgetInv'
<1>0. /\ attempt.tokens \in Nat /\ attempt.turns \in Nat /\ spent \in Nat
      /\ step.maxTokens \in Nat /\ step.maxTurns \in Nat /\ AnswerCost \in Nat
  BY AttemptFacts, StepFacts DEF AgentType
<1>1. ASSUME AL!Fail(TRUE) \/ AL!Fail(FALSE), result = "none"
      PROVE  BudgetInv'
  <2>1. /\ attempt'.pc \in {"ready", "over"} /\ result' \in {result, "failed"}
        /\ attempt'.pc = "ready" => result' = result
    <3>1. ASSUME AL!Fail(TRUE)
          PROVE  /\ attempt'.pc \in {"ready", "over"} /\ result' \in {result, "failed"}
                 /\ attempt'.pc = "ready" => result' = result
      <4>1. attempt'.pc \in {"ready", "over"} /\ (attempt'.pc = "ready" => result' = result /\ left > 0)
        BY Zenon, <3>1, FailFacts
      <4>2. result' \in {result, "failed"}
        BY <3>1 DEF AL!Fail
      <4>. QED
        BY <4>1, <4>2
    <3>2. ASSUME AL!Fail(FALSE)
          PROVE  /\ attempt'.pc \in {"ready", "over"} /\ result' \in {result, "failed"}
                 /\ attempt'.pc = "ready" => result' = result
      <4>1. attempt'.pc \in {"ready", "over"} /\ (attempt'.pc = "ready" => result' = result /\ left > 0)
        BY Zenon, <3>2, FailFacts
      <4>2. result' \in {result, "failed"}
        BY <3>2 DEF AL!Fail
      <4>. QED
        BY <4>1, <4>2
    <3>. QED
      BY Zenon, <1>1, <3>1, <3>2
  <2>. QED
    BY <1>1, <2>1 DEF BudgetInv, Going
<1>2. attempt.pc # "over" => result = "none"
  BY DEF BudgetInv
<1>3. ASSUME UNCHANGED <<step, result>>, attempt'.pc # "over", result = "none",
             attempt'.tokens <= step.maxTokens + AnswerCost, attempt'.turns <= step.maxTurns,
             attempt'.pc = "model" => attempt'.tokens <= step.maxTokens /\ attempt'.turns < step.maxTurns
      PROVE  BudgetInv'
  BY <1>3 DEF BudgetInv
<1>4. CASE AL!Begin
  <2>1. step' = step /\ attempt.pc = "ready"
    BY <1>4, BeginFacts
  <2>2. CASE attempt'.pc = "over" /\ result' = "failed"
    BY <2>2 DEF BudgetInv, Going
  <2>3. CASE attempt'.pc = "ask" /\ result' = result /\ attempt'.turns = 0 /\ attempt'.tokens = 0
    BY <1>0, <1>2, <1>3, <2>1, <2>3
  <2>. QED
    BY <1>4, <2>2, <2>3, BeginFacts
<1>5. CASE AL!Ask
  <2>1. /\ UNCHANGED <<step, result>> /\ attempt.pc = "ask" /\ attempt'.pc \in {"model", "audit"}
        /\ attempt'.tokens = attempt.tokens /\ attempt'.turns = attempt.turns
        /\ attempt'.pc = "model" => attempt.tokens <= step.maxTokens /\ attempt.turns < step.maxTurns
    BY <1>5, AskFacts
  <2>2. attempt.tokens <= step.maxTokens + AnswerCost /\ attempt.turns <= step.maxTurns
    BY <2>1 DEF BudgetInv, Going
  <2>. QED
    BY <1>2, <1>3, <2>1, <2>2
<1>6. CASE AL!ModelFails
  <2>1. attempt.pc = "model" /\ step' = step
    BY <1>6, ModelFailsFacts
  <2>2. CASE AL!Fail(FALSE)
    BY <1>1, <1>2, <2>1, <2>2
  <2>3. CASE /\ attempt'.pc = "model" /\ result' = result
             /\ attempt'.turns = attempt.turns /\ attempt'.tokens = attempt.tokens
    <3>1. /\ attempt.tokens <= step.maxTokens + AnswerCost /\ attempt.turns <= step.maxTurns
          /\ attempt.tokens <= step.maxTokens /\ attempt.turns < step.maxTurns
      BY <2>1 DEF BudgetInv, Going
    <3>. QED
      BY <1>2, <1>3, <2>1, <2>3, <3>1
  <2>. QED
    BY Zenon, <1>6, <2>2, <2>3, ModelFailsFacts
<1>7. CASE AL!ModelAnswers
  <2>1. /\ UNCHANGED <<step, result>> /\ attempt.pc = "model" /\ attempt'.pc \in {"audit", "tools"}
        /\ attempt'.tokens = attempt.tokens + AnswerCost /\ attempt'.turns = attempt.turns + 1
    BY <1>7, AnswerFacts
  <2>2. attempt.tokens <= step.maxTokens /\ attempt.turns < step.maxTurns
    BY <2>1 DEF BudgetInv
  <2>3. attempt'.tokens <= step.maxTokens + AnswerCost /\ attempt'.turns <= step.maxTurns
    BY <1>0, <2>1, <2>2
  <2>. QED
    BY <1>2, <1>3, <2>1, <2>3
<1>8. CASE AL!Dispatch
  <2>1. /\ UNCHANGED <<step, result>> /\ attempt.pc = "tools" /\ attempt'.pc = "tools"
        /\ attempt'.tokens = attempt.tokens /\ attempt'.turns = attempt.turns
    BY <1>8, DispatchFacts
  <2>2. attempt.tokens <= step.maxTokens + AnswerCost /\ attempt.turns <= step.maxTurns
    BY <2>1 DEF BudgetInv, Going
  <2>. QED
    BY <1>2, <1>3, <2>1, <2>2
<1>9. CASE AL!Answered
  <2>1. /\ UNCHANGED <<step, result>> /\ attempt.pc = "tools" /\ attempt'.pc = "ask"
        /\ attempt'.tokens = attempt.tokens /\ attempt'.turns = attempt.turns
    BY <1>9, AttemptFacts DEF AL!Answered, AttemptType
  <2>2. attempt.tokens <= step.maxTokens + AnswerCost /\ attempt.turns <= step.maxTurns
    BY <2>1 DEF BudgetInv, Going
  <2>. QED
    BY <1>2, <1>3, <2>1, <2>2
<1>10. CASE AL!AuditCall
  <2>1. /\ UNCHANGED <<step, result>> /\ attempt.pc = "audit" /\ attempt'.pc = "audit"
        /\ attempt'.tokens = attempt.tokens /\ attempt'.turns = attempt.turns
    BY <1>10, AuditFacts
  <2>2. attempt.tokens <= step.maxTokens + AnswerCost /\ attempt.turns <= step.maxTurns
    BY <2>1 DEF BudgetInv, Going
  <2>. QED
    BY <1>2, <1>3, <2>1, <2>2
<1>11. CASE AL!Finish
  <2>1. /\ UNCHANGED <<step, left, effects, audit>> /\ attempt.pc = "audit" /\ attempt.todo = <<>>
        /\ spent' = spent + attempt.tokens
    BY <1>11, FinishFacts
  <2>2. CASE AL!Fail(TRUE)
    BY <1>1, <1>2, <2>1, <2>2
  <2>3. CASE /\ AL!Met /\ result' = "completed" /\ attempt'.pc = "over"
             /\ attempt'.turns = attempt.turns /\ attempt'.tokens = attempt.tokens
    <3>1. \A t \in step.required : \E i \in DOMAIN effects : effects[i].attempt = Number /\ effects[i].tool = t
      BY <2>1, <2>3, MetFacts DEF Going
    <3>2. attempt.tokens <= step.maxTokens + AnswerCost /\ attempt.turns <= step.maxTurns
      BY <2>1 DEF BudgetInv, Going
    <3>3. Cardinality(EntriesOf(Number)) = Cardinality(ActsOf(Number))
      <4>1. Noted = ActingCalls
        <5>1. attempt.calls \in Seq(CallType) /\ Len(attempt.todo) = 0
          BY <2>1, AttemptFacts
        <5>2. \A i \in DOMAIN attempt.calls : i <= Len(attempt.calls) - Len(attempt.todo)
          BY <5>1
        <5>. QED
          BY Zenon, <5>2 DEF Noted, ActingCalls
      <4>. QED
        BY <2>1, <4>1 DEF OnRecordInv, Going
    <3>4. attempt.tokens <= spent'
      BY <1>0, <2>1
    <3>5. Number' = Number /\ EntriesOf(Number)' = EntriesOf(Number) /\ ActsOf(Number)' = ActsOf(Number)
      BY <2>1 DEF Number, EntriesOf, ActsOf
    <3>6. Cardinality(EntriesOf(Number)') = Cardinality(ActsOf(Number)')
      BY <3>3, <3>5
    <3>. QED
      BY <2>1, <2>3, <3>1, <3>2, <3>4, <3>5, <3>6 DEF BudgetInv, Going
  <2>. QED
    BY Zenon, <1>11, <2>2, <2>3, FinishFacts
<1>12. CASE AL!Cut
  BY <1>1, <1>2, <1>12 DEF AL!Cut
<1>. QED
  BY <1>4, <1>5, <1>6, <1>7, <1>8, <1>9, <1>10, <1>11, <1>12 DEF AL!Next

\* The invariant before the first attempt.
LEMMA AgentInitially ==
  ASSUME AL!Init
  PROVE  AgentInv
<1>1. step \in AgentConfigs /\ memory \in {"none", "rubric", "mail"} /\ left = step.retries + 1 /\ attempt = AL!Blank("ready")
      /\ effects = <<>> /\ audit = <<>> /\ spent = 0 /\ result = "none"
  BY DEF AL!Init
<1>2. step.retries \in Nat
  BY <1>1, AgentAssumption
<1>3. attempt \in AttemptType /\ attempt.pc = "ready" /\ attempt.prompt = {}
  BY <1>1, BlankFacts DEF Pcs
<1>4. AgentType
  BY <1>1, <1>2, <1>3 DEF AgentType
<1>5. DOMAIN effects = {} /\ DOMAIN audit = {}
  BY <1>1
<1>. QED
  BY <1>1, <1>3, <1>4, <1>5 DEF AgentInv, BoundInv, OnRecordInv, BudgetInv, Going

\* The invariant over every step of the loop.
LEMMA AgentStep ==
  ASSUME AgentInv, AL!Next
  PROVE  AgentInv'
<1>1. AgentType /\ BoundInv /\ OnRecordInv /\ BudgetInv
  BY DEF AgentInv
<1>2. AgentType'
  BY <1>1, AgentTypeStep
<1>. QED
  BY <1>1, <1>2, BoundStep, OnRecordStep, BudgetStep DEF AgentInv

AgentPart == part = "agent" => AgentInv

\* What the agent's part keeps, Platform keeps.
LEMMA AgentAlways == Spec => []AgentPart
<1>1. Init => AgentPart
  BY AgentInitially DEF Init, AgentPart
<1>2. AgentPart /\ [Next]_all => AgentPart'
  <2> SUFFICES ASSUME AgentPart, [Next]_all, part' = "agent"
               PROVE  AgentInv'
    BY DEF AgentPart
  <2>1. CASE Next
    <3>1. part = "agent" /\ AL!Next
      BY <2>1 DEF Next
    <3>. QED
      BY <3>1, AgentStep DEF AgentPart
  <2>2. CASE UNCHANGED all
    <3>1. AgentInv /\ UNCHANGED <<v1, v2, v3, v4, v5, v6, v7, v8>>
      BY <2>2 DEF all, AgentPart
    <3>. QED
      BY <3>1 DEF AgentInv, AgentType, BoundInv, OnRecordInv, BudgetInv, Number, ActsOf, EntriesOf, ActingCalls, Noted
  <2>. QED
    BY <2>1, <2>2
<1>. QED
  BY <1>1, <1>2, PTL DEF Spec

\* Whatever the model asks for, a tool acts only where the step and the
\* capabilities both allow it and on the pinned value, and a step that declares
\* its inputs was shown no recalled mail (agents/agent.py, _run_agent_step).
THEOREM ToolsActWithinBounds == Spec => []ActionsAreBounded
<1>1. AgentPart => ActionsAreBounded
  BY DEF AgentPart, AgentInv, BoundInv, ActionsAreBounded, AL!ActionsAreBounded
<1>. QED
  BY <1>1, AgentAlways, PTL

\* A completed step made its required call within its budgets, with each of its
\* attempt's acts on record and its tokens counted (_run_agent_step).
THEOREM CompletionIsEarned == Spec => []CompletedIsEarned
<1>1. AgentPart => CompletedIsEarned
  <2> SUFFICES ASSUME part = "agent", AgentInv, result = "completed"
               PROVE  /\ \A t \in step.required :
                           \E i \in DOMAIN effects : effects[i].attempt = AL!Number /\ effects[i].tool = t
                      /\ attempt.tokens <= step.maxTokens + AnswerCost /\ attempt.turns <= step.maxTurns
                      /\ AL!Cardinality({i \in DOMAIN audit : audit[i].attempt = AL!Number /\ audit[i].acted})
                           = AL!Cardinality({i \in DOMAIN effects : effects[i].attempt = AL!Number})
                      /\ attempt.tokens <= spent
    BY DEF AgentPart, CompletedIsEarned, AL!CompletedIsEarned
  <2>1. AL!Number = Number
    BY DEF AL!Number, Number
  <2>. QED
    BY <2>1, AgentCardinality DEF AgentInv, BudgetInv, EntriesOf, ActsOf
<1>. QED
  BY <1>1, AgentAlways, PTL

-----------------------------------------------------------------------------
(* TraceStore.                                                             *)

trow    == v1   \* its row
context == v2
vault   == v3
build   == v4
flip    == v5
key     == v6
trun    == v7   \* its run
job     == v8
got     == v9
raw     == v10
missed  == v11
ledger  == v12

\* No asset but the trigger is anywhere before its step of the run makes it.
Before(a) == IF a = "audit" THEN {"new", "trigger", "step", "save", "audit"} ELSE {"new", "trigger", "step"}

VaultType ==
  /\ vault = [a \in TS!Assets |-> vault[a]]
  /\ \A a \in TS!Assets : vault[a] # TS!None => "form" \in DOMAIN vault[a]

\* The documents by asset, and an operator's job only while the run rests.
TraceType ==
  /\ DOMAIN trow = TS!Assets /\ DOMAIN vault = TS!Assets /\ DOMAIN raw = TS!Assets
  /\ trow = [a \in TS!Assets |-> trow[a]] /\ VaultType
  /\ raw = [a \in TS!Assets |-> raw[a]]
  /\ job # "idle" => trun = "paused"
  /\ got = [trigger |-> got.trigger, output |-> got.output]

\* What the vault has of an asset is its raw, and what the table has of it is
\* the raw unless the vault has that.
VaultInv ==
  \A a \in TS!Assets \ {"trigger"} :
    /\ trun \in Before(a) => trow[a] = TS!None /\ vault[a] = TS!None
    /\ vault[a] # TS!None => vault[a].c = TS!Whole(raw[a])
    /\ trow[a] # TS!None => trow[a].c = TS!Whole(raw[a]) \/ vault[a] # TS!None

\* Between the put and the row, the put is remembered by the phase of the run
\* or of the job.
PutInv ==
  /\ trun = "save" /\ flip /\ TS!HasRaw("output", TS!Whole(raw["output"])) => vault["output"] # TS!None
  /\ trun = "append" /\ flip /\ TS!HasRaw("audit", TS!Whole(raw["audit"])) => vault["audit"] # TS!None
  /\ trow["error"] # TS!None => "c" \in DOMAIN trow["error"] /\ trow["error"].c # TS!Whole({})
  /\ context # TS!None => trow["output"] # TS!None
  /\ job = "outputrow" => vault["output"] # TS!None
  /\ job = "errorrow" => vault["error"] # TS!None /\ trow["error"] # TS!None
  /\ job = "replace" => vault["audit"] # TS!None

\* The trigger's row comes before its raw: that one may be lost in between.
TriggerInv ==
  /\ trow["trigger"] = TS!None <=> trun = "new"
  /\ trun \in {"new", "trigger"} => vault["trigger"] = TS!None
  /\ trow["trigger"] # TS!None =>
       /\ trow["trigger"].c.f \subseteq raw["trigger"]
       /\ trow["trigger"].c \in {TS!Whole(trow["trigger"].c.f), [f |-> trow["trigger"].c.f, cut |-> TRUE]}
       /\ ~trow["trigger"].c.cut => trow["trigger"].c = TS!Whole(raw["trigger"])
  /\ "trigger" \notin missed =>
       /\ vault["trigger"] # TS!None => vault["trigger"].c = TS!Whole(raw["trigger"])
       /\ trun \notin {"new", "trigger"} => raw["trigger"] = {} \/ vault["trigger"] # TS!None

ResumedInv ==
  /\ trun # "resumed" => got.output = TS!None
  /\ TS!ResumesOnRaw

TraceInv == TraceType /\ VaultInv /\ PutInv /\ TriggerInv /\ ResumedInv

USE DEF trow, context, vault, build, flip, key, trun, job, got, raw, missed, ledger

\* Contents, rows and vault objects are all something.
LEMMA Contents ==
  /\ \A x : TS!Whole(x) # TS!None /\ TS!Whole(x).f = x /\ TS!Whole(x).cut = FALSE
  /\ \A x, y : TS!Whole(x) = TS!Whole(y) => x = y
  /\ \A x, y : [c |-> x, stamp |-> y] # TS!None /\ [c |-> x, stamp |-> y].c = x
  /\ \A x : TS!Fresh(x) # TS!None /\ TS!Fresh(x).c = x
  /\ \A x : TS!Marker # TS!Whole(x)
<1>1. DOMAIN TS!None = {"none"}
  BY DEF TS!None
<1>2. ASSUME NEW x
      PROVE  /\ TS!Whole(x) # TS!None /\ TS!Whole(x).f = x /\ TS!Whole(x).cut = FALSE
             /\ TS!Marker # TS!Whole(x) /\ TS!Fresh(x) # TS!None /\ TS!Fresh(x).c = x
  <2>1. DOMAIN TS!Whole(x) = {"f", "cut"} /\ DOMAIN TS!Fresh(x) = {"c", "ver", "form"}
    BY DEF TS!Whole, TS!Fresh
  <2>2. TS!Whole(x).f = x /\ TS!Whole(x).cut = FALSE /\ TS!Marker.cut = TRUE /\ TS!Fresh(x).c = x
    BY DEF TS!Whole, TS!Marker, TS!Fresh
  <2>. QED
    BY <1>1, <2>1, <2>2
<1>3. ASSUME NEW x, NEW y
      PROVE  [c |-> x, stamp |-> y] # TS!None /\ [c |-> x, stamp |-> y].c = x
  <2>1. DOMAIN [c |-> x, stamp |-> y] = {"c", "stamp"}
    OBVIOUS
  <2>. QED
    BY <1>1, <2>1
<1>4. ASSUME NEW x, NEW y, TS!Whole(x) = TS!Whole(y)
      PROVE  x = y
  BY Zenon, <1>2, <1>4
<1>. QED
  BY Zenon, <1>2, <1>3, <1>4

\* An error is shown as it is only when it holds nothing; an empty document is never sealed.
LEMMA EmptyIsShown ==
  /\ \A x : TS!Project("error", build, TS!Whole(x)) = IF x = {} THEN TS!Whole(x) ELSE TS!Marker
  /\ ~TS!HasRaw("output", TS!Whole({})) /\ ~TS!HasRaw("audit", TS!Whole({}))
<1>1. ASSUME NEW a \in {"output", "audit"}
      PROVE  ~TS!HasRaw(a, TS!Whole({}))
  <2>1. /\ TS!Whole({}).f \cap ShownFields[build] = {} /\ TS!Whole({}).f \subseteq ShownFields[build]
        /\ TS!Whole({}).cut = FALSE
    BY Contents
  <2>2. a # "error" /\ a # "trigger"
    OBVIOUS
  <2>3. TS!Project(a, build, TS!Whole({})) = [f |-> {}, cut |-> FALSE]
    BY Zenon, <2>1, <2>2 DEF TS!Project
  <2>. QED
    BY <2>3 DEF TS!HasRaw, TS!Whole
<1>2. ASSUME NEW x
      PROVE  TS!Project("error", build, TS!Whole(x)) = IF x = {} THEN TS!Whole(x) ELSE TS!Marker
  BY Zenon, Contents DEF TS!Project
<1>. QED
  BY <1>1, <1>2

\* What a put makes of the vault.
LEMMA Vaulted ==
  ASSUME TraceType, NEW a \in TS!Assets, NEW c, TS!Put(a, c)
  PROVE  /\ DOMAIN vault' = TS!Assets /\ VaultType'
         /\ \A b \in TS!Assets : b # a => vault'[b] = vault[b]
         /\ vault[a] # TS!None \/ c = TS!Whole({}) => vault' = vault
         /\ vault[a] = TS!None /\ c # TS!Whole({}) => vault'[a] # TS!None /\ vault'[a].c = c
<1>1. CASE c = TS!Whole({}) \/ vault[a] # TS!None
  BY Zenon, <1>1 DEF TS!Put, TraceType, VaultType, TS!None
<1>2. CASE ~(c = TS!Whole({}) \/ vault[a] # TS!None)
  <2>1. vault' = [vault EXCEPT ![a] = TS!Fresh(c)]
    BY <1>2 DEF TS!Put
  <2>2. DOMAIN vault = TS!Assets /\ vault = [b \in TS!Assets |-> vault[b]] /\ VaultType
    BY DEF TraceType, VaultType
  <2>3. vault'[a] = TS!Fresh(c) /\ \A b \in TS!Assets : b # a => vault'[b] = vault[b]
    BY <2>1, <2>2
  <2>4. DOMAIN vault' = TS!Assets /\ vault' = [b \in TS!Assets |-> vault'[b]]
    BY <2>1, <2>2
  <2>5. "form" \in DOMAIN TS!Fresh(c)
    BY DEF TS!Fresh
  <2>6. \A b \in TS!Assets : vault'[b] # TS!None => "form" \in DOMAIN vault'[b]
    BY <2>2, <2>3, <2>5 DEF VaultType
  <2>7. VaultType'
    BY <2>4, <2>6 DEF VaultType, TS!None
  <2>. QED
    BY <1>2, <2>3, <2>4, <2>7, Contents
<1>. QED
  BY <1>1, <1>2

\* A step that writes one asset keeps the others recoverable.
LEMMA OneAssetMoves ==
  ASSUME TraceInv, NEW a \in TS!Assets,
         \A b \in TS!Assets : b # a => trow'[b] = trow[b] /\ vault'[b] = vault[b] /\ raw'[b] = raw[b],
         \A b \in TS!Assets : trun' \in Before(b) => trun \in Before(b),
         a # "trigger" =>
           /\ trun' \in Before(a) => trow'[a] = TS!None /\ vault'[a] = TS!None
           /\ vault'[a] # TS!None => vault'[a].c = TS!Whole(raw'[a])
           /\ trow'[a] # TS!None => trow'[a].c = TS!Whole(raw'[a]) \/ vault'[a] # TS!None
  PROVE  VaultInv'
<1>1. ASSUME NEW b \in TS!Assets \ {"trigger"}
      PROVE  /\ trun' \in Before(b) => trow'[b] = TS!None /\ vault'[b] = TS!None
             /\ vault'[b] # TS!None => vault'[b].c = TS!Whole(raw'[b])
             /\ trow'[b] # TS!None => trow'[b].c = TS!Whole(raw'[b]) \/ vault'[b] # TS!None
  <2>1. CASE b = a
    BY <2>1
  <2>2. CASE b # a
    BY <2>2 DEF TraceInv, VaultInv
  <2>. QED
    BY <2>1, <2>2
<1>. QED
  BY Zenon, <1>1 DEF VaultInv, Before, TS!Whole, TS!None

\* While the run is on its way nothing is resumed and no job is under way.
LEMMA OnItsWay ==
  ASSUME TraceInv, trun \notin {"paused", "resumed"}, UNCHANGED <<job, got>>, trun' \notin {"rehydrate", "resumed"}
  PROVE  job = "idle" /\ ResumedInv' /\ (job # "idle" => trun' = "paused")
         /\ got' = [trigger |-> got'.trigger, output |-> got'.output]
<1>1. job = "idle" /\ got.output = TS!None
  BY DEF TraceInv, TraceType, VaultType, TS!None, ResumedInv
<1>2. ResumedInv'
  BY <1>1 DEF ResumedInv, TS!ResumesOnRaw, TS!None
<1>. QED
  BY <1>1, <1>2 DEF TraceInv, TraceType, VaultType, TS!None

\* The row of the trigger document is written as it is at rest.
LEMMA LaunchStep ==
  ASSUME TraceInv, NEW doc \in Raws, TS!Launch(doc)
  PROVE  TraceInv'
<1> DEFINE x == [c |-> TS!AtRest("trigger", TS!Whole(doc)), stamp |-> TS!Stamp]
<1>1. /\ trun = "new" /\ trun' = "trigger" /\ trow' = [trow EXCEPT !["trigger"] = x]
      /\ raw' = [raw EXCEPT !["trigger"] = doc] /\ UNCHANGED <<context, vault, missed, build, flip, job, got>>
  BY DEF TS!Launch, TS!Kept, TS!Still, TS!config
<1>2. x # TS!None /\ x.c = TS!AtRest("trigger", TS!Whole(doc))
  BY Contents
<1>3. x.c = TS!Whole(doc) \/ (x.c.f = doc \cap ShownFields[build] /\ x.c.cut = TRUE /\ x.c = [f |-> x.c.f, cut |-> TRUE])
  <2>1. TS!Project("trigger", build, TS!Whole(doc)) = [f |-> doc \cap ShownFields[build], cut |-> TRUE]
    BY Zenon, Contents DEF TS!Project
  <2>2. CASE flip
    BY <1>2, <2>1, <2>2 DEF TS!AtRest
  <2>3. CASE ~flip
    BY <1>2, <2>3 DEF TS!AtRest
  <2>. QED
    BY Zenon, <2>2, <2>3
<1> HIDE DEF x
<1>4. /\ DOMAIN trow' = TS!Assets /\ trow' = [a \in TS!Assets |-> trow'[a]]
      /\ DOMAIN raw' = TS!Assets /\ raw' = [a \in TS!Assets |-> raw'[a]]
      /\ trow'["trigger"] = x /\ raw'["trigger"] = doc
      /\ \A b \in TS!Assets : b # "trigger" => trow'[b] = trow[b] /\ raw'[b] = raw[b]
  BY Zenon, <1>1 DEF TraceInv, TraceType, VaultType, TS!None, TS!Assets
<1>5. ResumedInv' /\ TraceType'
  BY <1>1, <1>4, OnItsWay DEF TraceInv, TraceType, VaultType, TS!None
<1>6. VaultInv'
  <2>1. "trigger" \in TS!Assets /\ \A b \in TS!Assets : trun' \in Before(b) => trun \in Before(b)
    BY <1>1 DEF TS!Assets, Before
  <2>. QED
    BY <1>1, <1>4, <2>1, OneAssetMoves
<1>7. PutInv'
  <2>1. trow'["error"] = trow["error"] /\ trow'["output"] = trow["output"]
    BY <1>4 DEF TS!Assets
  <2>2. job = "idle"
    BY <1>1, OnItsWay
  <2>. QED
    BY <1>1, <2>1, <2>2 DEF TraceInv, PutInv, TS!None, TS!Whole
<1>8. TriggerInv'
  <2>1. x.c.f \subseteq doc /\ x.c \in {TS!Whole(x.c.f), [f |-> x.c.f, cut |-> TRUE]}
        /\ (~x.c.cut => x.c = TS!Whole(doc))
    BY <1>3, Contents
  <2>2. vault["trigger"] = TS!None
    BY <1>1 DEF TraceInv, TriggerInv
  <2>. QED
    BY Zenon, <1>1, <1>2, <1>4, <2>1, <2>2 DEF TriggerInv, TS!None, TS!Whole
<1>. QED
  BY <1>5, <1>6, <1>7, <1>8 DEF TraceInv

\* A step past the trigger that leaves it alone keeps what is said of it.
LEMMA TriggerStays ==
  ASSUME TraceInv, trun \notin {"new", "trigger"}, trun' \notin {"new", "trigger"}, missed \subseteq missed',
         trow'["trigger"] = trow["trigger"], vault'["trigger"] = vault["trigger"],
         raw'["trigger"] = raw["trigger"]
  PROVE  TriggerInv'
BY DEF TraceInv, TriggerInv, TS!None, TS!Whole

\* The vault takes the trigger document.
LEMMA KeepTriggerStep ==
  ASSUME TraceInv, TS!KeepTrigger
  PROVE  TraceInv'
<1>1. /\ trun = "trigger" /\ trun' \in {"step", "dead"} /\ UNCHANGED <<trow, context, raw, build, flip, job, got>>
      /\ "trigger" \in TS!Assets /\ "error" \in TS!Assets /\ "output" \in TS!Assets
  BY DEF TS!KeepTrigger, TS!Still, TS!config, TS!Assets
<1>2. \/ TS!Put("trigger", TS!Whole(raw["trigger"])) /\ missed' = missed
      \/ vault' = vault /\ missed' = missed \cup {"trigger"}
  BY DEF TS!KeepTrigger, TS!Missed, TS!Kept
<1>3. /\ DOMAIN vault' = TS!Assets /\ VaultType'
      /\ \A b \in TS!Assets : b # "trigger" => vault'[b] = vault[b]
  BY Zenon, <1>1, <1>2, Vaulted DEF TraceInv, TraceType, VaultType, TS!None
<1>4. ResumedInv' /\ TraceType'
  BY <1>1, <1>3, OnItsWay DEF TraceInv, TraceType, VaultType, TS!None
<1>5. VaultInv'
  <2>1. \A b \in TS!Assets : trun' \in Before(b) => trun \in Before(b)
    BY <1>1 DEF Before
  <2>. QED
    BY <1>1, <1>3, <2>1, OneAssetMoves
<1>6. PutInv'
  <2>1. job = "idle"
    BY <1>1, OnItsWay
  <2>. QED
    BY <1>1, <2>1 DEF TraceInv, PutInv, TS!None, TS!Whole
<1>7. TriggerInv'
  <2>1. vault["trigger"] = TS!None /\ trow["trigger"] # TS!None
    BY <1>1 DEF TraceInv, TriggerInv
  <2>2. CASE TS!Put("trigger", TS!Whole(raw["trigger"])) /\ missed' = missed
    <3>1. /\ vault'["trigger"] # TS!None => vault'["trigger"].c = TS!Whole(raw["trigger"])
          /\ raw["trigger"] = {} \/ vault'["trigger"] # TS!None
      BY <1>1, <2>1, <2>2, Vaulted, Contents DEF TraceInv
    <3>. QED
      BY <1>1, <2>1, <2>2, <3>1 DEF TraceInv, TriggerInv, TS!None, TS!Whole
  <2>3. CASE vault' = vault /\ missed' = missed \cup {"trigger"}
    BY <1>1, <2>1, <2>3 DEF TraceInv, TriggerInv, TS!None, TS!Whole
  <2>. QED
    BY <1>2, <2>2, <2>3
<1>. QED
  BY <1>4, <1>5, <1>6, <1>7 DEF TraceInv

\* A step returns its output, vaulted if projection would take something away.
LEMMA RunStepStep ==
  ASSUME TraceInv, NEW doc \in Raws, TS!RunStep(doc)
  PROVE  TraceInv'
<1> DEFINE c == TS!Whole(doc)
<1>1. /\ trun = "step" /\ trun' \in {"save", "mark"} /\ raw' = [raw EXCEPT !["output"] = doc]
      /\ UNCHANGED <<trow, context, build, flip, job, got>> /\ "output" \in TS!Assets /\ "trigger" \in TS!Assets
  BY DEF TS!RunStep, TS!Still, TS!config, TS!Assets
<1>2. \/ ~TS!HasRaw("output", c) /\ vault' = vault /\ missed' = missed
      \/ TS!HasRaw("output", c) /\ TS!Put("output", c) /\ missed' = missed
      \/ vault' = vault /\ missed' = missed \cup {"output"} /\ (trun' = "save" => ~flip)
  BY DEF TS!RunStep, TS!Missed, TS!Kept
<1>3. trow["output"] = TS!None /\ vault["output"] = TS!None /\ trow["trigger"] # TS!None
  BY <1>1 DEF TraceInv, VaultInv, Before, TriggerInv
<1>4. TS!HasRaw("output", c) => c # TS!Whole({})
  BY EmptyIsShown
<1>5. /\ DOMAIN vault' = TS!Assets /\ VaultType'
      /\ \A b \in TS!Assets : b # "output" => vault'[b] = vault[b]
      /\ vault'["output"] # TS!None => vault'["output"].c = c
      /\ trun' = "save" /\ flip /\ TS!HasRaw("output", c) => vault'["output"] # TS!None
  BY Zenon, <1>1, <1>2, <1>3, <1>4, Vaulted DEF TraceInv, TraceType, VaultType, TS!None
<1>6. /\ DOMAIN raw' = TS!Assets /\ raw' = [b \in TS!Assets |-> raw'[b]] /\ raw'["output"] = doc
      /\ \A b \in TS!Assets : b # "output" => raw'[b] = raw[b]
  BY Zenon, <1>1 DEF TraceInv, TraceType, VaultType, TS!None
<1>7. ResumedInv' /\ TraceType'
  BY <1>1, <1>5, <1>6, OnItsWay DEF TraceInv, TraceType, VaultType, TS!None
<1>8. VaultInv'
  <2>1. \A b \in TS!Assets : trun' \in Before(b) => trun \in Before(b)
    BY <1>1 DEF Before
  <2>2. trun' \notin Before("output")
    BY <1>1 DEF Before
  <2>. QED
    BY <1>1, <1>3, <1>5, <1>6, <2>1, <2>2, OneAssetMoves
<1>9. PutInv'
  <2>1. job = "idle"
    BY <1>1, OnItsWay
  <2>2. TS!HasRaw("output", TS!Whole(raw["output"]))' <=> TS!HasRaw("output", c)
    BY <1>1, <1>6 DEF TS!HasRaw, TS!Project, TS!Whole, TS!Marker
  <2>3. trun' # "append"
    BY <1>1
  <2>4. /\ context # TS!None => trow["output"] # TS!None
        /\ trow["error"] # TS!None => "c" \in DOMAIN trow["error"] /\ trow["error"].c # TS!Whole({})
    BY DEF TraceInv, PutInv
  <2>. QED
    BY <1>1, <1>5, <2>1, <2>2, <2>3, <2>4 DEF PutInv, TS!None, TS!Whole
<1>10. TriggerInv'
  <2>1. missed \subseteq missed' /\ raw'["trigger"] = raw["trigger"] /\ vault'["trigger"] = vault["trigger"]
    BY <1>1, <1>2, <1>5, <1>6
  <2>. QED
    BY <1>1, <2>1, TriggerStays
<1>. QED
  BY <1>7, <1>8, <1>9, <1>10 DEF TraceInv

\* The row of the output is written.
LEMMA SaveOutputStep ==
  ASSUME TraceInv, TS!SaveOutput
  PROVE  TraceInv'
<1> DEFINE x == [c |-> TS!AtRest("output", TS!Whole(raw["output"])), stamp |-> TS!Stamp]
<1>1. /\ trun = "save" /\ trun' = "audit" /\ trow' = [trow EXCEPT !["output"] = x]
      /\ UNCHANGED <<context, vault, raw, missed, build, flip, job, got>>
      /\ "output" \in TS!Assets /\ "trigger" \in TS!Assets /\ "error" \in TS!Assets
  BY DEF TS!SaveOutput, TS!Kept, TS!Still, TS!config, TS!Assets
<1>2. x # TS!None /\ x.c = TS!AtRest("output", TS!Whole(raw["output"]))
  BY Contents
<1>3. x.c = TS!Whole(raw["output"]) \/ vault["output"] # TS!None
  <2>1. flip /\ TS!HasRaw("output", TS!Whole(raw["output"])) => vault["output"] # TS!None
    BY <1>1 DEF TraceInv, PutInv
  <2>. QED
    BY <1>2, <2>1 DEF TS!AtRest, TS!HasRaw
<1> HIDE DEF x
<1>4. /\ DOMAIN trow' = TS!Assets /\ trow' = [b \in TS!Assets |-> trow'[b]] /\ trow'["output"] = x
      /\ \A b \in TS!Assets : b # "output" => trow'[b] = trow[b]
  BY Zenon, <1>1 DEF TraceInv, TraceType, VaultType, TS!None
<1>5. ResumedInv' /\ TraceType'
  BY <1>1, <1>4, OnItsWay DEF TraceInv, TraceType, VaultType, TS!None
<1>6. VaultInv'
  <2>1. \A b \in TS!Assets : trun' \in Before(b) => trun \in Before(b)
    BY <1>1 DEF Before
  <2>2. trun' \notin Before("output") /\ (vault["output"] # TS!None => vault["output"].c = TS!Whole(raw["output"]))
    BY <1>1 DEF Before, TraceInv, VaultInv
  <2>. QED
    BY <1>1, <1>2, <1>3, <1>4, <2>1, <2>2, OneAssetMoves
<1>7. PutInv'
  <2>1. job = "idle"
    BY <1>1, OnItsWay
  <2>2. trow["error"] # TS!None => "c" \in DOMAIN trow["error"] /\ trow["error"].c # TS!Whole({})
    BY DEF TraceInv, PutInv
  <2>. QED
    BY <1>1, <1>2, <1>4, <2>1, <2>2 DEF PutInv, TS!None, TS!Whole
<1>8. TriggerInv'
  BY <1>1, <1>4, TriggerStays
<1>. QED
  BY <1>5, <1>6, <1>7, <1>8 DEF TraceInv

\* A step raises: its error is vaulted and its row written, in one step.
LEMMA FailStepStep ==
  ASSUME TraceInv, NEW doc \in Raws, TS!FailStep(doc)
  PROVE  TraceInv'
<1>1. /\ trun = "step" /\ doc # {} /\ trun' = "mark" /\ raw' = [raw EXCEPT !["error"] = doc]
      /\ UNCHANGED <<context, build, flip, job, got>>
      /\ "output" \in TS!Assets /\ "trigger" \in TS!Assets /\ "error" \in TS!Assets
  BY DEF TS!FailStep, TS!Still, TS!config, TS!Assets
<1>2. /\ trow["error"] = TS!None /\ vault["error"] = TS!None /\ TS!Whole(doc) # TS!Whole({})
      /\ trow["output"] = TS!None
  BY <1>1, Contents DEF TraceInv, VaultInv, Before
<1>3. \/ TS!Put("error", TS!Whole(doc)) /\ missed' = missed
         /\ trow' = [trow EXCEPT !["error"] = [c |-> TS!AtRest("error", TS!Whole(doc)), stamp |-> TS!Stamp]]
      \/ vault' = vault /\ missed' = missed \cup {"error"}
         /\ trow' = IF flip THEN trow ELSE [trow EXCEPT !["error"] = [c |-> TS!Whole(doc), stamp |-> 0]]
  BY DEF TS!FailStep, TS!Missed, TS!Kept
<1>4. TS!AtRest("error", TS!Whole(doc)) # TS!Whole({})
  BY <1>1, <1>2, EmptyIsShown, Contents DEF TS!AtRest
<1>5. /\ DOMAIN vault' = TS!Assets /\ VaultType'
      /\ DOMAIN trow' = TS!Assets /\ trow' = [b \in TS!Assets |-> trow'[b]]
      /\ \A b \in TS!Assets : b # "error" => vault'[b] = vault[b] /\ trow'[b] = trow[b]
      /\ vault'["error"] # TS!None => vault'["error"].c = TS!Whole(doc)
      /\ trow'["error"] # TS!None =>
           /\ trow'["error"].c = TS!Whole(doc) \/ vault'["error"] # TS!None
           /\ "c" \in DOMAIN trow'["error"] /\ trow'["error"].c # TS!Whole({})
  <2>1. CASE TS!Put("error", TS!Whole(doc)) /\ missed' = missed
             /\ trow' = [trow EXCEPT !["error"] = [c |-> TS!AtRest("error", TS!Whole(doc)), stamp |-> TS!Stamp]]
    <3> DEFINE x == [c |-> TS!AtRest("error", TS!Whole(doc)), stamp |-> TS!Stamp]
    <3>1. "c" \in DOMAIN x /\ x.c # TS!Whole({}) /\ trow' = [trow EXCEPT !["error"] = x]
      BY <1>4, <2>1
    <3> HIDE DEF x
    <3>2. /\ DOMAIN trow' = TS!Assets /\ trow' = [b \in TS!Assets |-> trow'[b]] /\ trow'["error"] = x
          /\ \A b \in TS!Assets : b # "error" => trow'[b] = trow[b]
      BY Zenon, <1>1, <3>1 DEF TraceInv, TraceType, VaultType, TS!None
    <3>3. /\ DOMAIN vault' = TS!Assets /\ VaultType'
          /\ \A b \in TS!Assets : b # "error" => vault'[b] = vault[b]
          /\ vault'["error"] # TS!None /\ vault'["error"].c = TS!Whole(doc)
      BY <1>1, <1>2, <2>1, Vaulted DEF TraceInv
    <3>. QED
      BY <3>1, <3>2, <3>3
  <2>2. CASE vault' = vault /\ trow' = trow
    BY <1>2, <2>2 DEF TraceInv, TraceType, VaultType, TS!None
  <2>3. CASE vault' = vault /\ trow' = [trow EXCEPT !["error"] = [c |-> TS!Whole(doc), stamp |-> 0]]
    <3> DEFINE x == [c |-> TS!Whole(doc), stamp |-> 0]
    <3>1. "c" \in DOMAIN x /\ x.c = TS!Whole(doc) /\ trow' = [trow EXCEPT !["error"] = x]
      BY <2>3
    <3> HIDE DEF x
    <3>2. /\ DOMAIN trow' = TS!Assets /\ trow' = [b \in TS!Assets |-> trow'[b]] /\ trow'["error"] = x
          /\ \A b \in TS!Assets : b # "error" => trow'[b] = trow[b]
      BY Zenon, <1>1, <3>1 DEF TraceInv, TraceType, VaultType, TS!None
    <3>. QED
      BY <1>2, <2>3, <3>1, <3>2 DEF TraceInv, TraceType, VaultType, TS!None
  <2>. QED
    BY <1>3, <2>1, <2>2, <2>3
<1>6. /\ DOMAIN raw' = TS!Assets /\ raw' = [b \in TS!Assets |-> raw'[b]] /\ raw'["error"] = doc
      /\ \A b \in TS!Assets : b # "error" => raw'[b] = raw[b]
  BY Zenon, <1>1 DEF TraceInv, TraceType, VaultType, TS!None
<1>7. ResumedInv' /\ TraceType'
  BY <1>1, <1>5, <1>6, OnItsWay DEF TraceInv, TraceType, VaultType, TS!None
<1>8. VaultInv'
  <2>1. \A b \in TS!Assets : trun' \notin Before(b)
    BY <1>1 DEF Before
  <2>. QED
    BY <1>1, <1>5, <1>6, <2>1, OneAssetMoves
<1>9. PutInv'
  <2>1. job = "idle"
    BY <1>1, OnItsWay
  <2>2. context = TS!None
    BY <1>2 DEF TraceInv, PutInv
  <2>. QED
    BY <1>1, <1>5, <2>1, <2>2 DEF PutInv, TS!None, TS!Whole
<1>10. TriggerInv'
  <2>1. missed \subseteq missed'
    BY <1>3
  <2>. QED
    BY <1>1, <1>5, <1>6, <2>1, TriggerStays
<1>. QED
  BY <1>7, <1>8, <1>9, <1>10 DEF TraceInv

\* The raw detail of an audit entry is kept, under the flip.
LEMMA KeepDetailStep ==
  ASSUME TraceInv, NEW doc \in Raws, TS!KeepDetail(doc)
  PROVE  TraceInv'
<1> DEFINE c == TS!Whole(doc)
<1>1. /\ trun = "audit" /\ trun' \in {"append", "mark"} /\ raw' = [raw EXCEPT !["audit"] = doc]
      /\ UNCHANGED <<trow, context, build, flip, job, got>> /\ "audit" \in TS!Assets /\ "trigger" \in TS!Assets
      /\ "output" \in TS!Assets /\ "error" \in TS!Assets
  BY DEF TS!KeepDetail, TS!Still, TS!config, TS!Assets
<1>2. \/ ~(flip /\ TS!HasRaw("audit", c)) /\ vault' = vault /\ missed' = missed
      \/ TS!HasRaw("audit", c) /\ TS!Put("audit", c) /\ missed' = missed
      \/ vault' = vault /\ missed' = missed \cup {"audit"} /\ trun' = "mark"
  BY DEF TS!KeepDetail, TS!Missed, TS!Kept
<1>3. trow["audit"] = TS!None /\ vault["audit"] = TS!None
  BY <1>1 DEF TraceInv, VaultInv, Before
<1>4. TS!HasRaw("audit", c) => c # TS!Whole({})
  BY EmptyIsShown
<1>5. /\ DOMAIN vault' = TS!Assets /\ VaultType'
      /\ \A b \in TS!Assets : b # "audit" => vault'[b] = vault[b]
      /\ vault'["audit"] # TS!None => vault'["audit"].c = c
      /\ trun' = "append" /\ flip /\ TS!HasRaw("audit", c) => vault'["audit"] # TS!None
  BY Zenon, <1>1, <1>2, <1>3, <1>4, Vaulted DEF TraceInv, TraceType, VaultType, TS!None
<1>6. /\ DOMAIN raw' = TS!Assets /\ raw' = [b \in TS!Assets |-> raw'[b]] /\ raw'["audit"] = doc
      /\ \A b \in TS!Assets : b # "audit" => raw'[b] = raw[b]
  BY Zenon, <1>1 DEF TraceInv, TraceType, VaultType, TS!None
<1>7. ResumedInv' /\ TraceType'
  BY <1>1, <1>5, <1>6, OnItsWay DEF TraceInv, TraceType, VaultType, TS!None
<1>8. VaultInv'
  <2>1. \A b \in TS!Assets : trun' \notin Before(b)
    BY <1>1 DEF Before
  <2>. QED
    BY <1>1, <1>3, <1>5, <1>6, <2>1, OneAssetMoves
<1>9. PutInv'
  <2>1. job = "idle"
    BY <1>1, OnItsWay
  <2>2. TS!HasRaw("audit", TS!Whole(raw["audit"]))' <=> TS!HasRaw("audit", c)
    BY <1>1, <1>6 DEF TS!HasRaw, TS!Project, TS!Whole, TS!Marker
  <2>3. trun' # "save"
    BY <1>1
  <2>4. /\ context # TS!None => trow["output"] # TS!None
        /\ trow["error"] # TS!None => "c" \in DOMAIN trow["error"] /\ trow["error"].c # TS!Whole({})
    BY DEF TraceInv, PutInv
  <2>. QED
    BY <1>1, <1>5, <2>1, <2>2, <2>3, <2>4 DEF PutInv, TS!None, TS!Whole
<1>10. TriggerInv'
  <2>1. missed \subseteq missed' /\ raw'["trigger"] = raw["trigger"] /\ vault'["trigger"] = vault["trigger"]
    BY <1>1, <1>2, <1>5, <1>6
  <2>. QED
    BY <1>1, <2>1, TriggerStays
<1>. QED
  BY <1>7, <1>8, <1>9, <1>10 DEF TraceInv

\* The entry is appended.
LEMMA AppendEntryStep ==
  ASSUME TraceInv, TS!AppendEntry
  PROVE  TraceInv'
<1> DEFINE c == TS!AtRest("audit", TS!Whole(raw["audit"]))
           y == IF TS!HasRaw("audit", TS!Whole(raw["audit"])) THEN TS!Stamp ELSE 0
           x == [c |-> c, stamp |-> y]
<1>1. /\ trun = "append" /\ trun' = "mark" /\ trow' = [trow EXCEPT !["audit"] = x]
      /\ UNCHANGED <<context, vault, raw, missed, build, flip, job, got>>
      /\ "audit" \in TS!Assets /\ "output" \in TS!Assets /\ "trigger" \in TS!Assets /\ "error" \in TS!Assets
  BY DEF TS!AppendEntry, TS!Kept, TS!Still, TS!config, TS!Assets
<1>2. x # TS!None /\ x.c = TS!AtRest("audit", TS!Whole(raw["audit"]))
  BY Contents
<1>3. x.c = TS!Whole(raw["audit"]) \/ vault["audit"] # TS!None
  <2>1. flip /\ TS!HasRaw("audit", TS!Whole(raw["audit"])) => vault["audit"] # TS!None
    BY <1>1 DEF TraceInv, PutInv
  <2>. QED
    BY <1>2, <2>1 DEF TS!AtRest, TS!HasRaw
<1> HIDE DEF x
<1>4. /\ DOMAIN trow' = TS!Assets /\ trow' = [b \in TS!Assets |-> trow'[b]] /\ trow'["audit"] = x
      /\ \A b \in TS!Assets : b # "audit" => trow'[b] = trow[b]
  BY Zenon, <1>1 DEF TraceInv, TraceType, VaultType, TS!None
<1>5. ResumedInv' /\ TraceType'
  BY <1>1, <1>4, OnItsWay DEF TraceInv, TraceType, VaultType, TS!None
<1>6. VaultInv'
  <2>1. \A b \in TS!Assets : trun' \notin Before(b)
    BY <1>1 DEF Before
  <2>2. vault["audit"] # TS!None => vault["audit"].c = TS!Whole(raw["audit"])
    BY <1>1 DEF TraceInv, VaultInv
  <2>. QED
    BY <1>1, <1>2, <1>3, <1>4, <2>1, <2>2, OneAssetMoves
<1>7. PutInv'
  <2>1. job = "idle"
    BY <1>1, OnItsWay
  <2>2. /\ context # TS!None => trow["output"] # TS!None
        /\ trow["error"] # TS!None => "c" \in DOMAIN trow["error"] /\ trow["error"].c # TS!Whole({})
    BY DEF TraceInv, PutInv
  <2>. QED
    BY <1>1, <1>2, <1>4, <2>1, <2>2 DEF PutInv, TS!None, TS!Whole
<1>8. TriggerInv'
  BY <1>1, <1>4, TriggerStays
<1>. QED
  BY <1>5, <1>6, <1>7, <1>8 DEF TraceInv

\* The table, the vault and what was produced stay; the run and the context do not.
LEMMA TablesStay ==
  ASSUME TraceInv, UNCHANGED <<trow, vault, raw, job>>, job = "idle", trun # "new",
         trun' \notin {"new", "trigger", "step", "save", "audit", "append"},
         missed \subseteq missed', trun = "trigger" => "trigger" \in missed',
         context' # TS!None => trow["output"] # TS!None
  PROVE  VaultInv' /\ PutInv' /\ TriggerInv'
<1>1. "audit" \in TS!Assets
  BY DEF TS!Assets
<1>2. \A b \in TS!Assets : trun' \in Before(b) => trun \in Before(b)
  BY DEF Before
<1>3. trun' \notin Before("audit") /\ (vault["audit"] # TS!None => vault["audit"].c = TS!Whole(raw["audit"]))
      /\ (trow["audit"] # TS!None => trow["audit"].c = TS!Whole(raw["audit"]) \/ vault["audit"] # TS!None)
  BY <1>1 DEF Before, TraceInv, VaultInv
<1>4. VaultInv'
  BY <1>1, <1>2, <1>3, OneAssetMoves
<1>5. PutInv'
  BY DEF TraceInv, PutInv, TS!None, TS!Whole
<1>6. TriggerInv'
  BY DEF TraceInv, TriggerInv, TS!None, TS!Whole
<1>. QED
  BY <1>4, <1>5, <1>6

\* The run pauses, or its process dies.
LEMMA MarkOrCrashStep ==
  ASSUME TraceInv, TS!Mark \/ TS!Crash
  PROVE  TraceInv'
<1>1. /\ trun \notin {"new", "paused", "resumed"} /\ trun' = "paused" /\ UNCHANGED <<trow, vault, raw, build, flip, job, got>>
      /\ missed \subseteq missed' /\ (trun = "trigger" => "trigger" \in missed')
      /\ context' # TS!None => context # TS!None \/ trow["output"] # TS!None
  <2>1. CASE TS!Mark
    BY <2>1 DEF TS!Mark, TS!Kept, TS!Still, TS!config
  <2>2. CASE TS!Crash
    <3>1. /\ TS!Running /\ trun' = "paused" /\ UNCHANGED <<trow, vault, raw, context, build, flip, job, got>>
          /\ missed' = missed \cup (IF trun = "trigger" THEN {"trigger"} ELSE {})
      BY <2>2 DEF TS!Crash, TS!store, TS!Still, TS!config
    <3>. QED
      BY <3>1 DEF TS!Running
  <2>. QED
    BY <2>1, <2>2
<1>2. job = "idle" /\ ResumedInv' /\ TraceType'
  BY <1>1, OnItsWay DEF TraceInv, TraceType, VaultType, TS!None
<1>3. context' # TS!None => trow["output"] # TS!None
  BY <1>1 DEF TraceInv, PutInv
<1>4. VaultInv' /\ PutInv' /\ TriggerInv'
  BY <1>1, <1>2, <1>3, TablesStay
<1>. QED
  BY <1>2, <1>4 DEF TraceInv

\* What a resumption restores is the raw, or nothing.
LEMMA ResumeStep ==
  ASSUME TraceInv, TS!ResumeInline \/ TS!ResumeTrigger \/ TS!ResumeOutput
  PROVE  TraceInv'
<1>1. /\ trun \in {"paused", "rehydrate"} /\ trun' \in {"resumed", "rehydrate", "aborted"}
      /\ UNCHANGED <<trow, context, vault, raw, missed, build, flip, key, job>>
  BY DEF TS!ResumeInline, TS!ResumeTrigger, TS!ResumeOutput, TS!store, TS!config, TS!Kept
<1>2. job = "idle"
  BY DEF TraceInv, TraceType, VaultType, TS!None, TS!ResumeInline, TS!ResumeTrigger, TS!ResumeOutput, TS!Resting
<1>3. /\ VaultInv /\ TriggerInv /\ PutInv /\ ResumedInv /\ TraceType
  BY DEF TraceInv
<1>4. VaultInv' /\ PutInv' /\ TriggerInv'
  BY <1>1, <1>2, <1>3, TablesStay DEF PutInv
<1>5. CASE TS!ResumeInline
  <2>1. ~flip /\ trun' = "resumed" /\ got' = [trigger |-> trow["trigger"].c, output |-> context]
    BY <1>5 DEF TS!ResumeInline
  <2>2. TraceType' /\ ResumedInv'
    BY <1>1, <1>2, <1>3, <2>1 DEF TraceType, VaultType, TS!None, ResumedInv, TS!ResumesOnRaw
  <2>. QED
    BY <1>4, <2>2 DEF TraceInv
<1>6. CASE TS!ResumeTrigger
  <2> DEFINE c == TS!Rehydrated("trigger", trow["trigger"].c, trow["trigger"].stamp)
  <2>1. trun = "paused" /\ flip /\ got' = [got EXCEPT !.trigger = c] /\ trun' # "resumed"
    BY <1>6 DEF TS!ResumeTrigger
  <2>2. \/ c = TS!None
        \/ vault["trigger"] = TS!None /\ ~trow["trigger"].c.cut /\ c = trow["trigger"].c
        \/ vault["trigger"] # TS!None /\ c = vault["trigger"].c
    BY DEF TS!Rehydrated
  <2> HIDE DEF c
  <2>3. c \in {TS!None, TS!Whole(raw["trigger"])} \/ ("trigger" \in missed /\ vault["trigger"] # TS!None)
    <3>1. trow["trigger"] # TS!None
      BY <1>3, <2>1 DEF TriggerInv
    <3>2. vault["trigger"] # TS!None /\ "trigger" \notin missed => vault["trigger"].c = TS!Whole(raw["trigger"])
      BY <1>3 DEF TriggerInv
    <3>3. ~trow["trigger"].c.cut => trow["trigger"].c = TS!Whole(raw["trigger"])
      BY <1>3, <3>1 DEF TriggerInv
    <3>. QED
      BY <2>2, <3>2, <3>3
  <2>4. got'.trigger = c /\ got'.output = got.output /\ got' = [trigger |-> got'.trigger, output |-> got'.output]
    BY <1>3, <2>1 DEF TraceType, VaultType, TS!None
  <2>5. got.output = TS!None
    BY <1>3, <2>1 DEF ResumedInv
  <2>6. TraceType'
    BY <1>1, <1>2, <1>3, <2>4 DEF TraceType, VaultType, TS!None
  <2>7. ResumedInv'
    BY <1>1, <2>1, <2>3, <2>4, <2>5 DEF ResumedInv, TS!ResumesOnRaw, TS!None, TS!Whole
  <2>. QED
    BY <1>4, <2>6, <2>7 DEF TraceInv
<1>7. CASE TS!ResumeOutput
  <2> DEFINE c == IF context = TS!None THEN TS!None
                  ELSE TS!Rehydrated("output", context, trow["output"].stamp)
  <2>1. /\ trun = "rehydrate" /\ got' = [got EXCEPT !.output = c]
        /\ trun' = IF context # TS!None /\ c = TS!None THEN "aborted" ELSE "resumed"
    BY <1>7 DEF TS!ResumeOutput
  <2>2. c = TS!None \/ trow["output"].stamp = 0 \/ (vault["output"] # TS!None /\ c = vault["output"].c)
    BY DEF TS!Rehydrated
  <2> HIDE DEF c
  <2>3. vault["output"] # TS!None => vault["output"].c = TS!Whole(raw["output"])
    BY <1>3 DEF VaultInv, TS!Assets
  <2>4. got'.output = c /\ got'.trigger = got.trigger /\ got' = [trigger |-> got'.trigger, output |-> got'.output]
    BY <1>3, <2>1 DEF TraceType, VaultType, TS!None
  <2>5. flip => got.trigger \in {TS!None, TS!Whole(raw["trigger"])} \/ ("trigger" \in missed /\ vault["trigger"] # TS!None)
    BY <1>3, <2>1 DEF ResumedInv, TS!ResumesOnRaw
  <2>6. TraceType'
    BY <1>1, <1>2, <1>3, <2>4 DEF TraceType, VaultType, TS!None
  <2>7. trun' # "resumed" => c = TS!None
    BY <2>1
  <2>8. ResumedInv'
    BY <1>1, <2>2, <2>3, <2>4, <2>5, <2>7 DEF ResumedInv, TS!ResumesOnRaw, TS!None, TS!Whole
  <2>. QED
    BY <1>4, <2>6, <2>8 DEF TraceInv
<1>. QED
  BY <1>5, <1>6, <1>7

\* A job puts an asset into the vault, or seals it there, or does nothing.
LEMMA JobVault ==
  ASSUME TraceInv, trun = "paused", UNCHANGED <<trow, context, raw, missed, trun, got>>, NEW a \in TS!Assets,
         DOMAIN vault' = TS!Assets, VaultType',
         \A b \in TS!Assets : b # a => vault'[b] = vault[b],
         vault[a] # TS!None => vault'[a] # TS!None /\ vault'[a].c = vault[a].c,
         vault[a] = TS!None /\ vault'[a] # TS!None =>
           IF a = "trigger" THEN "trigger" \in missed ELSE vault'[a].c = TS!Whole(raw[a]),
         job' = "outputrow" => vault'["output"] # TS!None,
         job' = "errorrow" => vault'["error"] # TS!None /\ trow["error"] # TS!None,
         job' = "replace" => vault'["audit"] # TS!None
  PROVE  TraceInv'
<1>1. TraceType'
  BY DEF TraceInv, TraceType, VaultType, TS!None
<1>2. VaultInv'
  <2>1. \A b \in TS!Assets : trun' \notin Before(b)
    BY DEF Before
  <2>2. a # "trigger" =>
          /\ vault[a] # TS!None => vault[a].c = TS!Whole(raw[a])
          /\ trow[a] # TS!None => trow[a].c = TS!Whole(raw[a]) \/ vault[a] # TS!None
    BY DEF TraceInv, VaultInv
  <2>3. a # "trigger" =>
          /\ vault'[a] # TS!None => vault'[a].c = TS!Whole(raw'[a])
          /\ trow'[a] # TS!None => trow'[a].c = TS!Whole(raw'[a]) \/ vault'[a] # TS!None
    BY <2>2
  <2>. QED
    BY <2>1, <2>3, OneAssetMoves
<1>3. PutInv'
  BY DEF TraceInv, PutInv, TS!None, TS!Whole
<1>4. TriggerInv'
  <2>1. /\ vault["trigger"] # TS!None => vault'["trigger"] # TS!None /\ vault'["trigger"].c = vault["trigger"].c
        /\ vault["trigger"] = TS!None /\ vault'["trigger"] # TS!None => "trigger" \in missed
    BY DEF TS!Assets
  <2>. QED
    BY <2>1 DEF TraceInv, TriggerInv, TS!None, TS!Whole
<1>5. ResumedInv'
  BY DEF TraceInv, ResumedInv, TS!ResumesOnRaw, TS!None
<1>. QED
  BY <1>1, <1>2, <1>3, <1>4, <1>5 DEF TraceInv

\* A job rewrites the row of an asset whose raw the vault has.
LEMMA JobRow ==
  ASSUME TraceInv, trun = "paused", UNCHANGED <<context, vault, raw, missed, trun, got>>,
         NEW a \in TS!Assets \ {"trigger"}, vault[a] # TS!None, NEW x, x # TS!None,
         trow' = [trow EXCEPT ![a] = x], a = "error" => "c" \in DOMAIN x /\ x.c # TS!Whole({}),
         job' \in {"idle", "ledger"}
  PROVE  TraceInv'
<1>1. /\ DOMAIN trow' = TS!Assets /\ trow' = [b \in TS!Assets |-> trow'[b]] /\ trow'[a] = x
      /\ \A b \in TS!Assets : b # a => trow'[b] = trow[b]
  BY Zenon DEF TraceInv, TraceType, VaultType, TS!None
<1>2. TraceType'
  BY <1>1 DEF TraceInv, TraceType, VaultType, TS!None
<1>3. VaultInv'
  <2>1. \A b \in TS!Assets : trun' \notin Before(b)
    BY DEF Before
  <2>2. vault[a].c = TS!Whole(raw[a])
    BY DEF TraceInv, VaultInv
  <2>. QED
    BY <1>1, <2>1, <2>2, OneAssetMoves
<1>4. PutInv'
  <2>1. {"error", "output"} \subseteq TS!Assets
    BY DEF TS!Assets
  <2>2. trow'["error"] # TS!None => "c" \in DOMAIN trow'["error"] /\ trow'["error"].c # TS!Whole({})
    BY <1>1, <2>1 DEF TraceInv, PutInv
  <2>3. context # TS!None => trow'["output"] # TS!None
    BY <1>1, <2>1 DEF TraceInv, PutInv
  <2>. QED
    BY <2>2, <2>3 DEF PutInv, TS!None, TS!Whole
<1>5. TriggerInv'
  <2>1. trow'["trigger"] = trow["trigger"]
    BY <1>1 DEF TS!Assets
  <2>. QED
    BY <2>1, TriggerStays
<1>6. ResumedInv'
  BY DEF TraceInv, ResumedInv, TS!ResumesOnRaw, TS!None
<1>. QED
  BY <1>2, <1>3, <1>4, <1>5, <1>6 DEF TraceInv

\* One document that the migration seals.
LEMMA JobPut ==
  ASSUME TraceInv, trun = "paused", UNCHANGED <<trow, context, raw, missed, trun, got>>, NEW a \in TS!Assets,
         NEW after, TS!JobPuts(a, after), trow[a].c # TS!Whole({}),
         vault[a] = TS!None =>
           IF a = "trigger" THEN "trigger" \in missed ELSE trow[a].c = TS!Whole(raw[a]),
         after = "outputrow" => a = "output", after = "errorrow" => a = "error" /\ trow[a] # TS!None,
         after = "replace" => a = "audit"
  PROVE  TraceInv'
<1> DEFINE c == trow[a].c
<1>1. CASE TS!Put(a, c) /\ job' = after
  <2>1. /\ DOMAIN vault' = TS!Assets /\ VaultType'
        /\ \A b \in TS!Assets : b # a => vault'[b] = vault[b]
        /\ vault[a] # TS!None => vault' = vault
        /\ vault[a] = TS!None => vault'[a] # TS!None /\ vault'[a].c = c
    BY <1>1, Vaulted DEF TraceInv
  <2>2. vault'[a] # TS!None
    BY <2>1
  <2>3. /\ job' = "outputrow" => vault'["output"] # TS!None
        /\ job' = "errorrow" => vault'["error"] # TS!None /\ trow["error"] # TS!None
        /\ job' = "replace" => vault'["audit"] # TS!None
    BY <1>1, <2>2
  <2>. QED
    BY <2>1, <2>3, JobVault
<1>2. CASE job' \in {"conflict", "idle"} /\ vault' = vault
  <2>1. DOMAIN vault' = TS!Assets /\ VaultType'
    BY <1>2 DEF TraceInv, TraceType, VaultType, TS!None
  <2>2. job' # "outputrow" /\ job' # "errorrow" /\ job' # "replace"
    BY <1>2
  <2>. QED
    BY <1>2, <2>1, <2>2, JobVault
<1>. QED
  BY <1>1, <1>2 DEF TS!JobPuts

\* A job that leaves the stores as they are.
LEMMA JobMoves ==
  ASSUME TraceInv, trun = "paused", UNCHANGED <<trow, context, vault, raw, missed, trun, got>>,
         job' = "outputrow" => vault["output"] # TS!None,
         job' = "errorrow" => vault["error"] # TS!None /\ trow["error"] # TS!None,
         job' = "replace" => vault["audit"] # TS!None
  PROVE  TraceInv'
<1>1. DOMAIN vault' = TS!Assets /\ VaultType' /\ "audit" \in TS!Assets
  BY DEF TraceInv, TraceType, VaultType, TS!None, TS!Assets
<1>. QED
  BY <1>1, JobVault

\* The migration runs only beside a paused run.
LEMMA JobPhase ==
  ASSUME TraceInv, job # "idle" \/ (TS!Resting /\ trun # "new")
  PROVE  trun = "paused"
BY DEF TraceInv, TraceType, VaultType, TS!None, TS!Resting

\* The migration seals the trigger document.
LEMMA BackfillTriggerStep ==
  ASSUME TraceInv, TS!BackfillTrigger
  PROVE  TraceInv'
<1>1. /\ TS!Resting /\ trow["trigger"] # TS!None /\ UNCHANGED <<trow, context, raw, missed, trun, got>>
      /\ "trigger" \in TS!Assets
  BY DEF TS!BackfillTrigger, TS!Operating, TS!Assets
<1>2. trun = "paused"
  BY <1>1, JobPhase DEF TraceInv, TriggerInv
<1>3. CASE TS!Has("trigger") /\ TS!HasRaw("trigger", trow["trigger"].c)
  <2> DEFINE c == trow["trigger"].c
  <2>1. TS!JobPuts("trigger", "instance") /\ c # TS!Whole({})
    BY <1>3 DEF TS!BackfillTrigger, TS!Has
  <2>2. ASSUME vault["trigger"] = TS!None, "trigger" \notin missed
        PROVE  FALSE
    <3>1. raw["trigger"] = {}
      BY <1>2, <2>2 DEF TraceInv, TriggerInv
    <3>2. c.f = {} /\ c \in {TS!Whole(c.f), [f |-> c.f, cut |-> TRUE]}
      BY <1>1, <3>1 DEF TraceInv, TriggerInv
    <3>3. c = [f |-> {}, cut |-> TRUE]
      BY Zenon, <2>1, <3>2
    <3>4. TS!Project("trigger", build, c) = [f |-> {}, cut |-> TRUE]
      BY <3>2 DEF TS!Project
    <3>. QED
      BY <1>3, <3>3, <3>4 DEF TS!HasRaw
  <2> HIDE DEF c
  <2>. QED
    BY <1>1, <1>2, <2>1, <2>2, JobPut DEF c
<1>4. CASE vault' = vault /\ job' = "instance"
  <2>1. job' # "outputrow" /\ job' # "errorrow" /\ job' # "replace"
    BY <1>4
  <2>. QED
    BY <1>1, <1>2, <1>4, <2>1, JobMoves
<1>. QED
  BY <1>3, <1>4 DEF TS!BackfillTrigger

\* The context's copy of the output is projected before the output's own row:
\* that row, or the vault, still has the raw.
LEMMA BackfillInstanceStep ==
  ASSUME TraceInv, TS!BackfillInstance
  PROVE  TraceInv'
<1> DEFINE old == trow["trigger"].c
           c == IF old = TS!Whole({}) THEN old ELSE TS!Project("trigger", build, old)
           y == IF context = TS!None THEN trow["trigger"].stamp ELSE build
           x == [c |-> c, stamp |-> y]
<1>1. /\ job = "instance" /\ job' = "output" /\ UNCHANGED <<vault, raw, missed, trun, got>>
      /\ trow' = [trow EXCEPT !["trigger"] = x] /\ (context' # TS!None => context # TS!None)
  BY DEF TS!BackfillInstance, TS!Operating
<1>2. trun = "paused" /\ "trigger" \in TS!Assets /\ {"error", "output", "audit"} \subseteq TS!Assets
  BY <1>1, JobPhase DEF TS!Assets
<1>3. trow["trigger"] # TS!None
  BY <1>2 DEF TraceInv, TriggerInv
<1>4. x # TS!None /\ x.c = c
  BY Contents
<1>5. /\ c.f \subseteq raw["trigger"] /\ c \in {TS!Whole(c.f), [f |-> c.f, cut |-> TRUE]}
      /\ ~c.cut => c = TS!Whole(raw["trigger"])
  <2>1. /\ old.f \subseteq raw["trigger"] /\ old \in {TS!Whole(old.f), [f |-> old.f, cut |-> TRUE]}
        /\ ~old.cut => old = TS!Whole(raw["trigger"])
    BY <1>3 DEF TraceInv, TriggerInv
  <2>2. CASE old = TS!Whole({})
    BY <2>1, <2>2
  <2>3. CASE old # TS!Whole({})
    <3>1. c = [f |-> old.f \cap ShownFields[build], cut |-> TRUE]
      BY <2>3 DEF TS!Project
    <3> HIDE DEF c, old
    <3>2. c.f = old.f \cap ShownFields[build] /\ c.cut = TRUE /\ c = [f |-> c.f, cut |-> TRUE]
      BY <3>1
    <3>. QED
      BY <2>1, <3>2
  <2>. QED
    BY <2>2, <2>3
<1> HIDE DEF c, x, old, y
<1>6. /\ DOMAIN trow' = TS!Assets /\ trow' = [b \in TS!Assets |-> trow'[b]] /\ trow'["trigger"] = x
      /\ \A b \in TS!Assets : b # "trigger" => trow'[b] = trow[b]
  BY Zenon, <1>1, <1>2 DEF TraceInv, TraceType, VaultType, TS!None
<1>7. TraceType'
  BY <1>1, <1>2, <1>6 DEF TraceInv, TraceType, VaultType, TS!None
<1>8. VaultInv'
  <2>1. \A b \in TS!Assets : trun' \in Before(b) => trun \in Before(b)
    BY <1>1 DEF Before
  <2>. QED
    BY <1>1, <1>2, <1>6, <2>1, OneAssetMoves
<1>9. PutInv'
  BY <1>1, <1>2, <1>6 DEF TraceInv, PutInv, TS!None, TS!Whole
<1>10. TriggerInv'
  <2>1. trow'["trigger"].c = c /\ trow'["trigger"] # TS!None
    BY <1>4, <1>6
  <2>. QED
    BY Zenon, <1>1, <1>2, <1>5, <2>1 DEF TraceInv, TriggerInv, TS!None, TS!Whole
<1>11. ResumedInv'
  BY <1>1, <1>2 DEF TraceInv, ResumedInv, TS!ResumesOnRaw, TS!None
<1>. QED
  BY <1>7, <1>8, <1>9, <1>10, <1>11 DEF TraceInv

\* The migration seals the output.
LEMMA BackfillOutputStep ==
  ASSUME TraceInv, TS!BackfillOutput
  PROVE  TraceInv'
<1>1. /\ job = "output" /\ UNCHANGED <<trow, context, raw, missed, trun, got>> /\ "output" \in TS!Assets
  BY DEF TS!BackfillOutput, TS!Operating, TS!Assets
<1>2. trun = "paused"
  BY <1>1, JobPhase
<1>3. CASE TS!Has("output") /\ vault["output"] = TS!None /\ TS!JobPuts("output", "outputrow")
  <2>1. trow["output"].c # TS!Whole({}) /\ trow["output"].c = TS!Whole(raw["output"])
    BY <1>1, <1>3 DEF TS!Has, TraceInv, VaultInv
  <2>. QED
    BY <1>1, <1>2, <1>3, <2>1, JobPut
<1>4. CASE vault' = vault /\ (job' = "error" \/ (job' = "outputrow" /\ vault["output"] # TS!None))
  <2>1. job' # "errorrow" /\ job' # "replace" /\ (job' = "outputrow" => vault["output"] # TS!None)
    BY <1>4
  <2>. QED
    BY <1>1, <1>2, <1>4, <2>1, JobMoves
<1>. QED
  BY <1>3, <1>4 DEF TS!BackfillOutput

\* The migration seals the error.
LEMMA BackfillErrorStep ==
  ASSUME TraceInv, TS!BackfillError
  PROVE  TraceInv'
<1>1. /\ job = "error" /\ UNCHANGED <<trow, context, raw, missed, trun, got>> /\ "error" \in TS!Assets
  BY DEF TS!BackfillError, TS!Operating, TS!Assets
<1>2. trun = "paused"
  BY <1>1, JobPhase
<1>3. CASE trow["error"] # TS!None /\ TS!JobPuts("error", "errorrow")
  <2>1. /\ trow["error"].c # TS!Whole({})
        /\ vault["error"] = TS!None => trow["error"].c = TS!Whole(raw["error"])
    BY <1>1, <1>3 DEF TraceInv, VaultInv, PutInv
  <2>. QED
    BY <1>1, <1>2, <1>3, <2>1, JobPut
<1>4. CASE vault' = vault /\ job' = "idle"
  <2>1. job' # "errorrow" /\ job' # "replace" /\ job' # "outputrow"
    BY <1>4
  <2>. QED
    BY <1>1, <1>2, <1>4, <2>1, JobMoves
<1>. QED
  BY <1>3, <1>4 DEF TS!BackfillError

\* The migration seals the detail of the entry.
LEMMA MigrateDetailStep ==
  ASSUME TraceInv, TS!MigrateDetail
  PROVE  TraceInv'
<1>1. /\ TS!Resting /\ TS!Has("audit") /\ TS!JobPuts("audit", "replace")
      /\ UNCHANGED <<trow, context, raw, missed, trun, got>> /\ "audit" \in TS!Assets
  BY DEF TS!MigrateDetail, TS!Operating, TS!Assets
<1>2. /\ trow["audit"] # TS!None /\ trow["audit"].c # TS!Whole({}) /\ trun # "new"
      /\ vault["audit"] = TS!None => trow["audit"].c = TS!Whole(raw["audit"])
  BY <1>1 DEF TS!Has, TraceInv, VaultInv, Before
<1>3. trun = "paused"
  BY <1>1, <1>2, JobPhase
<1>. QED
  BY <1>1, <1>2, <1>3, JobPut

\* The rows are rewritten only after the put.
LEMMA RewriteStep ==
  ASSUME TraceInv, TS!BackfillOutputRow \/ TS!BackfillErrorRow \/ TS!ReplaceDetail
  PROVE  TraceInv'
<1>1. /\ UNCHANGED <<context, vault, raw, missed, trun, got>> /\ job # "idle"
      /\ {"output", "error", "audit"} \subseteq TS!Assets \ {"trigger"}
  BY DEF TS!BackfillOutputRow, TS!BackfillErrorRow, TS!ReplaceDetail, TS!Operating, TS!Assets
<1>2. trun = "paused"
  BY <1>1, JobPhase
<1>3. CASE TS!BackfillOutputRow
  <2> DEFINE x == [c |-> TS!Project("output", build, trow["output"].c), stamp |-> build]
  <2>1. trow' = [trow EXCEPT !["output"] = x] /\ job = "outputrow" /\ job' \in {"idle", "ledger"}
    BY <1>3 DEF TS!BackfillOutputRow
  <2>2. x # TS!None /\ vault["output"] # TS!None
    BY <2>1, Contents DEF TraceInv, PutInv
  <2> HIDE DEF x
  <2>. QED
    BY Zenon, <1>1, <1>2, <2>1, <2>2, JobRow
<1>4. CASE TS!ReplaceDetail
  <2> DEFINE x == [c |-> TS!Project("audit", build, trow["audit"].c), stamp |-> build]
  <2>1. trow' = [trow EXCEPT !["audit"] = x] /\ job = "replace" /\ job' \in {"idle", "ledger"}
    BY <1>4 DEF TS!ReplaceDetail
  <2>2. x # TS!None /\ vault["audit"] # TS!None
    BY <2>1, Contents DEF TraceInv, PutInv
  <2> HIDE DEF x
  <2>. QED
    BY Zenon, <1>1, <1>2, <2>1, <2>2, JobRow
<1>5. CASE TS!BackfillErrorRow
  <2> DEFINE x == [trow["error"] EXCEPT !.c = TS!Marker]
  <2>1. trow' = [trow EXCEPT !["error"] = x] /\ job = "errorrow" /\ job' \in {"idle", "ledger"}
    BY <1>5 DEF TS!BackfillErrorRow
  <2>2. vault["error"] # TS!None /\ "c" \in DOMAIN trow["error"]
    BY <2>1 DEF TraceInv, PutInv
  <2>3. "c" \in DOMAIN x /\ x.c = TS!Marker
    BY <2>2
  <2> HIDE DEF x
  <2>4. DOMAIN TS!None = {"none"}
    BY DEF TS!None
  <2>5. x # TS!None /\ x.c # TS!Whole({})
    BY <2>3, <2>4, Contents
  <2>. QED
    BY Zenon, <1>1, <1>2, <2>1, <2>2, <2>3, <2>5, JobRow
<1>. QED
  BY <1>3, <1>4, <1>5

\* Upgrades, the switch, the ledger and the re-sealing under a new key leave every document readable.
LEMMA OperatorStep ==
  ASSUME TraceInv, TS!Upgrade \/ TS!TurnOn \/ TS!AppendLedger \/ TS!JobEnds \/ TS!Reseal
  PROVE  TraceInv'
<1>1. CASE TS!AppendLedger \/ TS!JobEnds
  <2>1. /\ job # "idle" /\ job' = "idle" /\ UNCHANGED <<trow, context, vault, raw, missed, trun, got>>
    BY <1>1 DEF TS!AppendLedger, TS!JobEnds, TS!Operating, TS!store
  <2>2. trun = "paused"
    BY <2>1, JobPhase
  <2>3. job' # "outputrow" /\ job' # "errorrow" /\ job' # "replace"
    BY <2>1
  <2>. QED
    BY <2>1, <2>2, <2>3, JobMoves
<1>2. CASE TS!Reseal
  <2> DEFINE o == [vault["audit"] EXCEPT !.form = "sealed"]
  <2>1. /\ TS!Resting /\ vault["audit"] # TS!None /\ vault["audit"].form = "plain"
        /\ vault' = [vault EXCEPT !["audit"] = o]
        /\ UNCHANGED <<trow, context, raw, missed, trun, got, job>> /\ "audit" \in TS!Assets
    BY <1>2 DEF TS!Reseal, TS!Operating, TS!Assets
  <2>2. trun = "paused" /\ job = "idle"
    BY <2>1, JobPhase DEF TraceInv, VaultInv, Before, TS!Resting
  <2>3. o.c = vault["audit"].c /\ DOMAIN o = DOMAIN vault["audit"] /\ "form" \in DOMAIN o
    BY <2>1 DEF TraceInv, TraceType, VaultType
  <2> HIDE DEF o
  <2>4. /\ DOMAIN vault' = TS!Assets /\ vault' = [b \in TS!Assets |-> vault'[b]] /\ vault'["audit"] = o
        /\ \A b \in TS!Assets : b # "audit" => vault'[b] = vault[b]
    BY <2>1 DEF TraceInv, TraceType, VaultType
  <2>5. o # TS!None
    BY <2>3 DEF TS!None
  <2>7. VaultType'
    BY <2>3, <2>4 DEF TraceInv, TraceType, VaultType, TS!None
  <2>6. job' # "outputrow" /\ job' # "errorrow" /\ job' # "replace"
    BY <2>1, <2>2
  <2>. QED
    BY <2>1, <2>2, <2>3, <2>4, <2>5, <2>6, <2>7, JobVault
<1>3. CASE TS!Upgrade \/ TS!TurnOn
  <2>1. /\ trun \in {"new", "paused"} /\ UNCHANGED <<trow, context, vault, raw, missed, trun, job, got>>
    BY <1>3 DEF TS!Upgrade, TS!TurnOn, TS!Kept, TS!store, TS!Resting
  <2>2. TraceType'
    BY <2>1 DEF TraceInv, TraceType, VaultType, TS!None
  <2>3. VaultInv'
    BY <2>1 DEF TraceInv, VaultInv, Before, TS!None, TS!Whole
  <2>4. PutInv'
    BY <2>1 DEF TraceInv, PutInv, TS!None, TS!Whole
  <2>5. TriggerInv' /\ ResumedInv'
    BY <2>1 DEF TraceInv, TriggerInv, ResumedInv, TS!ResumesOnRaw, TS!None, TS!Whole
  <2>. QED
    BY <2>2, <2>3, <2>4, <2>5 DEF TraceInv
<1>. QED
  BY <1>1, <1>2, <1>3

\* The invariant over every step of the store.
LEMMA TraceStep ==
  ASSUME TraceInv, TS!Next
  PROVE  TraceInv'
<1>1. CASE TS!RunNext
  <2>1. CASE \E doc \in Raws : TS!Launch(doc) \/ TS!RunStep(doc) \/ TS!FailStep(doc) \/ TS!KeepDetail(doc)
    BY <2>1, LaunchStep, RunStepStep, FailStepStep, KeepDetailStep
  <2>. QED
    BY <1>1, <2>1, KeepTriggerStep, SaveOutputStep, AppendEntryStep, MarkOrCrashStep, ResumeStep DEF TS!RunNext
<1>2. CASE TS!JobNext
  BY <1>2, BackfillTriggerStep, BackfillInstanceStep, BackfillOutputStep, BackfillErrorStep, MigrateDetailStep,
     RewriteStep, OperatorStep DEF TS!JobNext
<1>. QED
  BY <1>1, <1>2, OperatorStep DEF TS!Next

\* The invariant before anything is stored.
LEMMA TraceInitially ==
  ASSUME TS!Init
  PROVE  TraceInv
<1>1. /\ trow = [a \in TS!Assets |-> TS!None] /\ vault = [a \in TS!Assets |-> TS!None] /\ context = TS!None
      /\ trun = "new" /\ job = "idle" /\ got = [trigger |-> TS!None, output |-> TS!None]
      /\ raw = [a \in TS!Assets |-> {}] /\ missed = {}
  BY DEF TS!Init
<1>2. {"trigger", "output", "error", "audit"} \subseteq TS!Assets
  BY DEF TS!Assets
<1>3. TraceType
  BY <1>1 DEF TraceType, VaultType, TS!None
<1>4. VaultInv
  BY <1>1 DEF VaultInv
<1>5. PutInv
  BY <1>1, <1>2 DEF PutInv
<1>6. TriggerInv /\ ResumedInv
  BY <1>1, <1>2 DEF TriggerInv, ResumedInv, TS!ResumesOnRaw
<1>. QED
  BY <1>3, <1>4, <1>5, <1>6 DEF TraceInv

\* What the invariant promises: every raw document is recoverable, and a resumed run reads it.
LEMMA TracePromise ==
  ASSUME TraceInv
  PROVE  TS!RawIsRecoverable /\ TS!ResumesOnRaw
<1>0. "output" \in TS!Assets /\ "trigger" \in TS!Assets
  BY DEF TS!Assets
<1>1. \A a \in TS!Assets \ {"trigger"} : trow[a] # TS!None => TS!Recoverable(a, trow[a].c)
  BY DEF TraceInv, VaultInv, TS!Recoverable
<1>2. TS!Recoverable("output", context) \/ trow["output"].c = TS!Whole(raw["output"])
  <2>1. CASE context = TS!None
    BY <2>1 DEF TS!Recoverable
  <2>2. CASE context # TS!None
    <3>1. trow["output"] # TS!None
      BY <2>2 DEF TraceInv, PutInv
    <3>. QED
      BY <1>0, <3>1 DEF TraceInv, VaultInv, TS!Recoverable
  <2>. QED
    BY <2>1, <2>2
<1>3. trow["trigger"] # TS!None =>
        TS!Recoverable("trigger", trow["trigger"].c) \/ trun = "trigger" \/ "trigger" \in missed
  BY DEF TraceInv, TriggerInv, TS!Recoverable
<1>. QED
  BY <1>1, <1>2, <1>3 DEF TraceInv, ResumedInv, TS!RawIsRecoverable

TracePart == part = "trace" => TraceInv

\* A table that no longer holds the raw of an asset has it in the vault, and a
\* resumption under the flip restores the raw or fails closed, whatever the
\* documents, the builds and what they show, whenever the flip and the key are
\* turned on, the jobs run and are cut off, or the process is killed
\* (trace_vault.py, trace_migration.py, trace_rehydrate.py, executor.py).
THEOREM RawIsNeverLost == Spec => []RawIsKept
<1>1. Init => TracePart
  BY TraceInitially DEF Init, TracePart
<1>2. TracePart /\ [Next]_all => TracePart'
  <2> SUFFICES ASSUME TracePart, [Next]_all, part' = "trace"
               PROVE  TraceInv'
    BY DEF TracePart
  <2>1. CASE Next
    <3>1. part = "trace" /\ TS!Next
      BY <2>1 DEF Next
    <3>. QED
      BY <3>1, TraceStep DEF TracePart
  <2>2. CASE UNCHANGED all
    <3>1. TraceInv /\ UNCHANGED <<v1, v2, v3, v4, v5, v7, v8, v9, v10, v11>>
      BY <2>2 DEF all, TracePart
    <3>2. VaultInv' /\ TraceType'
      BY <3>1 DEF TraceInv, TraceType, VaultType, TS!None, VaultInv, Before, TS!None, TS!Whole
    <3>3. PutInv'
      BY <3>1 DEF TraceInv, PutInv, TS!HasRaw, TS!Project, TS!Marker, TS!None, TS!Whole
    <3>4. TriggerInv' /\ ResumedInv'
      BY <3>1 DEF TraceInv, TriggerInv, ResumedInv, TS!ResumesOnRaw, TS!None, TS!Whole
    <3>. QED
      BY <3>2, <3>3, <3>4 DEF TraceInv
  <2>. QED
    BY <2>1, <2>2
<1>3. TracePart => RawIsKept
  BY TracePromise DEF TracePart, RawIsKept
<1>. QED
  BY <1>1, <1>2, <1>3, PTL DEF Spec

-----------------------------------------------------------------------------
(* LearnedMemory.                                                          *)

lives    == v1   \* its run
holder   == v2   \* its lock
meter    == v3   \* its adapter
worker   == v4   \* its thread
facts    == v5   \* its store
verdicts == v6   \* its judged
entered  == v7   \* its log
troubles == v8   \* its faults

LifeFields == {"phase", "index", "take", "total", "recalled", "category", "first"}
MemoryType ==
  /\ DOMAIN lives = MemoryRuns /\ DOMAIN worker = MemoryRuns
  /\ \A r \in MemoryRuns :
       DOMAIN lives[r] = LifeFields /\ lives[r].index \in Nat /\ lives[r].take \in Nat
  /\ DOMAIN meter = {"loop", "records"} /\ meter.records \in Seq(MemoryRuns)
  /\ DOMAIN troubles = {"count", "cancelled"}

\* The lock is of the run that is inside observe; a worker without its run
\* inside is one that a cancellation left.
InsideInv ==
  \A r \in MemoryRuns :
    /\ lives[r].phase = "inside" <=> holder = r
    /\ lives[r].phase = "inside" => worker[r] \in {"started", "asked", "stored", "raised"}
    /\ worker[r] # "none" => lives[r].phase \in {"inside", "stranded"}
    /\ worker[r] # "none" /\ ~troubles.cancelled => lives[r].phase = "inside"

\* The calls on the meter are those of the one inside, and its own is there.
MeterInv ==
  \A r \in MemoryRuns : lives[r].phase = "inside" =>
    /\ worker[r] = "stored" => Len(meter.records) >= 1
    /\ ~troubles.cancelled =>
         /\ worker[r] = "stored" => Len(meter.records) = 1
         /\ worker[r] \in {"started", "asked"} => Len(meter.records) = 0

\* A fact or an entry is of the run's observation, in the take under way.
OfTake(x, r, i) == x.run = r /\ x.index = i /\ x.take = lives[r].take

\* A fact of the take that is under way is of an observation behind it, or of
\* the one inside, and the one inside that has stored has its fact.
FactSound(f) ==
  /\ f.run \in MemoryRuns /\ f.ns = LM!Namespace(f.run) /\ f.index \in Nat /\ f.take \in Nat
  /\ f.take <= lives[f.run].take
  /\ f.take = lives[f.run].take =>
       /\ lives[f.run].phase # "driving"
       /\ \/ f.index < lives[f.run].index
          \/ /\ f.index = lives[f.run].index
             /\ \/ lives[f.run].phase \in {"stranded", "paused"}
                \/ lives[f.run].phase = "inside" /\ worker[f.run] = "stored"
FactInv ==
  /\ \A f \in facts : FactSound(f)
  /\ \A r \in MemoryRuns : lives[r].phase = "inside" /\ worker[r] = "stored" =>
       \E f \in facts : OfTake(f, r, lives[r].index)

\* An entry of the take that is under way is of an observation behind it.
EntrySound(e) ==
  /\ e.run \in MemoryRuns /\ e.index \in Nat /\ e.take \in Nat /\ e.spend \in Nat
  /\ e.subject = LM!Subject(e.run) /\ e.take <= lives[e.run].take
  /\ e.take = lives[e.run].take => lives[e.run].phase # "driving" /\ e.index < lives[e.run].index
  /\ e.action = "memory_observed" => e.spend >= 1 /\ (~troubles.cancelled => e.spend = 1)
NotedInv == \A e \in entered : EntrySound(e)

\* Every observation behind a run has its one entry, and its fact if it says so.
Accounted(r, i) ==
  \E e \in entered :
    /\ OfTake(e, r, i) /\ \A d \in entered : OfTake(d, r, i) => d = e
    /\ (e.action = "memory_observed") <=> (\E f \in facts : OfTake(f, r, i))
Counting == {"next", "inside", "completed", "corrected"}
ObservedInv ==
  Configured => \A r \in MemoryRuns : lives[r].phase \in Counting =>
    \A i \in 1 .. Len(Renders[r]) : i < lives[r].index => Accounted(r, i)
DoneInv == \A r \in MemoryRuns : LM!Settled(r) => lives[r].index > Len(Renders[r])

\* A total is of the calls that its take has entered.
TotalInv ==
  \A r \in MemoryRuns : IsFiniteSet(LM!Charges(r)) /\ lives[r].total = Cardinality(LM!Charges(r))

\* What was recalled is of the run's organization, and what was corrected was
\* disagreed with.
RecallInv == \A r \in MemoryRuns : \A f \in lives[r].recalled : f.run \in MemoryRuns /\ RunOrg[f.run] = RunOrg[r]
JudgedInv == (\A j \in verdicts : j.by \in MemoryRuns /\ j.ref \in MemoryRuns) /\ LM!CorrectionsAreDisagreements

MemoryInv ==
  /\ MemoryType /\ InsideInv /\ MeterInv /\ FactInv /\ NotedInv
  /\ ObservedInv /\ DoneInv /\ TotalInv /\ RecallInv /\ JudgedInv

USE DEF lives, holder, meter, worker, facts, verdicts, entered, troubles

-----------------------------------------------------------------------------
\* The other runs and their workers stay as they are.
OthersRest(r) == \A q \in MemoryRuns \ {r} : lives'[q] = lives[q] /\ worker'[q] = worker[q]

\* A run goes on: it starts over in a later take, or goes from the observations
\* behind it to the next, and a fact it has just stored is either passed or
\* still of the observation inside.
MovesOn(r) ==
  \/ lives'[r].take > lives[r].take
  \/ /\ lives'[r].take = lives[r].take
     /\ \/ lives[r].phase = "driving"
        \/ /\ lives'[r].phase # "driving" /\ lives'[r].index >= lives[r].index
           /\ \/ lives'[r].index > lives[r].index
              \/ lives[r].phase \notin {"stranded", "paused", "inside"}
              \/ lives'[r].phase \in {"stranded", "paused"}
              \/ /\ lives[r].phase = "inside" /\ lives'[r].phase = "inside"
                 /\ worker[r] # "stored" \/ worker'[r] = "stored"

\* The facts stay behind their runs.
LEMMA FactStep ==
  ASSUME MemoryInv, MemoryType', NEW r \in MemoryRuns, OthersRest(r), MovesOn(r), facts \subseteq facts',
         \A f \in facts' \ facts : FactSound(f)',
         lives'[r].phase = "inside" /\ worker'[r] = "stored" =>
           \E f \in facts' : f.run = r /\ f.index = lives'[r].index /\ f.take = lives'[r].take
  PROVE  FactInv'
<1>1. ASSUME NEW f \in facts PROVE FactSound(f)'
  <2>1. FactSound(f) /\ f.run \in MemoryRuns /\ lives[f.run].take \in Nat /\ lives[f.run].index \in Nat
        /\ lives'[f.run].take \in Nat /\ lives'[f.run].index \in Nat
    BY Zenon DEF MemoryInv, FactInv, FactSound, MemoryType
  <2>2. CASE f.run # r
    BY <2>1, <2>2 DEF FactSound, OthersRest, LM!Namespace
  <2>3. CASE f.run = r
    BY <2>1, <2>3 DEF FactSound, MovesOn, LM!Namespace
  <2>. QED
    BY <2>2, <2>3
<1>2. ASSUME NEW q \in MemoryRuns, lives'[q].phase = "inside", worker'[q] = "stored"
      PROVE  \E f \in facts' : OfTake(f, q, lives[q].index)'
  <2>1. CASE q = r
    BY <1>2, <2>1 DEF OfTake
  <2>2. CASE q # r
    BY <1>2, <2>2 DEF OfTake, OthersRest, MemoryInv, FactInv
  <2>. QED
    BY <2>1, <2>2
<1>. QED
  BY <1>1, <1>2 DEF FactInv

\* The entries stay behind their runs.
LEMMA NotedStep ==
  ASSUME MemoryInv, MemoryType', NEW r \in MemoryRuns, OthersRest(r), MovesOn(r),
         troubles.cancelled => troubles'.cancelled,
         \A e \in entered' \ entered : EntrySound(e)'
  PROVE  NotedInv'
<1>1. ASSUME NEW e \in entered PROVE EntrySound(e)'
  <2>1. EntrySound(e) /\ e.run \in MemoryRuns /\ lives[e.run].take \in Nat /\ lives[e.run].index \in Nat
        /\ lives'[e.run].take \in Nat /\ lives'[e.run].index \in Nat
    BY DEF MemoryInv, NotedInv, EntrySound, MemoryType
  <2>2. /\ e.take <= lives'[e.run].take
        /\ e.take = lives'[e.run].take => lives'[e.run].phase # "driving" /\ e.index < lives'[e.run].index
    <3>1. CASE e.run # r
      BY <2>1, <3>1 DEF EntrySound, OthersRest
    <3>2. CASE e.run = r
      BY <2>1, <3>2 DEF EntrySound, MovesOn
    <3>. QED
      BY <3>1, <3>2
  <2>3. e.action = "memory_observed" => e.spend >= 1 /\ (~troubles'.cancelled => e.spend = 1)
    BY <2>1 DEF EntrySound
  <2>. QED
    BY <2>1, <2>2, <2>3 DEF EntrySound, LM!Subject
<1>. QED
  BY <1>1 DEF NotedInv

\* What is behind a run stays accounted for.
LEMMA ObservedStep ==
  ASSUME MemoryInv, MemoryType', NEW r \in MemoryRuns, OthersRest(r), facts \subseteq facts', entered \subseteq entered',
         \A e \in entered' \ entered : e.run = r /\ (e.index = 0 \/ e.index >= lives[r].index),
         \A f \in facts' \ facts : f.run = r /\ f.index >= lives[r].index,
         Configured /\ lives'[r].phase \in Counting =>
           \/ lives'[r].index <= 1
           \/ /\ lives[r].phase \in Counting /\ lives'[r].take = lives[r].take
              /\ \/ lives'[r].index = lives[r].index
                 \/ /\ lives'[r].index = lives[r].index + 1
                    /\ \A i : i = lives[r].index => Accounted(r, i)'
  PROVE  ObservedInv'
<1> SUFFICES ASSUME Configured, NEW q \in MemoryRuns, lives'[q].phase \in Counting,
                    NEW i \in 1 .. Len(Renders[q]), i < lives'[q].index
             PROVE  Accounted(q, i)'
  BY DEF ObservedInv
<1>0. i \in Nat /\ i >= 1 /\ lives[q].index \in Nat
  BY MemoryAssumption DEF MemoryInv, MemoryType
<1>1. ASSUME i < lives[q].index, lives[q].phase \in Counting, lives'[q].take = lives[q].take
      PROVE  Accounted(q, i)'
  <2>1. Accounted(q, i)
    BY <1>1 DEF MemoryInv, ObservedInv
  <2>2. PICK e \in entered :
          /\ OfTake(e, q, i) /\ \A d \in entered : OfTake(d, q, i) => d = e
          /\ (e.action = "memory_observed") <=> (\E f \in facts : OfTake(f, q, i))
    BY <2>1 DEF Accounted
  <2>3. \A x : OfTake(x, q, i) <=> OfTake(x, q, i)'
    BY <1>1 DEF OfTake
  <2>4. \A x \in (entered' \ entered) \cup (facts' \ facts) : ~OfTake(x, q, i)
    BY <1>0, <1>1 DEF OfTake
  <2>5. OfTake(e, q, i)' /\ \A d \in entered' : OfTake(d, q, i)' => d = e
    BY <2>2, <2>3, <2>4
  <2>6. (\E f \in facts : OfTake(f, q, i)) <=> (\E f \in facts' : OfTake(f, q, i)')
    BY <2>3, <2>4
  <2>. QED
    BY <2>2, <2>5, <2>6 DEF Accounted
<1>2. CASE q # r
  BY <1>1, <1>2 DEF OthersRest
<1>3. CASE q = r
  <2>1. lives'[q].index \in Nat
    BY DEF MemoryType
  <2>2. /\ lives[r].phase \in Counting /\ lives'[r].take = lives[r].take
        /\ \/ lives'[r].index = lives[r].index
           \/ /\ lives'[r].index = lives[r].index + 1
              /\ \A j : j = lives[r].index => Accounted(r, j)'
    BY <1>0, <1>3, <2>1
  <2>3. i < lives[r].index \/ (i = lives[r].index /\ \A j : j = lives[r].index => Accounted(r, j)')
    BY <1>0, <1>3, <2>2
  <2>. QED
    BY <1>1, <1>3, <2>2, <2>3
<1>. QED
  BY <1>2, <1>3

\* The entry that ends an observation accounts for it.
LEMMA EntryAccounts ==
  ASSUME MemoryInv, NEW r \in MemoryRuns, NEW e, entered' = entered \cup {e}, facts' = facts,
         lives'[r].take = lives[r].take, OfTake(e, r, lives[r].index),
         (e.action = "memory_observed") <=> (\E f \in facts : OfTake(f, r, lives[r].index))
  PROVE  \A i : i = lives[r].index => Accounted(r, i)'
<1> SUFFICES ASSUME NEW i, i = lives[r].index PROVE Accounted(r, i)'
  OBVIOUS
<1>1. \A x : OfTake(x, r, i) <=> OfTake(x, r, i)'
  BY DEF OfTake
<1>2. \A d \in entered : ~OfTake(d, r, i)
  <2> SUFFICES ASSUME NEW d \in entered, OfTake(d, r, i) PROVE FALSE
    OBVIOUS
  <2>. QED
    BY DEF OfTake, MemoryInv, NotedInv, EntrySound, MemoryType
<1>. QED
  BY <1>1, <1>2 DEF Accounted

\* The calls that the notes have entered for a run's take.
Charged(notes, r, t) == UNION {{e} \X (1 .. e.spend) : e \in {x \in notes : x.run = r /\ x.take = t}}

\* A call that is charged is one of an entry's.
LEMMA ChargedFor ==
  ASSUME NEW notes, NEW r, NEW t, NEW x
  PROVE  x \in Charged(notes, r, t) <=>
           \E e \in notes : e.run = r /\ e.take = t /\ x \in {e} \X (1 .. e.spend)
<1> DEFINE own == {e \in notes : e.run = r /\ e.take = t}
           Calls(e) == {e} \X (1 .. e.spend)
<1>1. Charged(notes, r, t) = UNION {Calls(e) : e \in own}
  BY DEF Charged
<1>2. \A e : e \in own <=> e \in notes /\ e.run = r /\ e.take = t
  OBVIOUS
<1>3. x \in Charged(notes, r, t) <=> \E e \in own : x \in Calls(e)
  <2>. HIDE DEF own, Calls
  <2>. QED
    BY <1>1
<1>4. x \in Charged(notes, r, t) <=> \E e \in notes : e.run = r /\ e.take = t /\ x \in Calls(e)
  <2>. HIDE DEF own, Calls
  <2>. QED
    BY <1>2, <1>3
<1>. QED
  BY <1>4

\* An entry of n calls that is not there yet is n calls more.
LEMMA ChargedMore ==
  ASSUME NEW C, IsFiniteSet(C), NEW e, NEW n \in Nat, C \cap ({e} \X (1 .. n)) = {}
  PROVE  /\ IsFiniteSet(C \cup ({e} \X (1 .. n)))
         /\ Cardinality(C \cup ({e} \X (1 .. n))) = Cardinality(C) + n
<1> DEFINE D == {e} \X (1 .. n)
<1>1. IsFiniteSet(1 .. n) /\ Cardinality(1 .. n) = n
  <2>1. 1 \in Int /\ n \in Int
    OBVIOUS
  <2>2. IsFiniteSet(1 .. n) /\ Cardinality(1 .. n) = IF 1 > n THEN 0 ELSE n - 1 + 1
    BY ONLY <2>1, FS_Interval
  <2>. QED
    BY <2>2
<1>2. IsFiniteSet({e}) /\ Cardinality({e}) = 1
  BY Zenon, FS_Singleton
<1>3. IsFiniteSet(D) /\ Cardinality(D) = Cardinality({e}) * Cardinality(1 .. n)
  BY Zenon, <1>1, <1>2, FS_Product
<1>4. Cardinality(D) = n
  BY <1>1, <1>2, <1>3
<1> HIDE DEF D
<1>5. C \cap D = {}
  BY DEF D
<1>6. /\ IsFiniteSet(C \cup D)
      /\ Cardinality(C \cup D) = Cardinality(C) + Cardinality(D) - Cardinality(C \cap D)
  BY <1>3, FS_Union
<1>7. Cardinality(C \cap D) = 0 /\ Cardinality(C) \in Nat
  BY Zenon, <1>5, FS_EmptySet, FS_CardinalityType
<1>. QED
  BY <1>4, <1>6, <1>7 DEF D

\* A total follows the calls that are entered.
LEMMA TotalStep ==
  ASSUME MemoryInv, MemoryType', NEW r \in MemoryRuns, OthersRest(r),
         \/ /\ entered' = entered
            /\ \/ lives'[r].take = lives[r].take /\ lives'[r].total = lives[r].total
               \/ lives'[r].take > lives[r].take /\ lives'[r].total = 0
         \/ /\ lives'[r].take = lives[r].take
            /\ \E e : /\ entered' = entered \cup {e} /\ e.run = r /\ e.take = lives[r].take /\ e.spend \in Nat
                      /\ lives'[r].total = lives[r].total + e.spend /\ (e.spend = 0 \/ e \notin entered)
  PROVE  TotalInv'
<1> SUFFICES ASSUME NEW q \in MemoryRuns
             PROVE  IsFiniteSet(LM!Charges(q)') /\ lives'[q].total = Cardinality(LM!Charges(q)')
  BY DEF TotalInv
<1>1. LM!Charges(q) = Charged(entered, q, lives[q].take) /\ LM!Charges(q)' = Charged(entered', q, lives'[q].take)
  BY DEF LM!Charges, Charged
<1>2. IsFiniteSet(Charged(entered, q, lives[q].take))
      /\ lives[q].total = Cardinality(Charged(entered, q, lives[q].take))
  BY <1>1 DEF MemoryInv, TotalInv
<1>3. CASE entered' = entered /\ lives'[q].take = lives[q].take /\ lives'[q].total = lives[q].total
  BY <1>1, <1>2, <1>3
<1>4. CASE entered' = entered /\ lives'[q].take > lives[q].take /\ lives'[q].total = 0
  <2>1. \A e \in entered : ~(e.run = q /\ e.take = lives'[q].take)
    BY <1>4 DEF MemoryInv, NotedInv, EntrySound, MemoryType
  <2>2. Charged(entered', q, lives'[q].take) = {}
    BY <1>4, <2>1, ChargedFor
  <2>. QED
    BY <1>1, <1>4, <2>2, FS_EmptySet
<1>5. CASE /\ lives'[r].take = lives[r].take
           /\ \E e : /\ entered' = entered \cup {e} /\ e.run = r /\ e.take = lives[r].take /\ e.spend \in Nat
                     /\ lives'[r].total = lives[r].total + e.spend /\ (e.spend = 0 \/ e \notin entered)
  <2>1. PICK e : /\ entered' = entered \cup {e} /\ e.run = r /\ e.take = lives[r].take /\ e.spend \in Nat
                 /\ lives'[r].total = lives[r].total + e.spend /\ (e.spend = 0 \/ e \notin entered)
    BY <1>5
  <2> DEFINE C == Charged(entered, q, lives[q].take)
             D == {e} \X (1 .. e.spend)
  <2>2. lives'[q].take = lives[q].take
    BY <1>5 DEF OthersRest
  <2>3. CASE q # r
    <3>1. \A x : x \in Charged(entered', q, lives[q].take) <=> x \in C
      BY <2>1, <2>3, ChargedFor
    <3>2. Charged(entered', q, lives[q].take) = C /\ lives'[q].total = lives[q].total
      BY Zenon, <2>3, <3>1 DEF OthersRest
    <3>. QED
      BY <1>1, <1>2, <2>2, <3>2
  <2>4. CASE q = r
    <3>1. \A x : x \in Charged(entered', q, lives[q].take) <=> x \in C \cup D
      BY <2>1, <2>4, ChargedFor
    <3>2. Charged(entered', q, lives[q].take) = C \cup D
      BY <3>1
    <3>3. C \cap D = {}
      <4>1. CASE e.spend = 0
        BY <4>1
      <4>2. CASE e \notin entered
        <5> SUFFICES ASSUME NEW x \in C, x \in D PROVE FALSE
          OBVIOUS
        <5>1. PICK d \in entered : x \in {d} \X (1 .. d.spend)
          BY ChargedFor
        <5>2. x[1] = d /\ x[1] = e
          BY <5>1
        <5>. QED
          BY <4>2, <5>1, <5>2
      <4>. QED
        BY <2>1, <4>1, <4>2
    <3> HIDE DEF C, D
    <3>4. IsFiniteSet(C \cup D) /\ Cardinality(C \cup D) = Cardinality(C) + e.spend
      <4>1. IsFiniteSet(C)
        BY <1>2 DEF C
      <4>. QED
        BY <2>1, <3>3, <4>1, ChargedMore, Zenon DEF D
    <3>. QED
      BY Zenon, <1>1, <1>2, <2>1, <2>2, <2>4, <3>2, <3>4 DEF C
  <2>. QED
    BY <2>3, <2>4
<1>. QED
  BY <1>3, <1>4, <1>5 DEF OthersRest

\* What is inside observe is not disturbed by a run that is not.
LEMMA OutsideStep ==
  ASSUME MemoryInv, NEW r \in MemoryRuns, OthersRest(r), holder' = holder, worker' = worker, meter' = meter,
         troubles'.cancelled = troubles.cancelled,
         lives[r].phase \notin {"inside", "stranded"}, lives'[r].phase # "inside"
  PROVE  InsideInv' /\ MeterInv'
<1>1. worker[r] = "none" /\ holder # r
  BY DEF MemoryInv, InsideInv
<1>2. ASSUME NEW q \in MemoryRuns
      PROVE  /\ lives'[q].phase = "inside" <=> lives[q].phase = "inside"
             /\ q = r \/ lives'[q].phase = lives[q].phase
  BY DEF OthersRest
<1>3. InsideInv'
  BY <1>1, <1>2 DEF MemoryInv, InsideInv
<1>4. MeterInv'
  BY <1>2 DEF MemoryInv, MeterInv
<1>. QED
  BY <1>3, <1>4

\* A correction stays a disagreement.
LEMMA JudgedStays ==
  ASSUME MemoryInv, verdicts' = verdicts,
         \A q \in MemoryRuns : /\ lives'[q].category = lives[q].category
                               /\ lives[q].phase \in {"completed", "corrected"} =>
                                    lives'[q].phase \in {"completed", "corrected"}
  PROVE  JudgedInv'
<1> SUFFICES ASSUME NEW j \in verdicts
             PROVE  /\ j.by \in MemoryRuns /\ j.ref \in MemoryRuns
                    /\ lives'[j.by].phase \in {"completed", "corrected"} /\ Source[j.by] = j.ref
                    /\ lives'[j.ref].category # j.value /\ j.fact.ns = LM!Namespace(j.by)
  BY DEF JudgedInv, LM!CorrectionsAreDisagreements, LM!Settled, LM!Namespace
<1>1. /\ j.by \in MemoryRuns /\ j.ref \in MemoryRuns
      /\ lives[j.by].phase \in {"completed", "corrected"} /\ Source[j.by] = j.ref
      /\ lives[j.ref].category # j.value /\ j.fact.ns = LM!Namespace(j.by)
  BY DEF MemoryInv, JudgedInv, LM!CorrectionsAreDisagreements, LM!Settled
<1>2. lives'[j.by].phase \in {"completed", "corrected"}
  BY <1>1
<1>3. lives'[j.ref].category = lives[j.ref].category
  BY <1>1
<1>. QED
  BY <1>1, <1>2, <1>3

\* What a run recalled and how far it came stay right.
LEMMA RecallStays ==
  ASSUME MemoryInv, NEW r \in MemoryRuns, OthersRest(r),
         \A f \in lives'[r].recalled : f.run \in MemoryRuns /\ RunOrg[f.run] = RunOrg[r]
  PROVE  RecallInv'
<1>1. ASSUME NEW q \in MemoryRuns, NEW f \in lives'[q].recalled PROVE f.run \in MemoryRuns /\ RunOrg[f.run] = RunOrg[q]
  BY <1>1 DEF OthersRest, MemoryInv, RecallInv
<1>. QED
  BY <1>1 DEF RecallInv

\* A run that is done has all its observations behind it.
LEMMA DoneStep ==
  ASSUME MemoryInv, NEW r \in MemoryRuns, OthersRest(r),
         lives'[r].phase \in {"completed", "corrected"} => lives'[r].index > Len(Renders[r])
  PROVE  DoneInv'
BY DEF OthersRest, MemoryInv, DoneInv, LM!Settled

\* A fact under a run's namespace is of its organization.
LEMMA FactsOfTenant ==
  ASSUME MemoryInv, NEW r \in MemoryRuns, NEW f \in LM!FactsOf(LM!Namespace(r))
  PROVE  f \in facts /\ f.run \in MemoryRuns /\ f.ns = LM!Namespace(r) /\ RunOrg[f.run] = RunOrg[r]
BY DEF MemoryInv, FactInv, FactSound, LM!FactsOf, LM!Namespace

\* A run drives on, with the facts of its namespace, none, or after a failure.
LEMMA DriveKeeps ==
  ASSUME MemoryInv, NEW r \in MemoryRuns, LM!Drive(r)
  PROVE  MemoryInv'
<1>1. /\ lives[r].phase = "driving" /\ DOMAIN lives' = MemoryRuns /\ DOMAIN lives'[r] = LifeFields
      /\ lives'[r].phase = "next" /\ lives'[r].index = 1 /\ lives'[r].take = lives[r].take
      /\ lives'[r].total = lives[r].total /\ lives'[r].category = lives[r].category
      /\ lives'[r].recalled \in {lives[r].recalled, LM!FactsOf(LM!Namespace(r))}
      /\ \A q \in MemoryRuns \ {r} : lives'[q] = lives[q]
  <2>1. PICK recalled : recalled = LM!FactsOf(LM!Namespace(r))
    OBVIOUS
  <2>2. /\ lives[r].phase = "driving" /\ DOMAIN lives = MemoryRuns /\ DOMAIN lives[r] = LifeFields
        /\ \/ lives' = [lives EXCEPT ![r] = [lives[r] EXCEPT !.phase = "next", !.index = 1]]
           \/ lives' = [lives EXCEPT ![r] =
                          [[lives[r] EXCEPT !.phase = "next", !.index = 1] EXCEPT !.recalled = recalled]]
    BY <2>1 DEF LM!Drive, MemoryInv, MemoryType
  <2>. QED
    BY Zenon, <2>1, <2>2 DEF LifeFields
<1>2. /\ UNCHANGED <<holder, meter, worker, facts, verdicts>>
      /\ troubles'.cancelled = troubles.cancelled /\ DOMAIN troubles' = {"count", "cancelled"}
  BY DEF LM!Drive, MemoryInv, MemoryType
<1>3. OthersRest(r) /\ MovesOn(r)
  BY <1>1, <1>2 DEF OthersRest, MovesOn
<1>4. MemoryType'
  BY <1>1, <1>2 DEF MemoryInv, MemoryType
<1>5. \/ entered' = entered
      \/ \E e : /\ entered' = entered \cup {e} /\ e.run = r /\ e.take = lives[r].take /\ e.spend = 0 /\ e.index = 0
                /\ e.subject = LM!Subject(r) /\ e.action # "memory_observed"
  <2>1. PICK a, b : /\ a = LM!Entry("memory_recalled", r, 0, 0) /\ b = LM!Entry("memory_recall_failed", r, 0, 0)
    OBVIOUS
  <2>2. \A e \in {a, b} : /\ e.run = r /\ e.take = lives[r].take /\ e.spend = 0 /\ e.index = 0
                          /\ e.subject = LM!Subject(r) /\ e.action # "memory_observed"
    BY <2>1 DEF LM!Entry
  <2>3. entered' = entered \/ entered' = entered \cup {a} \/ entered' = entered \cup {b}
    BY <2>1 DEF LM!Drive
  <2>. QED
    BY <2>2, <2>3
<1>6. FactInv'
  BY <1>1, <1>2, <1>3, <1>4, FactStep
<1>7. ASSUME NEW e \in entered' \ entered PROVE EntrySound(e)'
  <2>1. /\ e.run = r /\ e.take = lives[r].take /\ e.spend = 0 /\ e.index = 0
        /\ e.subject = LM!Subject(r) /\ e.action # "memory_observed"
    BY <1>5, <1>7
  <2>. QED
    BY <1>1, <2>1 DEF EntrySound, LM!Subject, MemoryInv, MemoryType
<1>8. NotedInv'
  BY <1>2, <1>3, <1>4, <1>7, NotedStep
<1>9. ObservedInv'
  BY <1>1, <1>2, <1>3, <1>4, <1>5, ObservedStep
<1>10. lives[r].total \in Nat
  BY FS_CardinalityType DEF MemoryInv, TotalInv
<1>11. TotalInv'
  BY <1>1, <1>3, <1>4, <1>5, <1>10, TotalStep
<1>12. InsideInv' /\ MeterInv'
  BY <1>1, <1>2, <1>3, OutsideStep
<1>13. DoneInv'
  BY <1>1, <1>3, DoneStep
<1>14. RecallInv'
  BY <1>1, <1>3, FactsOfTenant, RecallStays DEF MemoryInv, RecallInv
<1>15. JudgedInv'
  BY <1>1, <1>2, JudgedStays
<1>. QED
  BY <1>4, <1>6, <1>8, <1>9, <1>11, <1>12, <1>13, <1>14, <1>15 DEF MemoryInv

\* An observation is passed, or all are where there is no memory.
LEMMA SkipKeeps ==
  ASSUME MemoryInv, NEW r \in MemoryRuns, LM!Skip(r)
  PROVE  MemoryInv'
<1>0. lives[r].index \in Nat /\ Len(Renders[r]) \in Nat
  BY MemoryAssumption DEF MemoryInv, MemoryType
<1>1. /\ lives[r].phase = "next" /\ DOMAIN lives' = MemoryRuns /\ DOMAIN lives'[r] = LifeFields
      /\ lives'[r].phase = "next" /\ lives'[r].index \in Nat /\ lives'[r].index > lives[r].index
      /\ Configured => lives'[r].index = lives[r].index + 1
      /\ lives'[r].take = lives[r].take /\ lives'[r].recalled = lives[r].recalled
      /\ lives'[r].total = lives[r].total /\ lives'[r].category = lives[r].category
      /\ \A q \in MemoryRuns \ {r} : lives'[q] = lives[q]
  BY <1>0 DEF LM!Skip, MemoryInv, MemoryType, LifeFields
<1>2. UNCHANGED <<holder, meter, worker, facts, verdicts, troubles>>
  BY DEF LM!Skip
<1>3. OthersRest(r) /\ MovesOn(r)
  BY <1>0, <1>1, <1>2 DEF OthersRest, MovesOn
<1>4. MemoryType'
  BY Zenon, <1>1, <1>2 DEF MemoryInv, MemoryType
<1>5. \E e : /\ entered' = entered \cup {e} /\ e.run = r /\ e.take = lives[r].take /\ e.spend = 0
             /\ e.subject = LM!Subject(r) /\ e.action # "memory_observed"
             /\ e.index \in Nat /\ (IF Configured THEN e.index = lives[r].index ELSE e.index = 0)
  <2>1. PICK a, b : /\ a = LM!Entry("memory_observe_skipped", r, 0, 0)
                    /\ b = LM!Entry("memory_observe_skipped", r, lives[r].index, 0)
    OBVIOUS
  <2>2. /\ \A e \in {a, b} : /\ e.run = r /\ e.take = lives[r].take /\ e.spend = 0
                             /\ e.subject = LM!Subject(r) /\ e.action # "memory_observed"
        /\ a.index = 0 /\ b.index = lives[r].index
    BY <2>1 DEF LM!Entry
  <2>3. IF Configured THEN entered' = entered \cup {b} ELSE entered' = entered \cup {a}
    BY <2>1 DEF LM!Skip
  <2>. QED
    BY <1>0, <2>2, <2>3
<1>6. PICK e : /\ entered' = entered \cup {e} /\ e.run = r /\ e.take = lives[r].take /\ e.spend = 0
               /\ e.subject = LM!Subject(r) /\ e.action # "memory_observed"
               /\ e.index \in Nat /\ (IF Configured THEN e.index = lives[r].index ELSE e.index = 0)
  BY <1>5
<1>7. FactInv'
  BY <1>1, <1>2, <1>3, <1>4, FactStep
<1>8. e.index < lives'[r].index
  BY <1>0, <1>1, <1>6
<1>9. EntrySound(e)'
  BY <1>1, <1>6, <1>8 DEF EntrySound, LM!Subject, MemoryInv, MemoryType
<1>10. NotedInv'
  BY <1>2, <1>3, <1>4, <1>6, <1>9, NotedStep
<1>11. ASSUME Configured PROVE \A i : i = lives[r].index => Accounted(r, i)'
  <2>1. OfTake(e, r, lives[r].index)
    BY <1>6, <1>11 DEF OfTake
  <2>2. \A f \in facts : ~OfTake(f, r, lives[r].index)
    <3> SUFFICES ASSUME NEW f \in facts, OfTake(f, r, lives[r].index) PROVE FALSE
      OBVIOUS
    <3>1. FactSound(f)
      BY DEF MemoryInv, FactInv
    <3>. QED
      BY <1>0, <1>1, <3>1 DEF FactSound, OfTake
  <2>. QED
    BY <1>1, <1>2, <1>6, <2>1, <2>2, EntryAccounts
<1>12. ObservedInv'
  <2>1. \A d \in entered' \ entered : d.run = r /\ (d.index = 0 \/ d.index >= lives[r].index)
    BY <1>0, <1>6
  <2>. QED
    BY <1>1, <1>2, <1>3, <1>4, <1>6, <1>11, <2>1, ObservedStep DEF Counting
<1>13. lives[r].total \in Nat
  BY FS_CardinalityType DEF MemoryInv, TotalInv
<1>14. TotalInv'
  BY <1>1, <1>3, <1>4, <1>6, <1>13, TotalStep
<1>15. InsideInv' /\ MeterInv'
  BY <1>1, <1>2, <1>3, OutsideStep
<1>16. DoneInv'
  BY <1>1, <1>3, DoneStep
<1>17. RecallInv'
  BY <1>1, <1>3, RecallStays DEF MemoryInv, RecallInv
<1>18. JudgedInv'
  BY <1>1, <1>2, JudgedStays
<1>. QED
  BY <1>4, <1>7, <1>10, <1>12, <1>14, <1>15, <1>16, <1>17, <1>18 DEF MemoryInv

\* A run completes with all its observations behind it.
LEMMA CompleteKeeps ==
  ASSUME MemoryInv, NEW r \in MemoryRuns, LM!Complete(r)
  PROVE  MemoryInv'
<1>0. lives[r].index \in Nat
  BY DEF MemoryInv, MemoryType
<1>1. /\ lives[r].phase = "next" /\ DOMAIN lives' = MemoryRuns /\ DOMAIN lives'[r] = LifeFields
      /\ lives'[r].phase = "completed" /\ lives'[r].index = lives[r].index
      /\ lives'[r].take = lives[r].take /\ lives'[r].recalled = lives[r].recalled
      /\ lives'[r].total = lives[r].total /\ lives'[r].category = lives[r].category
      /\ lives[r].index > Len(Renders[r])
      /\ \A q \in MemoryRuns \ {r} : lives'[q] = lives[q]
  BY DEF LM!Complete, MemoryInv, MemoryType, LifeFields
<1>2. UNCHANGED <<holder, meter, worker, facts, verdicts, entered, troubles>>
  BY DEF LM!Complete
<1>3. OthersRest(r) /\ MovesOn(r)
  BY <1>0, <1>1, <1>2 DEF OthersRest, MovesOn
<1>4. MemoryType'
  BY Zenon, <1>0, <1>1, <1>2 DEF MemoryInv, MemoryType
<1>5. FactInv'
  BY <1>1, <1>2, <1>3, <1>4, FactStep
<1>6. NotedInv'
  BY <1>2, <1>3, <1>4, NotedStep
<1>7. ObservedInv'
  BY <1>1, <1>2, <1>3, <1>4, ObservedStep DEF Counting
<1>8. TotalInv'
  BY <1>1, <1>2, <1>3, <1>4, TotalStep
<1>9. InsideInv' /\ MeterInv'
  BY <1>1, <1>2, <1>3, OutsideStep
<1>10. DoneInv'
  BY <1>1, <1>3, DoneStep
<1>11. RecallInv'
  BY <1>1, <1>3, RecallStays DEF MemoryInv, RecallInv
<1>12. JudgedInv'
  BY <1>1, <1>2, JudgedStays
<1>. QED
  BY <1>4, <1>5, <1>6, <1>7, <1>8, <1>9, <1>10, <1>11, <1>12 DEF MemoryInv

\* A completed fork says where it disagreed with the run it forked.
LEMMA CorrectKeeps ==
  ASSUME MemoryInv, NEW r \in MemoryRuns, LM!Correct(r)
  PROVE  MemoryInv'
<1>0. lives[r].index \in Nat /\ Source[r] \in MemoryRuns
  BY MemoryAssumption DEF LM!Correct, MemoryInv, MemoryType
<1>1. /\ lives[r].phase = "completed" /\ DOMAIN lives' = MemoryRuns /\ DOMAIN lives'[r] = LifeFields
      /\ lives'[r].phase = "corrected" /\ lives'[r].index = lives[r].index
      /\ lives'[r].take = lives[r].take /\ lives'[r].recalled = lives[r].recalled
      /\ lives'[r].total = lives[r].total /\ lives'[r].category = lives[r].category
      /\ \A q \in MemoryRuns \ {r} : lives'[q] = lives[q]
  BY DEF LM!Correct, MemoryInv, MemoryType, LifeFields
<1>2. UNCHANGED <<holder, meter, worker, facts, entered, troubles>>
  BY DEF LM!Correct
<1>3. OthersRest(r) /\ MovesOn(r)
  BY <1>0, <1>1, <1>2 DEF OthersRest, MovesOn
<1>4. MemoryType'
  BY Zenon, <1>0, <1>1, <1>2 DEF MemoryInv, MemoryType
<1>5. FactInv'
  BY <1>1, <1>2, <1>3, <1>4, FactStep
<1>6. NotedInv'
  BY <1>2, <1>3, <1>4, NotedStep
<1>7. ObservedInv'
  BY <1>1, <1>2, <1>3, <1>4, ObservedStep DEF Counting
<1>8. TotalInv'
  BY <1>1, <1>2, <1>3, <1>4, TotalStep
<1>9. InsideInv' /\ MeterInv'
  BY <1>1, <1>2, <1>3, OutsideStep
<1>10. DoneInv'
  <2>1. lives[r].index > Len(Renders[r])
    BY <1>1 DEF MemoryInv, DoneInv, LM!Settled
  <2>. QED
    BY <1>1, <1>3, <2>1, DoneStep
<1>11. RecallInv'
  BY <1>1, <1>3, RecallStays DEF MemoryInv, RecallInv
<1>12. \A q \in MemoryRuns : /\ lives'[q].category = lives[q].category
                             /\ lives[q].phase \in {"completed", "corrected"} =>
                                  lives'[q].phase \in {"completed", "corrected"}
  BY <1>1
<1>13. ASSUME NEW j \in verdicts'
       PROVE  /\ j.by \in MemoryRuns /\ j.ref \in MemoryRuns
              /\ lives'[j.by].phase \in {"completed", "corrected"} /\ Source[j.by] = j.ref
              /\ lives'[j.ref].category # j.value /\ j.fact.ns = LM!Namespace(j.by)
  <2>1. CASE j \in verdicts
    <3>1. /\ j.by \in MemoryRuns /\ j.ref \in MemoryRuns
          /\ lives[j.by].phase \in {"completed", "corrected"} /\ Source[j.by] = j.ref
          /\ lives[j.ref].category # j.value /\ j.fact.ns = LM!Namespace(j.by)
      BY <2>1 DEF MemoryInv, JudgedInv, LM!CorrectionsAreDisagreements, LM!Settled
    <3>2. lives'[j.by].phase \in {"completed", "corrected"}
      BY <1>12, <3>1
    <3>3. lives'[j.ref].category = lives[j.ref].category
      BY <1>12, <3>1
    <3>. QED
      BY <3>1, <3>2, <3>3
  <2>2. CASE j \notin verdicts
    <3>1. /\ lives[Source[r]].category # lives[r].category
          /\ \E f \in LM!FactsOf(LM!Namespace(r)) :
               j = [fact |-> f, by |-> r, ref |-> Source[r], value |-> lives[r].category]
      BY <2>2, <1>13 DEF LM!Correct
    <3>2. PICK f \in LM!FactsOf(LM!Namespace(r)) :
            j = [fact |-> f, by |-> r, ref |-> Source[r], value |-> lives[r].category]
      BY <3>1
    <3>3. f.ns = LM!Namespace(r)
      BY FactsOfTenant
    <3>4. j.fact = f /\ j.by = r /\ j.ref = Source[r] /\ j.value = lives[r].category
      BY <3>2
    <3>. QED
      BY <1>0, <1>1, <1>12, <3>1, <3>3, <3>4
  <2>. QED
    BY <2>1, <2>2
<1>14. JudgedInv'
  BY <1>13 DEF JudgedInv, LM!CorrectionsAreDisagreements, LM!Settled, LM!Namespace
<1>. QED
  BY <1>4, <1>5, <1>6, <1>7, <1>8, <1>9, <1>10, <1>11, <1>14 DEF MemoryInv

\* A paused run starts over, in a take of which there is nothing yet.
LEMMA ResumeKeeps ==
  ASSUME MemoryInv, NEW r \in MemoryRuns, LM!Resume(r)
  PROVE  MemoryInv'
<1>0. lives[r].index \in Nat /\ lives[r].take \in Nat
  BY DEF MemoryInv, MemoryType
<1>1. /\ lives[r].phase = "paused" /\ DOMAIN lives' = MemoryRuns /\ DOMAIN lives'[r] = LifeFields
      /\ lives'[r].phase = "driving" /\ lives'[r].index = lives[r].index
      /\ lives'[r].take = lives[r].take + 1 /\ lives'[r].recalled = lives[r].recalled
      /\ lives'[r].total = 0 /\ lives'[r].category = lives[r].category
      /\ \A q \in MemoryRuns \ {r} : lives'[q] = lives[q]
  BY DEF LM!Resume, MemoryInv, MemoryType, LifeFields
<1>2. UNCHANGED <<holder, meter, worker, facts, verdicts, entered, troubles>>
  BY DEF LM!Resume
<1>3. OthersRest(r) /\ MovesOn(r)
  BY <1>0, <1>1, <1>2 DEF OthersRest, MovesOn
<1>4. MemoryType'
  <2>1. lives'[r].take \in Nat /\ lives'[r].index \in Nat
    BY <1>0, <1>1
  <2>2. \A q \in MemoryRuns :
          DOMAIN lives'[q] = LifeFields /\ lives'[q].index \in Nat /\ lives'[q].take \in Nat
    BY <1>1, <2>1 DEF MemoryInv, MemoryType
  <2>. QED
    BY <1>1, <1>2, <2>2 DEF MemoryInv, MemoryType
<1>5. FactInv'
  BY <1>1, <1>2, <1>3, <1>4, FactStep
<1>6. NotedInv'
  BY <1>2, <1>3, <1>4, NotedStep
<1>7. ObservedInv'
  BY <1>1, <1>2, <1>3, <1>4, ObservedStep DEF Counting
<1>8. TotalInv'
  BY <1>0, <1>1, <1>2, <1>3, <1>4, TotalStep
<1>9. InsideInv' /\ MeterInv'
  BY <1>1, <1>2, <1>3, OutsideStep
<1>10. DoneInv'
  BY <1>1, <1>3, DoneStep
<1>11. RecallInv'
  BY <1>1, <1>3, RecallStays DEF MemoryInv, RecallInv
<1>12. JudgedInv'
  BY <1>1, <1>2, JudgedStays
<1>. QED
  BY <1>4, <1>5, <1>6, <1>7, <1>8, <1>9, <1>10, <1>11, <1>12 DEF MemoryInv

\* A run takes the lock: the meter is empty and its worker starts.
LEMMA TakeKeeps ==
  ASSUME MemoryInv, NEW r \in MemoryRuns, LM!Take(r)
  PROVE  MemoryInv'
<1>0. lives[r].index \in Nat
  BY DEF MemoryInv, MemoryType
<1>1. /\ lives[r].phase = "next" /\ DOMAIN lives' = MemoryRuns /\ DOMAIN lives'[r] = LifeFields
      /\ lives'[r].phase = "inside" /\ lives'[r].index = lives[r].index
      /\ lives'[r].take = lives[r].take /\ lives'[r].recalled = lives[r].recalled
      /\ lives'[r].total = lives[r].total /\ lives'[r].category = lives[r].category
      /\ \A q \in MemoryRuns \ {r} : lives'[q] = lives[q]
  BY DEF LM!Take, LM!Asking, MemoryInv, MemoryType, LifeFields
<1>2. /\ UNCHANGED <<facts, verdicts, entered, troubles>> /\ holder = Nobody /\ holder' = r
      /\ meter' = [loop |-> TRUE, records |-> <<>>]
      /\ DOMAIN worker' = MemoryRuns /\ worker'[r] = "started" /\ \A q \in MemoryRuns \ {r} : worker'[q] = worker[q]
  BY DEF LM!Take, MemoryInv, MemoryType
<1>3. OthersRest(r) /\ MovesOn(r)
  BY <1>0, <1>1, <1>2 DEF OthersRest, MovesOn
<1>4. MemoryType'
  <2>1. DOMAIN meter' = {"loop", "records"} /\ meter'.records = <<>> /\ <<>> \in Seq(MemoryRuns)
    BY <1>2
  <2>. QED
    BY Zenon, <1>0, <1>1, <1>2, <2>1 DEF MemoryInv, MemoryType
<1>5. FactInv'
  BY <1>1, <1>2, <1>3, <1>4, FactStep
<1>6. NotedInv'
  BY <1>2, <1>3, <1>4, NotedStep
<1>7. ObservedInv'
  BY <1>1, <1>2, <1>3, <1>4, ObservedStep DEF Counting
<1>8. TotalInv'
  BY <1>1, <1>2, <1>3, <1>4, TotalStep
<1>9. \A q \in MemoryRuns : lives[q].phase # "inside"
  BY <1>2, MemoryAssumption DEF MemoryInv, InsideInv
<1>10. InsideInv'
  BY <1>1, <1>2, <1>9 DEF MemoryInv, InsideInv
<1>11. MeterInv'
  <2>1. Len(meter'.records) = 0
    BY <1>2
  <2>. QED
    BY <1>1, <1>2, <1>9, <2>1 DEF MeterInv
<1>12. DoneInv'
  BY <1>1, <1>3, DoneStep
<1>13. RecallInv'
  BY <1>1, <1>3, RecallStays DEF MemoryInv, RecallInv
<1>14. JudgedInv'
  BY <1>1, <1>2, JudgedStays
<1>. QED
  BY <1>4, <1>5, <1>6, <1>7, <1>8, <1>10, <1>11, <1>12, <1>13, <1>14 DEF MemoryInv

\* A worker calls, through the adapter as it finds it.
LEMMA AskKeeps ==
  ASSUME MemoryInv, NEW r \in MemoryRuns, LM!Ask(r)
  PROVE  MemoryInv'
<1>1. /\ UNCHANGED <<lives, holder, meter, facts, verdicts, entered, troubles>>
      /\ worker[r] = "started" /\ DOMAIN worker' = MemoryRuns /\ worker'[r] \in {"asked", "raised"}
      /\ \A q \in MemoryRuns \ {r} : worker'[q] = worker[q]
  BY DEF LM!Ask, MemoryInv, MemoryType
<1>2. lives[r].index \in Nat /\ lives[r].take \in Nat
      /\ lives[r].phase \in {"inside", "stranded"} /\ (~troubles.cancelled => lives[r].phase = "inside")
  BY <1>1 DEF MemoryInv, MemoryType, InsideInv
<1>3. OthersRest(r) /\ MovesOn(r)
  BY <1>1, <1>2 DEF OthersRest, MovesOn
<1>4. MemoryType'
  BY <1>1 DEF MemoryInv, MemoryType
<1>5. FactInv'
  BY <1>1, <1>3, <1>4, FactStep
<1>6. NotedInv'
  BY <1>1, <1>3, <1>4, NotedStep
<1>7. ObservedInv'
  BY <1>1, <1>3, <1>4, ObservedStep
<1>8. TotalInv'
  BY <1>1, <1>3, <1>4, TotalStep
<1>9. InsideInv'
  BY <1>1, <1>2 DEF MemoryInv, InsideInv
<1>10. MeterInv'
  BY <1>1 DEF MemoryInv, MeterInv
<1>11. DoneInv'
  BY <1>1 DEF MemoryInv, DoneInv, LM!Settled
<1>12. RecallInv'
  BY <1>1 DEF MemoryInv, RecallInv
<1>13. JudgedInv'
  BY <1>1, JudgedStays
<1>. QED
  BY <1>4, <1>5, <1>6, <1>7, <1>8, <1>9, <1>10, <1>11, <1>12, <1>13 DEF MemoryInv

\* The answer puts the call on the meter and the fact in the store, or fails.
LEMMA AnsweredKeeps ==
  ASSUME MemoryInv, NEW r \in MemoryRuns, LM!Answered(r)
  PROVE  MemoryInv'
<1>1. /\ UNCHANGED <<lives, holder, verdicts, entered>> /\ worker[r] = "asked" /\ DOMAIN worker' = MemoryRuns
      /\ \A q \in MemoryRuns \ {r} : worker'[q] = worker[q]
      /\ troubles'.cancelled = troubles.cancelled /\ DOMAIN troubles' = {"count", "cancelled"}
  BY DEF LM!Answered, MemoryInv, MemoryType
<1>2. lives[r].index \in Nat /\ lives[r].take \in Nat
      /\ lives[r].phase \in {"inside", "stranded"} /\ (~troubles.cancelled => lives[r].phase = "inside")
  BY <1>1 DEF MemoryInv, MemoryType, InsideInv
<1>3. OthersRest(r) /\ MovesOn(r)
  BY <1>1, <1>2 DEF OthersRest, MovesOn
<1>4. \/ /\ worker'[r] = "stored" /\ DOMAIN meter' = {"loop", "records"} /\ meter'.records \in Seq(MemoryRuns)
         /\ Len(meter'.records) = Len(meter.records) + 1
      \/ worker'[r] = "raised" /\ meter' = meter /\ facts' = facts
  <2>1. DOMAIN meter = {"loop", "records"} /\ meter.records \in Seq(MemoryRuns) /\ DOMAIN worker = MemoryRuns
    BY DEF MemoryInv, MemoryType
  <2>2. PICK calls \in Seq(MemoryRuns) : calls = meter.records
    BY <2>1
  <2>3. Append(calls, r) \in Seq(MemoryRuns) /\ Len(Append(calls, r)) = Len(calls) + 1
    BY Appended
  <2>4. \/ worker'[r] = "stored" /\ meter' = [meter EXCEPT !.records = Append(calls, r)]
        \/ worker'[r] = "raised" /\ meter' = meter /\ facts' = facts
    BY <2>1, <2>2 DEF LM!Answered
  <2>. QED
    BY <2>1, <2>2, <2>3, <2>4
<1>5. \/ worker'[r] = "raised" /\ facts' = facts
      \/ /\ worker'[r] = "stored"
         /\ \E f : /\ facts' = facts \cup {f} /\ f.run = r /\ f.ns = LM!Namespace(r)
                   /\ f.index = lives[r].index /\ f.take = lives[r].take
  <2>1. PICK f : f = [ns |-> LM!Namespace(r), run |-> r, index |-> lives[r].index, take |-> lives[r].take]
    BY Zenon
  <2>2. worker'[r] = "stored" => facts' = facts \cup {f}
    BY <1>1, <2>1 DEF LM!Answered, MemoryInv, MemoryType
  <2>. QED
    BY <1>4, <2>1, <2>2
<1>6. MemoryType'
  BY <1>1, <1>4 DEF MemoryInv, MemoryType
<1>7. FactInv'
  <2>1. CASE worker'[r] = "raised" /\ facts' = facts
    BY <1>1, <1>3, <1>6, <2>1, FactStep
  <2>2. CASE /\ worker'[r] = "stored"
             /\ \E f : /\ facts' = facts \cup {f} /\ f.run = r /\ f.ns = LM!Namespace(r)
                       /\ f.index = lives[r].index /\ f.take = lives[r].take
    <3>1. PICK f : /\ facts' = facts \cup {f} /\ f.run = r /\ f.ns = LM!Namespace(r)
                   /\ f.index = lives[r].index /\ f.take = lives[r].take
      BY <2>2
    <3>2. FactSound(f)'
      BY <1>1, <1>2, <2>2, <3>1 DEF FactSound, LM!Namespace
    <3>. QED
      BY <1>1, <1>3, <1>6, <3>1, <3>2, FactStep
  <2>. QED
    BY <1>5, <2>1, <2>2
<1>8. NotedInv'
  BY <1>1, <1>3, <1>6, NotedStep
<1>9. ObservedInv'
  <2>1. \A f \in facts' \ facts : f.run = r /\ f.index >= lives[r].index
    BY <1>2, <1>5
  <2>. QED
    BY <1>1, <1>3, <1>5, <1>6, <2>1, ObservedStep
<1>10. TotalInv'
  BY <1>1, <1>3, <1>6, TotalStep
<1>11. InsideInv'
  BY <1>1, <1>2, <1>4 DEF MemoryInv, InsideInv
<1>12. MeterInv'
  <2>0. Len(meter.records) \in Nat
    BY DEF MemoryInv, MemoryType
  <2> SUFFICES ASSUME NEW q \in MemoryRuns, lives[q].phase = "inside"
               PROVE  /\ worker'[q] = "stored" => Len(meter'.records) >= 1
                      /\ ~troubles.cancelled =>
                           /\ worker'[q] = "stored" => Len(meter'.records) = 1
                           /\ worker'[q] \in {"started", "asked"} => Len(meter'.records) = 0
    BY <1>1 DEF MeterInv
  <2>1. /\ worker[q] = "stored" => Len(meter.records) >= 1
        /\ ~troubles.cancelled =>
             /\ worker[q] = "stored" => Len(meter.records) = 1
             /\ worker[q] \in {"started", "asked"} => Len(meter.records) = 0
    BY DEF MemoryInv, MeterInv
  <2>2. CASE q = r
    <3>1. ~troubles.cancelled => Len(meter.records) = 0
      BY <1>1, <2>1, <2>2
    <3>2. worker'[q] \in {"stored", "raised"}
      BY <1>4, <2>2
    <3>3. worker'[q] = "stored" => Len(meter'.records) = Len(meter.records) + 1
      BY <1>4, <2>2
    <3>4. worker'[q] = "stored" => Len(meter'.records) >= 1
      BY <2>0, <3>3
    <3>5. Len(meter.records) = 0 /\ worker'[q] = "stored" => Len(meter'.records) = 1
      BY <3>3
    <3>. QED
      BY <3>1, <3>2, <3>4, <3>5
  <2>3. CASE q # r
    <3>1. worker'[q] = worker[q] /\ troubles.cancelled
      BY <1>1, <1>2, <2>3 DEF MemoryInv, InsideInv
    <3>. QED
      BY <1>4, <2>0, <2>1, <3>1
  <2>. QED
    BY <2>2, <2>3
<1>13. DoneInv'
  BY <1>1 DEF MemoryInv, DoneInv, LM!Settled
<1>14. RecallInv'
  BY <1>1 DEF MemoryInv, RecallInv
<1>15. JudgedInv'
  BY <1>1, JudgedStays
<1>. QED
  BY <1>6, <1>7, <1>8, <1>9, <1>10, <1>11, <1>12, <1>13, <1>14, <1>15 DEF MemoryInv

\* observe returns or raises: the observation is accounted for and its calls
\* are paid.
LEMMA SettleKeeps ==
  ASSUME MemoryInv, NEW r \in MemoryRuns, LM!Settle(r)
  PROVE  MemoryInv'
<1>0. /\ lives[r].index \in Nat /\ lives[r].take \in Nat /\ lives[r].total \in Nat
      /\ Len(meter.records) \in Nat /\ lives[r].phase = "inside" /\ worker[r] \in {"stored", "raised"}
  BY FS_CardinalityType DEF LM!Settle, MemoryInv, MemoryType, TotalInv
<1>1. PICK spend \in Nat :
        /\ spend = IF worker[r] = "stored" THEN Len(meter.records) ELSE 0
        /\ lives'[r].total = lives[r].total + spend
        /\ DOMAIN lives' = MemoryRuns /\ DOMAIN lives'[r] = LifeFields
        /\ lives'[r].phase = "next" /\ lives'[r].index = lives[r].index + 1
        /\ lives'[r].take = lives[r].take /\ lives'[r].recalled = lives[r].recalled
        /\ lives'[r].category = lives[r].category
        /\ \A q \in MemoryRuns \ {r} : lives'[q] = lives[q]
  <2>1. DOMAIN lives = MemoryRuns /\ DOMAIN lives[r] = LifeFields
    BY DEF MemoryInv, MemoryType
  <2>2. PICK spend : spend = Len(meter.records)
    BY Zenon
  <2>3. CASE worker[r] = "stored"
    <3>1. lives' = [lives EXCEPT ![r].phase = "next", ![r].index = @ + 1, ![r].total = @ + spend]
      BY <2>2, <2>3 DEF LM!Settle
    <3>. QED
      BY <1>0, <2>1, <2>2, <2>3, <3>1 DEF LifeFields
  <2>4. CASE worker[r] = "raised"
    <3>1. lives' = [lives EXCEPT ![r].phase = "next", ![r].index = @ + 1]
      BY <2>4 DEF LM!Settle
    <3>. QED
      BY <1>0, <2>1, <2>4, <3>1 DEF LifeFields
  <2>. QED
    BY <1>0, <2>3, <2>4
<1>2. /\ UNCHANGED <<facts, verdicts, troubles>> /\ holder' = Nobody
      /\ DOMAIN meter' = {"loop", "records"} /\ meter'.records = meter.records
      /\ DOMAIN worker' = MemoryRuns /\ worker'[r] = "none" /\ \A q \in MemoryRuns \ {r} : worker'[q] = worker[q]
  BY DEF LM!Settle, MemoryInv, MemoryType
<1>3. PICK e : /\ entered' = entered \cup {e} /\ e.run = r /\ e.take = lives[r].take /\ e.spend = spend
               /\ e.subject = LM!Subject(r) /\ e.index = lives[r].index
               /\ e.action = "memory_observed" <=> worker[r] = "stored"
  <2>1. PICK a, b : /\ a = LM!Entry("memory_observed", r, lives[r].index, Len(meter.records))
                    /\ b = LM!Entry("memory_observe_failed", r, lives[r].index, 0)
    OBVIOUS
  <2>2. /\ \A e \in {a, b} : e.run = r /\ e.take = lives[r].take /\ e.subject = LM!Subject(r)
                             /\ e.index = lives[r].index
        /\ a.action = "memory_observed" /\ b.action = "memory_observe_failed"
        /\ a.spend = Len(meter.records) /\ b.spend = 0
    BY <2>1 DEF LM!Entry
  <2>3. IF worker[r] = "stored" THEN entered' = entered \cup {a} ELSE entered' = entered \cup {b}
    BY <2>1 DEF LM!Settle
  <2>. QED
    BY <1>1, <2>2, <2>3
<1>4. OthersRest(r) /\ MovesOn(r)
  BY <1>0, <1>1, <1>2 DEF OthersRest, MovesOn
<1>5. MemoryType'
  <2>0. lives'[r].index \in Nat /\ lives'[r].take \in Nat
    BY <1>0, <1>1
  <2>1. \A q \in MemoryRuns : DOMAIN lives'[q] = LifeFields /\ lives'[q].index \in Nat /\ lives'[q].take \in Nat
    BY Zenon, <1>1, <2>0 DEF MemoryInv, MemoryType
  <2>2. meter'.records \in Seq(MemoryRuns)
    BY <1>2 DEF MemoryInv, MemoryType
  <2>. QED
    BY <1>1, <1>2, <2>1, <2>2 DEF MemoryInv, MemoryType
<1>6. FactInv'
  BY <1>1, <1>2, <1>4, <1>5, FactStep
<1>7. EntrySound(e)'
  <2>1. e.take <= lives'[r].take /\ e.index < lives'[r].index
    BY <1>0, <1>1, <1>3
  <2>2. e.action = "memory_observed" => spend >= 1 /\ (~troubles.cancelled => spend = 1)
    <3> SUFFICES ASSUME worker[r] = "stored" PROVE spend >= 1 /\ (~troubles.cancelled => spend = 1)
      BY <1>3
    <3>1. spend = Len(meter.records)
      BY <1>1
    <3>. QED
      BY <1>0, <3>1 DEF MemoryInv, MeterInv
  <2>3. LM!Subject(r)' = LM!Subject(r)
    BY DEF LM!Subject
  <2>. QED
    BY <1>0, <1>1, <1>2, <1>3, <2>1, <2>2, <2>3 DEF EntrySound
<1>8. NotedInv'
  BY <1>2, <1>3, <1>4, <1>5, <1>7, NotedStep
<1>9. \A i : i = lives[r].index => Accounted(r, i)'
  <2>1. OfTake(e, r, lives[r].index)
    BY <1>3 DEF OfTake
  <2>2. worker[r] = "stored" => \E f \in facts : OfTake(f, r, lives[r].index)
    BY <1>0 DEF MemoryInv, FactInv
  <2>3. ASSUME NEW f \in facts, OfTake(f, r, lives[r].index) PROVE worker[r] = "stored"
    <3>1. FactSound(f)
      BY DEF MemoryInv, FactInv
    <3>. QED
      BY <1>0, <2>3, <3>1 DEF FactSound, OfTake
  <2>4. (e.action = "memory_observed") <=> (\E f \in facts : OfTake(f, r, lives[r].index))
    BY <1>3, <2>2, <2>3
  <2>. QED
    BY <1>1, <1>2, <1>3, <2>1, <2>4, EntryAccounts
<1>10. ObservedInv'
  <2>1. \A d \in entered' \ entered : d.run = r /\ (d.index = 0 \/ d.index >= lives[r].index)
    BY <1>0, <1>3
  <2>. QED
    BY <1>0, <1>1, <1>2, <1>3, <1>4, <1>5, <1>9, <2>1, ObservedStep DEF Counting
<1>11. TotalInv'
  <2>1. e \notin entered
    <3> SUFFICES ASSUME e \in entered PROVE FALSE
      OBVIOUS
    <3>1. EntrySound(e)
      BY DEF MemoryInv, NotedInv
    <3>. QED
      BY <1>0, <1>3, <3>1 DEF EntrySound
  <2>. QED
    BY <1>1, <1>3, <1>4, <1>5, <2>1, TotalStep
<1>12. \A q \in MemoryRuns \ {r} : lives[q].phase # "inside"
  BY <1>0 DEF MemoryInv, InsideInv
<1>13. InsideInv'
  BY <1>0, <1>1, <1>2, <1>12, MemoryAssumption DEF MemoryInv, InsideInv
<1>14. MeterInv'
  BY <1>1, <1>12 DEF MeterInv
<1>15. DoneInv'
  BY <1>1, <1>4, DoneStep
<1>16. RecallInv'
  BY <1>1, <1>4, RecallStays DEF MemoryInv, RecallInv
<1>17. JudgedInv'
  BY <1>0, <1>1, <1>2, JudgedStays
<1>. QED
  BY <1>5, <1>6, <1>8, <1>10, <1>11, <1>13, <1>14, <1>15, <1>16, <1>17 DEF MemoryInv

\* A cancelled run leaves its observation, and its worker goes on.
LEMMA CancelKeeps ==
  ASSUME MemoryInv, NEW r \in MemoryRuns, LM!Cancel(r)
  PROVE  MemoryInv'
<1>0. lives[r].index \in Nat
  BY DEF MemoryInv, MemoryType
<1>1. /\ lives[r].phase \in {"next", "inside"} /\ DOMAIN lives' = MemoryRuns /\ DOMAIN lives'[r] = LifeFields
      /\ lives'[r].phase = "stranded" /\ lives'[r].index = lives[r].index
      /\ lives'[r].take = lives[r].take /\ lives'[r].recalled = lives[r].recalled
      /\ lives'[r].total = lives[r].total /\ lives'[r].category = lives[r].category
      /\ \A q \in MemoryRuns \ {r} : lives'[q] = lives[q]
  BY DEF LM!Cancel, LM!Asking, MemoryInv, MemoryType, LifeFields
<1>2. /\ UNCHANGED <<worker, facts, verdicts, entered>>
      /\ troubles'.cancelled = TRUE /\ DOMAIN troubles' = {"count", "cancelled"}
      /\ DOMAIN meter' = {"loop", "records"} /\ meter'.records = meter.records
      /\ holder' = IF lives[r].phase = "inside" THEN Nobody ELSE holder
  BY DEF LM!Cancel, MemoryInv, MemoryType
<1>3. OthersRest(r) /\ MovesOn(r)
  BY <1>0, <1>1, <1>2 DEF OthersRest, MovesOn
<1>4. MemoryType'
  <2>1. meter'.records \in Seq(MemoryRuns)
    BY <1>2 DEF MemoryInv, MemoryType
  <2>. QED
    BY <1>0, <1>1, <1>2, <2>1 DEF MemoryInv, MemoryType
<1>5. FactInv'
  BY <1>1, <1>2, <1>3, <1>4, FactStep
<1>6. NotedInv'
  BY <1>2, <1>3, <1>4, NotedStep
<1>7. ObservedInv'
  BY <1>1, <1>2, <1>3, <1>4, ObservedStep DEF Counting
<1>8. TotalInv'
  BY <1>1, <1>2, <1>3, <1>4, TotalStep
<1>9. InsideInv'
  <2>1. \A q \in MemoryRuns : lives'[q].phase = "inside" <=> holder' = q
    BY <1>1, <1>2, MemoryAssumption DEF MemoryInv, InsideInv
  <2>. QED
    BY <1>1, <1>2, <2>1 DEF MemoryInv, InsideInv
<1>10. MeterInv'
  BY <1>1, <1>2 DEF MemoryInv, MeterInv
<1>11. DoneInv'
  BY <1>1, <1>3, DoneStep
<1>12. RecallInv'
  BY <1>1, <1>3, RecallStays DEF MemoryInv, RecallInv
<1>13. JudgedInv'
  BY <1>1, <1>2, JudgedStays
<1>. QED
  BY <1>4, <1>5, <1>6, <1>7, <1>8, <1>9, <1>10, <1>11, <1>12, <1>13 DEF MemoryInv

\* The process dies: no observation goes on, and what was not done is paused.
LEMMA MemoryCrashKeeps ==
  ASSUME MemoryInv, LM!Crash
  PROVE  MemoryInv'
<1>1. /\ DOMAIN lives' = MemoryRuns
      /\ \A q \in MemoryRuns :
           \/ lives[q].phase \in {"completed", "corrected"} /\ lives'[q] = lives[q]
           \/ /\ lives[q].phase \notin {"completed", "corrected"}
              /\ DOMAIN lives'[q] = LifeFields /\ lives'[q].phase = "paused"
              /\ lives'[q].index = lives[q].index /\ lives'[q].take = lives[q].take
              /\ lives'[q].recalled = {} /\ lives'[q].total = lives[q].total
              /\ lives'[q].category = lives[q].category
  BY Zenon DEF LM!Crash, MemoryInv, MemoryType, LifeFields
<1>2. /\ UNCHANGED <<facts, verdicts, entered>> /\ holder' = Nobody
      /\ troubles'.cancelled = troubles.cancelled /\ DOMAIN troubles' = {"count", "cancelled"}
      /\ meter' = [loop |-> FALSE, records |-> <<>>]
      /\ DOMAIN worker' = MemoryRuns /\ \A q \in MemoryRuns : worker'[q] = "none"
  BY Zenon DEF LM!Crash, MemoryInv, MemoryType
<1>3. \A q \in MemoryRuns : /\ lives[q].index \in Nat /\ lives[q].take \in Nat /\ DOMAIN lives[q] = LifeFields
                            /\ lives'[q].index = lives[q].index /\ lives'[q].take = lives[q].take
                            /\ lives'[q].total = lives[q].total /\ lives'[q].category = lives[q].category
  BY <1>1 DEF MemoryInv, MemoryType
<1>4. MemoryType'
  <2>1. DOMAIN meter' = {"loop", "records"} /\ meter'.records = <<>> /\ <<>> \in Seq(MemoryRuns)
    BY <1>2
  <2>. QED
    BY <1>1, <1>2, <1>3, <2>1 DEF MemoryType
<1>5. InsideInv' /\ MeterInv'
  <2>1. \A q \in MemoryRuns : lives'[q].phase # "inside"
    BY <1>1
  <2>. QED
    BY <1>2, <2>1, MemoryAssumption DEF InsideInv, MeterInv
<1>6. FactInv'
  <2>1. ASSUME NEW f \in facts PROVE FactSound(f)'
    <3>1. FactSound(f) /\ f.run \in MemoryRuns
      BY DEF MemoryInv, FactInv, FactSound
    <3>2. CASE lives'[f.run] = lives[f.run] /\ lives[f.run].phase \in {"completed", "corrected"}
      BY <3>1, <3>2 DEF FactSound, LM!Namespace
    <3>3. CASE lives'[f.run].phase = "paused"
      BY <1>3, <3>1, <3>3 DEF FactSound, LM!Namespace
    <3>. QED
      BY <1>1, <3>1, <3>2, <3>3
  <2>. QED
    BY <1>2, <2>1 DEF FactInv
<1>7. NotedInv'
  <2>1. ASSUME NEW e \in entered PROVE EntrySound(e)'
    <3>1. EntrySound(e) /\ e.run \in MemoryRuns
      BY DEF MemoryInv, NotedInv, EntrySound
    <3>2. /\ e.take <= lives'[e.run].take
          /\ e.take = lives'[e.run].take =>
               lives'[e.run].phase # "driving" /\ e.index < lives'[e.run].index
      BY <1>1, <1>3, <3>1 DEF EntrySound
    <3>3. e.action = "memory_observed" => e.spend >= 1 /\ (~troubles'.cancelled => e.spend = 1)
      BY <1>2, <3>1 DEF EntrySound
    <3>. QED
      BY <3>1, <3>2, <3>3 DEF EntrySound, LM!Subject
  <2>. QED
    BY <1>2, <2>1 DEF NotedInv
<1>8. ObservedInv'
  <2> SUFFICES ASSUME Configured, NEW q \in MemoryRuns, lives'[q].phase \in Counting,
                      NEW i \in 1 .. Len(Renders[q]), i < lives'[q].index
               PROVE  Accounted(q, i)'
    BY DEF ObservedInv
  <2>1. lives'[q] = lives[q]
    BY <1>1 DEF Counting
  <2>2. Accounted(q, i)
    BY <2>1 DEF MemoryInv, ObservedInv
  <2>. QED
    BY <1>2, <2>1, <2>2 DEF Accounted, OfTake
<1>9. DoneInv'
  BY <1>1 DEF MemoryInv, DoneInv, LM!Settled
<1>10. TotalInv'
  <2>1. \A q \in MemoryRuns : LM!Charges(q)' = LM!Charges(q)
    BY <1>2, <1>3 DEF LM!Charges
  <2>. QED
    BY <1>3, <2>1 DEF MemoryInv, TotalInv
<1>11. RecallInv'
  BY <1>1 DEF MemoryInv, RecallInv
<1>12. JudgedInv'
  BY <1>1, <1>2, JudgedStays
<1>. QED
  BY <1>4, <1>5, <1>6, <1>7, <1>8, <1>9, <1>10, <1>11, <1>12 DEF MemoryInv

\* Every step keeps the invariant.
LEMMA MemoryStep ==
  ASSUME MemoryInv, LM!Next
  PROVE  MemoryInv'
BY DriveKeeps, SkipKeeps, TakeKeeps, AskKeeps, AnsweredKeeps, SettleKeeps, CompleteKeeps, CorrectKeeps,
   CancelKeeps, ResumeKeeps, MemoryCrashKeeps DEF LM!Next

\* No run has driven yet.
LEMMA MemoryInitially ==
  ASSUME LM!Init
  PROVE  MemoryInv
<1>1. PICK verdict \in Verdicts : lives = [r \in MemoryRuns |->
        [phase |-> "driving", index |-> 0, take |-> 1, total |-> 0, recalled |-> {},
         category |-> verdict[r].category, first |-> verdict[r].first]]
  BY Zenon DEF LM!Init
<1>2. /\ DOMAIN lives = MemoryRuns
      /\ \A r \in MemoryRuns : /\ DOMAIN lives[r] = LifeFields /\ lives[r].phase = "driving" /\ lives[r].index = 0
                               /\ lives[r].take = 1 /\ lives[r].total = 0 /\ lives[r].recalled = {}
  BY <1>1 DEF LifeFields
<1>3. /\ holder = Nobody /\ meter = [loop |-> FALSE, records |-> <<>>]
      /\ worker = [r \in MemoryRuns |-> "none"] /\ facts = {} /\ verdicts = {} /\ entered = {}
      /\ troubles = [count |-> 0, cancelled |-> FALSE]
  BY DEF LM!Init
<1>4. MemoryType
  BY <1>2, <1>3 DEF MemoryType
<1>5. InsideInv /\ MeterInv
  BY <1>2, <1>3, MemoryAssumption DEF InsideInv, MeterInv
<1>6. FactInv /\ NotedInv /\ JudgedInv
  BY <1>2, <1>3 DEF FactInv, NotedInv, JudgedInv, LM!CorrectionsAreDisagreements
<1>7. ObservedInv /\ DoneInv /\ RecallInv
  BY <1>2 DEF ObservedInv, Counting, DoneInv, LM!Settled, RecallInv
<1>8. TotalInv
  <2>1. \A r \in MemoryRuns : LM!Charges(r) = {}
    BY <1>3 DEF LM!Charges
  <2>. QED
    BY <1>2, <2>1, FS_EmptySet DEF TotalInv
<1>. QED
  BY <1>4, <1>5, <1>6, <1>7, <1>8 DEF MemoryInv

\* Both modules count alike.
LEMMA MemoryCardinality == ASSUME NEW S PROVE LM!Cardinality(S) = Cardinality(S)
BY DEF LM!Cardinality, Cardinality

\* What the invariant says of the observations.
LEMMA ObservationsPromise ==
  ASSUME MemoryInv
  PROVE  LM!ObservationsAreAccountedFor
<1>1. ASSUME Configured, NEW r \in MemoryRuns, LM!Settled(r), NEW i \in 1 .. Len(Renders[r])
      PROVE  /\ LM!Cardinality(LM!Take1(r, i)) = 1
             /\ \A e \in LM!Take1(r, i) :
                  (e.action = "memory_observed") <=> (LM!FactsFrom(r, i, e.take) # {})
  <2>1. i < lives[r].index /\ lives[r].phase \in Counting
    BY <1>1, MemoryAssumption DEF MemoryInv, MemoryType, DoneInv, LM!Settled, Counting
  <2>2. PICK e \in entered :
          /\ OfTake(e, r, i) /\ \A d \in entered : OfTake(d, r, i) => d = e
          /\ (e.action = "memory_observed") <=> (\E f \in facts : OfTake(f, r, i))
    BY <1>1, <2>1 DEF MemoryInv, ObservedInv, Accounted
  <2>3. LM!Take1(r, i) = {e}
    BY <2>2 DEF LM!Take1, OfTake
  <2>4. e.take = lives[r].take
    BY <2>2 DEF OfTake
  <2>5. LM!FactsFrom(r, i, e.take) # {} <=> \E f \in facts : OfTake(f, r, i)
    BY <2>4 DEF LM!FactsFrom, OfTake
  <2>. QED
    BY Zenon, <2>2, <2>3, <2>5, MemoryCardinality, FS_Singleton
<1>2. ASSUME NEW e \in entered, e.action = "memory_observed"
      PROVE  e.spend >= 1 /\ (~troubles.cancelled => e.spend = 1)
  BY <1>2 DEF MemoryInv, NotedInv, EntrySound
<1>3. \A r \in MemoryRuns : LM!Settled(r) => lives[r].total = LM!Cardinality(LM!Charges(r))
  BY MemoryCardinality DEF MemoryInv, TotalInv
<1>. QED
  BY <1>1, <1>2, <1>3 DEF LM!ObservationsAreAccountedFor

\* What the invariant says of the tenants.
LEMMA TenantPromise ==
  ASSUME MemoryInv
  PROVE  LM!MemoryStaysWithItsTenant
<1>1. \A r \in MemoryRuns : \A f \in lives[r].recalled : RunOrg[f.run] = RunOrg[r]
  BY DEF MemoryInv, RecallInv
<1>2. ASSUME NEW d \in entered, NEW e \in entered, d.subject.ref = e.subject.ref, e.subject.ref # <<>>
      PROVE  RunOrg[d.run] = RunOrg[e.run]
  <2>1. d.subject = LM!Subject(d.run) /\ e.subject = LM!Subject(e.run)
    BY DEF MemoryInv, NotedInv, EntrySound
  <2>2. \A r : LM!Subject(r).ref = <<>> \/ LM!Subject(r).ref = <<Account[r].mailbox, RunOrg[r]>>
    BY DEF LM!Subject
  <2>3. /\ d.subject.ref = <<Account[d.run].mailbox, RunOrg[d.run]>>
        /\ e.subject.ref = <<Account[e.run].mailbox, RunOrg[e.run]>>
    BY <1>2, <2>1, <2>2
  <2>4. d.subject.ref[2] = RunOrg[d.run] /\ e.subject.ref[2] = RunOrg[e.run]
    BY <2>3
  <2>. QED
    BY <1>2, <2>4
<1>3. ASSUME NEW scope \in LM!Orgs, NEW ns \in {f.ns : f \in facts}, NEW granted \in BOOLEAN,
             NEW logged \in BOOLEAN, NEW decided \in BOOLEAN, NEW fits \in BOOLEAN,
             LM!Shown(scope, ns, granted, logged, decided, fits) # {}
      PROVE  /\ granted /\ logged /\ decided
             /\ \A f \in LM!Shown(scope, ns, granted, logged, decided, fits) : RunOrg[f.run] = scope
  <2>1. /\ ns \in LM!Visible(scope) /\ granted /\ logged /\ decided
        /\ LM!Shown(scope, ns, granted, logged, decided, fits) = LM!FactsOf(ns)
    BY <1>3 DEF LM!Shown
  <2>2. scope # Nobody
    BY MemoryAssumption DEF LM!Orgs
  <2>3. ns[1] = scope
    BY <2>1, <2>2 DEF LM!Visible
  <2>4. ASSUME NEW f \in LM!FactsOf(ns) PROVE RunOrg[f.run] = scope
    <3>1. f.run \in MemoryRuns /\ f.ns = <<RunOrg[f.run], Account[f.run]>> /\ f.ns = ns
      BY DEF LM!FactsOf, MemoryInv, FactInv, FactSound, LM!Namespace
    <3>. QED
      BY <2>3, <3>1
  <2>. QED
    BY Zenon, <2>1, <2>4
<1>. QED
  BY <1>1, <1>2, <1>3 DEF LM!MemoryStaysWithItsTenant

\* However many runs, organizations, observations and faults there are: a
\* completed run has one entry for each of its observations, with its fact if
\* it says so, and has paid what its entries account for; memory is recalled,
\* listed and shown within its organization, under a grant and with both
\* release entries; and a correction is a disagreement with the run that was
\* forked (memory/learned.py, executor.py).
THEOREM MemoryStaysAccounted == Spec => []MemoryIsAccountedFor
<1> DEFINE Inv == part = "memory" => MemoryInv
<1>1. Init => Inv
  BY MemoryInitially DEF Init
<1>2. Inv /\ [Next]_all => Inv'
  <2>1. ASSUME Inv, Next PROVE Inv'
    BY <2>1, MemoryStep DEF Next
  <2>2. ASSUME Inv, UNCHANGED all PROVE Inv'
    <3> SUFFICES ASSUME MemoryInv PROVE MemoryInv'
      BY <2>2 DEF all
    <3>1. UNCHANGED <<lives, holder, meter, worker, facts, verdicts, entered, troubles>>
      BY <2>2 DEF all
    <3>2. MemoryType' /\ InsideInv' /\ MeterInv'
      BY <3>1 DEF MemoryInv, MemoryType, InsideInv, MeterInv
    <3>3. FactInv' /\ NotedInv'
      BY <3>1 DEF MemoryInv, FactInv, FactSound, NotedInv, EntrySound, OfTake, LM!Namespace, LM!Subject
    <3>4. ObservedInv' /\ DoneInv'
      BY <3>1 DEF MemoryInv, ObservedInv, Accounted, OfTake, DoneInv, LM!Settled
    <3>5. TotalInv' /\ RecallInv'
      BY <3>1 DEF MemoryInv, TotalInv, LM!Charges, RecallInv
    <3>6. JudgedInv'
      BY <3>1, JudgedStays
    <3>. QED
      BY <3>2, <3>3, <3>4, <3>5, <3>6 DEF MemoryInv
  <2>. QED
    BY <2>1, <2>2
<1>3. Inv => MemoryIsAccountedFor
  BY ObservationsPromise, TenantPromise DEF MemoryIsAccountedFor, MemoryInv, JudgedInv
<1>. QED
  BY <1>1, <1>2, <1>3, PTL DEF Spec

-----------------------------------------------------------------------------
(* FileSteps.                                                              *)

moves  == v2   \* its run
bounds == v3   \* its caps
touches == v6  \* its touched

\* A step that runs has its own layers in the context it runs with.
FilesInv ==
  /\ DOMAIN moves = Movers /\ DOMAIN bounds = Movers
  /\ \A s \in Movers : /\ "pc" \in DOMAIN moves[s]
                       /\ moves[s].pc = "running" => bounds[s] = MoverConfig[s].layers
  /\ FS!TouchesWithinLayers

USE DEF moves, bounds, touches

\* An attempt that fails leaves no step running that was not.
LEMMA FailedRuns ==
  ASSUME FilesInv, NEW s \in Movers, moves' = FS!Failed(s), bounds' = bounds
  PROVE  /\ DOMAIN moves' = Movers
         /\ \A t \in Movers : /\ "pc" \in DOMAIN moves'[t]
                              /\ moves'[t].pc = "running" => bounds'[t] = MoverConfig[t].layers
<1>1. moves'[s] = FS!Fresh(IF moves[s].left > 0 THEN "ready" ELSE "failed", moves[s].left)
      /\ DOMAIN moves' = Movers /\ \A t \in Movers \ {s} : moves'[t] = moves[t]
  BY DEF FilesInv, FS!Failed
<1>2. "pc" \in DOMAIN moves'[s] /\ moves'[s].pc \in {"ready", "failed"}
  BY <1>1 DEF FS!Fresh
<1>. QED
  BY <1>1, <1>2 DEF FilesInv

\* What the capabilities allow a running step is within its layers.
LEMMA AllowedWithinLayers ==
  ASSUME FilesInv, NEW s \in Movers, moves[s].pc = "running", NEW p
  PROVE  /\ FS!CanRead(s, p) => \A layer \in MoverConfig[s].layers : p.dir \in layer.read
         /\ FS!CanWrite(s, p) => \A layer \in MoverConfig[s].layers : p.dir \in layer.write
BY DEF FilesInv, FS!CanRead, FS!CanWrite

\* One touch more keeps to the layers if it does.
LEMMA TouchStep ==
  ASSUME FilesInv, NEW s \in Movers, NEW p, NEW how \in {"read", "write"},
         touches' = touches \cup {<<s, p, how>>},
         \A layer \in MoverConfig[s].layers :
           p.dir \in (IF how = "read" THEN layer.read ELSE layer.write)
  PROVE  FS!TouchesWithinLayers'
<1> SUFFICES ASSUME NEW t \in touches', NEW layer \in MoverConfig[t[1]].layers
             PROVE  t[2].dir \in (IF t[3] = "read" THEN layer.read ELSE layer.write)
  BY DEF FS!TouchesWithinLayers
<1>1. CASE t \in touches
  BY <1>1 DEF FilesInv, FS!TouchesWithinLayers
<1>2. CASE t = <<s, p, how>>
  <2>1. t[1] = s /\ t[2] = p /\ t[3] = how
    BY <1>2
  <2>. QED
    BY <2>1
<1>. QED
  BY <1>1, <1>2

\* A step reads what its layers allow.
LEMMA ReadKeeps ==
  ASSUME FilesInv, NEW s \in Movers, FS!Read(s)
  PROVE  FilesInv'
<1>0. moves[s].pc = "running" /\ bounds' = bounds /\ DOMAIN moves = Movers /\ "pc" \in DOMAIN moves[s]
  BY DEF FS!Read, FilesInv
<1>1. PICK p : p = FS!Paths(s)[moves[s].at]
  OBVIOUS
<1>2. PICK content : content = IF FS!Exists(p) /\ MoverConfig[s].fn # "csv" THEN v1[p] ELSE <<>>
  OBVIOUS
<1>3. PICK fails \in BOOLEAN :
        fails = (\/ ~FS!Allowed(s, p)
                 \/ FS!Exists(p) /\ FS!Blank(s, content)
                 \/ ~FS!Exists(p) /\ FS!Missing(s) = "fail")
  BY Zenon
<1>4. PICK skips \in BOOLEAN : skips = (~FS!Exists(p) /\ FS!Missing(s) = "skip")
  BY Zenon
<1>5. /\ moves' = IF fails THEN FS!Failed(s)
                  ELSE [moves EXCEPT ![s].at = @ + 1,
                                     ![s].todo = IF skips THEN <<>> ELSE FS!Writes(s, p, content)]
      /\ touches' = IF fails \/ skips \/ MoverConfig[s].fn = "csv" THEN touches
                    ELSE touches \cup {<<s, p, "read">>}
  BY Zenon, <1>1, <1>2, <1>3, <1>4 DEF FS!Read
<1>6. /\ DOMAIN moves' = Movers
      /\ \A t \in Movers : /\ "pc" \in DOMAIN moves'[t]
                           /\ moves'[t].pc = "running" => bounds'[t] = MoverConfig[t].layers
  <2>1. CASE fails
    BY <1>0, <1>5, <2>1, FailedRuns
  <2>2. CASE ~fails
    <3>1. PICK todo : moves' = [moves EXCEPT ![s].at = @ + 1, ![s].todo = todo]
      BY Zenon, <1>5, <2>2
    <3>. QED
      BY <1>0, <3>1 DEF FilesInv
  <2>. QED
    BY <2>1, <2>2
<1>7. FS!TouchesWithinLayers'
  <2>1. CASE touches' = touches
    BY <2>1 DEF FilesInv, FS!TouchesWithinLayers
  <2>2. CASE touches' # touches
    <3>1. ~fails /\ MoverConfig[s].fn # "csv" /\ touches' = touches \cup {<<s, p, "read">>}
      BY <1>5, <2>2
    <3>2. FS!CanRead(s, p)
      BY <1>3, <3>1 DEF FS!Allowed
    <3>. QED
      BY <1>0, <3>1, <3>2, AllowedWithinLayers, TouchStep
  <2>. QED
    BY <2>1, <2>2
<1>. QED
  BY <1>0, <1>6, <1>7 DEF FilesInv

\* A step writes what its layers allow.
LEMMA BeginWriteKeeps ==
  ASSUME FilesInv, NEW s \in Movers, FS!BeginWrite(s)
  PROVE  FilesInv'
<1>0. moves[s].pc = "running" /\ bounds' = bounds
  BY DEF FS!BeginWrite
<1>1. PICK w : w = Head(moves[s].todo)
  OBVIOUS
<1>2. \/ /\ FS!CanWrite(s, w.path) /\ moves' = moves /\ touches' = touches \cup {<<s, w.path, "write">>}
      \/ moves' = FS!Failed(s) /\ touches' = touches
  BY <1>1 DEF FS!BeginWrite
<1>3. CASE FS!CanWrite(s, w.path) /\ moves' = moves /\ touches' = touches \cup {<<s, w.path, "write">>}
  <2>1. FS!TouchesWithinLayers'
    BY <1>0, <1>3, AllowedWithinLayers, TouchStep
  <2>. QED
    BY <1>0, <1>3, <2>1 DEF FilesInv
<1>4. CASE moves' = FS!Failed(s) /\ touches' = touches
  BY <1>0, <1>4, FailedRuns DEF FilesInv, FS!TouchesWithinLayers
<1>. QED
  BY <1>2, <1>3, <1>4

\* Every step keeps to the layers.
LEMMA FilesStep ==
  ASSUME FilesInv, FS!Next
  PROVE  FilesInv'
<1>1. ASSUME NEW s \in Movers, FS!Dispatch(s) PROVE FilesInv'
  <2>1. /\ moves' = [moves EXCEPT ![s] = FS!Fresh("running", moves[s].left - 1)]
        /\ bounds' = [bounds EXCEPT ![s] = MoverConfig[s].layers] /\ touches' = touches
    BY <1>1 DEF FS!Dispatch, FS!Bind
  <2>2. "pc" \in DOMAIN FS!Fresh("running", moves[s].left - 1)
    BY DEF FS!Fresh
  <2>. QED
    BY <2>1, <2>2 DEF FilesInv, FS!TouchesWithinLayers
<1>2. ASSUME NEW s \in Movers, FS!EndWrite(s) PROVE FilesInv'
  <2>1. bounds' = bounds /\ touches' = touches
        /\ \E a, b, c : moves' = [moves EXCEPT ![s].todo = a, ![s].used = b, ![s].reported = c]
    BY Zenon, <1>2 DEF FS!EndWrite
  <2>2. DOMAIN moves' = Movers
        /\ \A t \in Movers : "pc" \in DOMAIN moves'[t] /\ moves'[t].pc = moves[t].pc
    BY <2>1 DEF FilesInv
  <2>. QED
    BY <2>1, <2>2 DEF FilesInv, FS!TouchesWithinLayers
<1>3. ASSUME NEW s \in Movers, FS!Complete(s) PROVE FilesInv'
  BY <1>3 DEF FS!Complete, FilesInv, FS!TouchesWithinLayers
<1>4. ASSUME NEW s \in Movers, FS!Cut(s) PROVE FilesInv'
  <2>1. moves' = FS!Failed(s) /\ bounds' = bounds /\ touches' = touches
    BY <1>4 DEF FS!Cut
  <2>. QED
    BY <2>1, FailedRuns DEF FilesInv, FS!TouchesWithinLayers
<1>5. ASSUME NEW w, FS!LateWrite(w) PROVE FilesInv'
  BY <1>5 DEF FS!LateWrite, FilesInv, FS!TouchesWithinLayers
<1>6. ASSUME FS!Crash PROVE FilesInv'
  <2>1. moves' = [s \in Movers |-> IF moves[s].pc = "running"
                                   THEN FS!Fresh("ready", MoverConfig[s].retries + 1) ELSE moves[s]]
        /\ bounds' = bounds /\ touches' = touches
    BY <1>6 DEF FS!Crash
  <2>2. \A tries : "pc" \in DOMAIN FS!Fresh("ready", tries) /\ FS!Fresh("ready", tries).pc = "ready"
    BY DEF FS!Fresh
  <2>. QED
    BY <2>1, <2>2 DEF FilesInv, FS!TouchesWithinLayers
<1>. QED
  BY <1>1, <1>2, <1>3, <1>4, <1>5, <1>6, ReadKeeps, BeginWriteKeeps DEF FS!Next

\* At the start nothing is touched.
LEMMA FilesInit ==
  ASSUME FS!Init
  PROVE  FilesInv
<1>1. PICK chosen \in Beside :
        moves = [s \in Movers |-> IF s \in chosen THEN FS!Fresh("ready", MoverConfig[s].retries + 1)
                                    ELSE FS!Fresh("failed", 0)]
  BY DEF FS!Init
<1>2. \A pc \in {"ready", "failed"} : \A tries :
          "pc" \in DOMAIN FS!Fresh(pc, tries) /\ FS!Fresh(pc, tries).pc # "running"
  BY DEF FS!Fresh
<1>3. bounds = [s \in Movers |-> {}] /\ touches = {}
  BY DEF FS!Init
<1>. QED
  BY <1>1, <1>2, <1>3 DEF FilesInv, FS!TouchesWithinLayers

\* However many steps run beside each other, with whatever paths and layers,
\* and whatever attempts are cut or die: no step reads or writes a path that
\* one of its own layers does not allow (engine/functions.py, world/real.py).
THEOREM StepsKeepToTheirLayers == Spec => []TouchesAreAllowed
<1> DEFINE Inv == part = "files" => FilesInv
<1>1. Init => Inv
  BY FilesInit DEF Init
<1>2. Inv /\ [Next]_all => Inv'
  <2>1. ASSUME Inv, Next PROVE Inv'
    BY <2>1, FilesStep DEF Next
  <2>2. ASSUME Inv, UNCHANGED all PROVE Inv'
    BY <2>2 DEF all, FilesInv, FS!TouchesWithinLayers
  <2>. QED
    BY <2>1, <2>2
<1>3. Inv => TouchesAreAllowed
  BY DEF TouchesAreAllowed, FilesInv
<1>. QED
  BY <1>1, <1>2, <1>3, PTL DEF Spec
-----------------------------------------------------------------------------
(* FileSteps: the names that are given out.                                *)

\* The names of a sequence of writes, and that none is there twice.
NamesIn(x) == {x[j].name : j \in DOMAIN x}
NamedOnce(x) == \A i, j \in DOMAIN x : x[i].name = x[j].name => i = j

\* There are finitely many.
LEMMA NamesAreFinite ==
  ASSUME NEW x, NEW n \in Nat, DOMAIN x = 1 .. n
  PROVE  IsFiniteSet(NamesIn(x))
<1>. DEFINE f == [j \in 1 .. n |-> x[j].name]
<1>1. f \in Surjection(1 .. n, NamesIn(x))
  BY DEF Surjection, NamesIn
<1>2. IsFiniteSet(1 .. n)
  BY FS_Interval
<1>. HIDE DEF f
<1>. QED  BY <1>1, <1>2, FS_Surjection

\* _dest_name gives out a name that was not given out: one of the first
\* candidates is free, there being one more of them than names.
LEMMA GivenOnce ==
  ASSUME NEW base, NEW used, IsFiniteSet(used)
  PROVE  \E k \in Nat : FS!DestName(base, used) = <<base, k>> /\ <<base, k>> \notin used
<1>. DEFINE n == Cardinality(used)
            free == {k \in 1 .. n + 1 : <<base, k>> \notin used}
<1>1. n \in Nat
  BY FS_CardinalityType
<1>2. free # {}
  <2>. SUFFICES ASSUME free = {} PROVE FALSE
    OBVIOUS
  <2>. DEFINE f == [k \in 1 .. n + 1 |-> <<base, k>>]
              T == 1 .. n + 1
  <2>1. f \in [T -> used]
    OBVIOUS
  <2>2. IsFiniteSet(T) /\ Cardinality(T) = n + 1
    BY <1>1, FS_Interval
  <2>3. \A x, y \in T : x # y => f[x] # f[y]
    OBVIOUS
  <2>4. Cardinality(used) < Cardinality(T)
    BY <1>1, <2>2
  <2>. HIDE DEF f, T, free, n
  <2>. QED  BY <2>1, <2>2, <2>3, <2>4, FS_PigeonHole
<1>3. PICK m \in free : \A k \in free : m <= k
  <2>1. free \in SUBSET Nat
    BY <1>1
  <2>. HIDE DEF free
  <2>. QED  BY <1>2, <2>1, SmallestOf
<1>. DEFINE First(k) == <<base, k>> \notin used /\ \A j \in 1 .. k - 1 : <<base, j>> \in used
<1>4. m \in 1 .. n + 1 /\ First(m)
  <2>1. m \in 1 .. n + 1 /\ <<base, m>> \notin used
    OBVIOUS
  <2>2. ASSUME NEW j \in 1 .. m - 1 PROVE <<base, j>> \in used
    <3>1. j \in 1 .. n + 1 /\ ~(m <= j)
      BY <1>1, <2>1
    <3>. QED  BY <1>3, <3>1
  <2>. QED  BY <2>1, <2>2
<1>. DEFINE c == CHOOSE k \in 1 .. n + 1 : First(k)
<1>5. FS!DestName(base, used) = <<base, c>>
  <2>1. FS!Cardinality(used) = Cardinality(used)
    BY DEF FS!Cardinality, Cardinality
  <2>. QED  BY <2>1 DEF FS!DestName
<1>6. c \in 1 .. n + 1 /\ First(c)
  <2>. HIDE DEF First, n
  <2>. QED  BY <1>4
<1>7. c \in Nat /\ <<base, c>> \notin used
  <2>. HIDE DEF c
  <2>. QED  BY <1>1, <1>6
<1>. HIDE DEF c
<1>. QED  BY <1>5, <1>7

\* What an archive's members may become.
File(dest, members, i, k) ==
  [path |-> FS!Path(dest, <<members[i].name, k>>), content |-> <<members[i].data>>,
   name |-> <<members[i].name, k>>]
FilesOf(dest, members) == {File(dest, members, q[1], q[2]) : q \in (DOMAIN members) \X Nat}

\* Sequences of them under names not given out before, each once.
Unpackings(dest, members, used) ==
  {x \in Seq(FilesOf(dest, members)) : NamedOnce(x) /\ NamesIn(x) \cap used = {}}

\* One more member.
LEMMA UnpackedMore ==
  ASSUME NEW dest, NEW members, NEW used, IsFiniteSet(used), NEW i \in DOMAIN members,
         NEW x \in Unpackings(dest, members, used)
  PROVE  LET name == FS!DestName(members[i].name, used \cup NamesIn(x))
         IN Append(x, [path |-> FS!Path(dest, name), content |-> <<members[i].data>>, name |-> name])
              \in Unpackings(dest, members, used)
<1>. DEFINE given == used \cup NamesIn(x)
            name == FS!DestName(members[i].name, given)
            U == FilesOf(dest, members)
<1>1. x \in Seq(U) /\ Len(x) \in Nat /\ DOMAIN x = 1 .. Len(x) /\ NamedOnce(x) /\ NamesIn(x) \cap used = {}
  BY DEF Unpackings
<1>2. IsFiniteSet(given)
  BY Zenon, <1>1, NamesAreFinite, FS_Union
<1>3. PICK k \in Nat : name = <<members[i].name, k>> /\ name \notin given
  <2>. HIDE DEF given
  <2>. QED  BY Zenon, <1>2, GivenOnce
<1>. DEFINE w == [path |-> FS!Path(dest, name), content |-> <<members[i].data>>, name |-> name]
<1>4. w \in U
  <2>1. w = File(dest, members, i, k)
    BY <1>3 DEF File
  <2>2. <<i, k>> \in (DOMAIN members) \X Nat
    OBVIOUS
  <2>. QED  BY <2>1, <2>2 DEF FilesOf
<1>5. w.name = name
  OBVIOUS
<1>6. PICK y : y = Append(x, w)
  BY Zenon
<1>. HIDE DEF w, U, name
<1>7. /\ y \in Seq(U) /\ DOMAIN y = DOMAIN x \cup {Len(x) + 1} /\ Len(x) + 1 \notin DOMAIN x
      /\ \A j \in DOMAIN x : y[j] = x[j]
      /\ y[Len(x) + 1] = w
  BY <1>1, <1>4, <1>6, Appended
<1>8. \A j \in DOMAIN x : y[j].name \in NamesIn(x) /\ y[j].name = x[j].name
  BY <1>7 DEF NamesIn
<1>9. \A j \in DOMAIN y : j \in DOMAIN x \/ (j = Len(x) + 1 /\ y[j].name = name)
  BY <1>7, <1>5
<1>a. NamedOnce(y)
  <2>. SUFFICES ASSUME NEW i1 \in DOMAIN y, NEW i2 \in DOMAIN y, y[i1].name = y[i2].name PROVE i1 = i2
    BY DEF NamedOnce
  <2>1. name \notin NamesIn(x)
    BY <1>3
  <2>. QED  BY <1>1, <2>1, <1>8, <1>9 DEF NamedOnce
<1>b. NamesIn(y) \cap used = {}
  <2>1. ASSUME NEW j \in DOMAIN y PROVE y[j].name \notin used
    BY Zenon, <1>1, <1>3, <1>8, <1>9
  <2>. QED  BY <2>1 DEF NamesIn
<1>. QED  BY <1>6, <1>7, <1>a, <1>b DEF Unpackings, U, w, name

\* The function behind Named: what the first members become.
Naming(F, dest, members, used) ==
  F = [i \in 0 .. Len(members) |->
        IF i = 0 THEN <<>>
        ELSE IF FS!Taken(members, i)
             THEN Append(F[i - 1],
                         [path |-> FS!Path(dest, FS!DestName(members[i].name, used \cup NamesIn(F[i - 1]))),
                          content |-> <<members[i].data>>,
                          name |-> FS!DestName(members[i].name, used \cup NamesIn(F[i - 1]))])
             ELSE F[i - 1]]

\* An archive's members get names not given out before, each once.
LEMMA NamedOnceEach ==
  ASSUME NEW dest, NEW members, NEW used, IsFiniteSet(used),
         Len(members) \in Nat, DOMAIN members = 1 .. Len(members)
  PROVE  FS!Named(dest, members, used) \in Unpackings(dest, members, used)
<1>. DEFINE n == Len(members)
            T == Unpackings(dest, members, used)
            More(x, i) == LET name == FS!DestName(members[i].name, used \cup NamesIn(x))
                          IN Append(x, [path |-> FS!Path(dest, name), content |-> <<members[i].data>>, name |-> name])
            e == [i \in 1 .. n |-> [x \in T |-> IF FS!Taken(members, i) THEN More(x, i) ELSE x]]
            a == <<>>
<1>1. a \in T
  BY DEF Unpackings, NamesIn, NamedOnce
<1>2. \A i \in 1 .. n : \A x \in T : More(x, i) \in T
  BY Zenon, UnpackedMore
<1>. HIDE DEF More, T
<1>3. Stepping(e, n, T)
  BY <1>2 DEF Stepping
<1>4. PICK F : Iterates(F, n, T, a, e)
  <2>. HIDE DEF n, e, a
  <2>. QED  BY <1>1, <1>3, RecursionExists DEF n
<1>. DEFINE Value(G, i) == IF i = 0 THEN <<>> ELSE IF FS!Taken(members, i) THEN More(G[i - 1], i) ELSE G[i - 1]
<1>5. \A G : Naming(G, dest, members, used) <=> G = [i \in 0 .. n |-> Value(G, i)]
  BY DEF Naming, More
<1>6. F = [i \in 0 .. n |-> Value(F, i)]
  <2>1. F \in [0 .. n -> T] /\ F[0] = <<>> /\ \A i \in 1 .. n : F[i] = e[i][F[i - 1]]
    BY <1>4 DEF Iterates
  <2>2. ASSUME NEW i \in 0 .. n PROVE F[i] = Value(F, i)
    <3>1. CASE i = 0
      BY <2>1, <3>1
    <3>2. CASE i # 0
      <4>1. i \in 1 .. n /\ i - 1 \in 0 .. n
        BY <3>2
      <4>2. F[i - 1] \in T /\ F[i] = e[i][F[i - 1]]
        BY <2>1, <4>1
      <4>. QED  BY <3>2, <4>1, <4>2
    <3>. QED  BY <3>1, <3>2
  <2>. HIDE DEF n, Value
  <2>. QED  BY <2>1, <2>2
<1>7. PICK G : G = (CHOOSE H : Naming(H, dest, members, used)) /\ Naming(G, dest, members, used)
  BY <1>5, <1>6
<1>8. FS!Named(dest, members, used) = G[n]
  BY <1>7 DEF FS!Named, Naming, NamesIn
<1>9. 0 .. n \subseteq {i \in 0 .. n : G[i] \in T}
  <2>. DEFINE S == {i \in 0 .. n : G[i] \in T}
  <2>1. \A i \in 0 .. n : G[i] = Value(G, i)
    <3>1. G = [i \in 0 .. n |-> Value(G, i)]
      <4>. HIDE DEF Value, n
      <4>. QED  BY Zenon, <1>5, <1>7
    <3>. HIDE DEF Value
    <3>. QED  BY <3>1
  <2>2. 0 \in S
    BY <1>1, <2>1
  <2>3. ASSUME NEW i \in 0 .. n - 1, i \in S PROVE i + 1 \in S
    <3>1. i + 1 \in 1 .. n /\ i + 1 \in 0 .. n /\ i + 1 # 0 /\ (i + 1) - 1 = i /\ G[i] \in T
      BY <2>3
    <3>2. G[i + 1] = IF FS!Taken(members, i + 1) THEN More(G[i], i + 1) ELSE G[i]
      BY <2>1, <3>1
    <3>. QED  BY <1>2, <3>1, <3>2
  <2>. HIDE DEF S
  <2>4. 0 .. n \subseteq S
    BY Zenon, <2>2, <2>3, IntervalInduction
  <2>. QED  BY <2>4 DEF S
<1>. QED  BY <1>8, <1>9 DEF T
-----------------------------------------------------------------------------
(* FileSteps: what a step is to write, path after path.                    *)

Planned(s) == ~FS!Records(s)
USE DEF Planned

\* What a step that finds seen at path p writes, after the names given out.
Batch(s, p, seen, used) ==
  IF ~seen.there THEN <<>>
  ELSE IF MoverConfig[s].fn = "extract"
       THEN IF seen.content[1] \in DOMAIN MoverMembers
            THEN FS!Named(MoverConfig[s].dest, MoverMembers[seen.content[1]], used) ELSE <<>>
  ELSE IF MoverConfig[s].fn = "copy" THEN FS!Copied(s, p, seen.content)
  ELSE IF MoverConfig[s].fn = "route" THEN FS!Routed(s, p, seen.content)
  ELSE <<>>

\* What it is to write after each number of paths.
PlanOf(s, paths, seen) ==
  LET G[i \in 0 .. Len(paths)] ==
         IF i = 0 THEN <<>> ELSE G[i - 1] \o Batch(s, paths[i], seen[i], NamesIn(G[i - 1]))
  IN G

\* Everything it may come to write.
Moved(s, paths, seen, i) ==
  [path |-> FS!Path(FS!OutDir(s), paths[i].name), content |-> seen[i].content, name |-> paths[i].name]
MayWrite(s, paths, seen) ==
  {Moved(s, paths, seen, i) : i \in DOMAIN paths}
    \cup UNION {FilesOf(FS!OutDir(s), MoverMembers[v]) : v \in DOMAIN MoverMembers}

\* A write is in the step's directory, under its name.
LEMMA WrittenInOut ==
  ASSUME NEW s, NEW paths, NEW seen, NEW w \in MayWrite(s, paths, seen)
  PROVE  w.path = FS!Path(FS!OutDir(s), w.name)
<1>1. CASE w \in {Moved(s, paths, seen, i) : i \in DOMAIN paths}
  BY <1>1 DEF Moved
<1>2. CASE w \in UNION {FilesOf(FS!OutDir(s), MoverMembers[v]) : v \in DOMAIN MoverMembers}
  <2>1. PICK v \in DOMAIN MoverMembers : w \in FilesOf(FS!OutDir(s), MoverMembers[v])
    BY <1>2
  <2>2. PICK i \in DOMAIN MoverMembers[v], k \in Nat : w = File(FS!OutDir(s), MoverMembers[v], i, k)
    BY <2>1 DEF FilesOf
  <2>. QED  BY <2>2 DEF File
<1>. QED  BY <1>1, <1>2 DEF MayWrite

\* Two sequences of writes that share no name, joined.
LEMMA JoinedOnce ==
  ASSUME NEW X, NEW a \in Seq(X), NEW b \in Seq(X), NamedOnce(a), NamedOnce(b), NamesIn(a) \cap NamesIn(b) = {}
  PROVE  /\ a \o b \in Seq(X) /\ Len(a \o b) = Len(a) + Len(b) /\ NamedOnce(a \o b)
         /\ NamesIn(a \o b) \subseteq NamesIn(a) \cup NamesIn(b)
         /\ \A i \in DOMAIN a : i \in DOMAIN (a \o b) /\ (a \o b)[i] = a[i]
         /\ \A i \in DOMAIN b : Len(a) + i \in DOMAIN (a \o b) /\ (a \o b)[Len(a) + i] = b[i]
<1>0. /\ Len(a) \in Nat /\ Len(b) \in Nat /\ DOMAIN a = 1 .. Len(a) /\ DOMAIN b = 1 .. Len(b)
  OBVIOUS
<1>1. PICK c : c = a \o b
  BY Zenon
<1>2. c \in Seq(X) /\ Len(c) = Len(a) + Len(b) /\ DOMAIN c = 1 .. Len(a) + Len(b)
  BY <1>1
<1>3. \A i \in DOMAIN a : i \in DOMAIN c /\ c[i] = a[i]
  BY <1>0, <1>1
<1>4. \A i \in DOMAIN b : Len(a) + i \in DOMAIN c /\ c[Len(a) + i] = b[i]
  BY <1>0, <1>1
<1>5. \A i \in DOMAIN c : i \in DOMAIN a \/ (i - Len(a) \in DOMAIN b /\ c[i] = b[i - Len(a)])
  BY <1>0, <1>1
<1>6. \A i \in DOMAIN c : \/ i \in DOMAIN a /\ c[i] = a[i] /\ c[i].name \in NamesIn(a)
                          \/ i - Len(a) \in DOMAIN b /\ c[i] = b[i - Len(a)] /\ c[i].name \in NamesIn(b)
  BY <1>3, <1>5 DEF NamesIn
<1>7. NamedOnce(c)
  <2>. SUFFICES ASSUME NEW i \in DOMAIN c, NEW j \in DOMAIN c, c[i].name = c[j].name PROVE i = j
    BY DEF NamedOnce
  <2>1. i \in Int /\ j \in Int
    BY <1>0, <1>2
  <2>2. CASE i \in DOMAIN a /\ c[i] = a[i] /\ c[i].name \in NamesIn(a)
    <3>1. j \in DOMAIN a /\ c[j] = a[j]
      BY <1>6, <2>2
    <3>. QED  BY <2>2, <3>1 DEF NamedOnce
  <2>3. CASE i - Len(a) \in DOMAIN b /\ c[i] = b[i - Len(a)] /\ c[i].name \in NamesIn(b)
    <3>1. j - Len(a) \in DOMAIN b /\ c[j] = b[j - Len(a)]
      BY <1>6, <2>3
    <3>2. i - Len(a) = j - Len(a)
      BY <2>3, <3>1 DEF NamedOnce
    <3>. QED  BY <1>0, <2>1, <3>2
  <2>. QED  BY <1>6, <2>2, <2>3
<1>8. NamesIn(c) \subseteq NamesIn(a) \cup NamesIn(b)
  <2>1. \A i \in DOMAIN c : c[i].name \in NamesIn(a) \cup NamesIn(b)
    BY <1>6
  <2>. QED  BY <2>1 DEF NamesIn
<1>. QED  BY <1>1, <1>2, <1>3, <1>4, <1>7, <1>8

\* What is written for one path: an archive's members under names not given
\* out, or the file under its own.
LEMMA BatchOf ==
  ASSUME NEW s \in Movers, Planned(s), NEW paths, NEW seen, NEW i \in DOMAIN paths,
         NEW used, IsFiniteSet(used)
  PROVE  LET b == Batch(s, paths[i], seen[i], used)
         IN /\ b \in Seq(MayWrite(s, paths, seen)) /\ NamedOnce(b)
            /\ MoverConfig[s].fn = "extract" => NamesIn(b) \cap used = {}
            /\ MoverConfig[s].fn # "extract" => NamesIn(b) \subseteq {paths[i].name}
<1>. DEFINE E == MayWrite(s, paths, seen)
<1>0. MoverConfig[s].fn \in {"extract", "copy", "route", "append", "csv", "pdf"}
  BY FilesAssumption
<1>1. PICK b : b = Batch(s, paths[i], seen[i], used)
  OBVIOUS
<1>2. CASE b = <<>>
  BY <1>1, <1>2 DEF NamesIn, NamedOnce
<1>3. CASE MoverConfig[s].fn = "extract" /\ b # <<>>
  <2>1. PICK v \in DOMAIN MoverMembers : b = FS!Named(MoverConfig[s].dest, MoverMembers[v], used)
    BY <1>1, <1>3 DEF Batch
  <2>2. FS!OutDir(s) = MoverConfig[s].dest
    BY <1>3 DEF FS!OutDir
  <2>3. Len(MoverMembers[v]) \in Nat /\ DOMAIN MoverMembers[v] = 1 .. Len(MoverMembers[v])
    <3>1. IsList(MoverMembers[v])
      BY FilesAssumption
    <3>. QED  BY <3>1 DEF IsList
  <2>4. b \in Unpackings(MoverConfig[s].dest, MoverMembers[v], used)
    BY <2>1, <2>3, NamedOnceEach
  <2>5. FilesOf(FS!OutDir(s), MoverMembers[v]) \subseteq E
    BY DEF MayWrite
  <2>. HIDE DEF E
  <2>6. b \in Seq(E)
    BY <2>2, <2>4, <2>5 DEF Unpackings
  <2>. QED  BY <1>1, <1>3, <2>4, <2>6 DEF Unpackings, E
<1>4. CASE MoverConfig[s].fn # "extract" /\ b # <<>>
  <2>1. b = <<Moved(s, paths, seen, i)>>
    BY <1>0, <1>1, <1>4 DEF Batch, FS!Copied, FS!Routed, FS!One, FS!OutDir, FS!Path, Moved
  <2>2. Moved(s, paths, seen, i) \in E
    BY DEF MayWrite
  <2>3. Moved(s, paths, seen, i).name = paths[i].name
    BY DEF Moved
  <2>. HIDE DEF E
  <2>4. b \in Seq(E) /\ DOMAIN b = {1} /\ b[1] = Moved(s, paths, seen, i)
    BY <2>1, <2>2
  <2>5. NamedOnce(b) /\ NamesIn(b) \subseteq {paths[i].name}
    BY <2>3, <2>4 DEF NamedOnce, NamesIn
  <2>. QED  BY <1>1, <1>4, <2>4, <2>5 DEF E
<1>. QED  BY <1>2, <1>3, <1>4

\* The paths of a step are in an order, and of different names unless their
\* files are unpacked.
WellSourced(s, paths) ==
  /\ Len(paths) \in Nat /\ DOMAIN paths = 1 .. Len(paths)
  /\ MoverConfig[s].fn \in {"copy", "route"} =>
       \A i, j \in DOMAIN paths : paths[i].name = paths[j].name => i = j

\* What a plan may be after i paths.
PlansAt(s, paths, seen, i) ==
  {x \in Seq(MayWrite(s, paths, seen)) :
     /\ NamedOnce(x) /\ (MoverConfig[s].fn = "pdf" => x = <<>>)
     /\ MoverConfig[s].fn # "extract" => NamesIn(x) \subseteq {paths[j].name : j \in 1 .. i}}

\* The plan of one path more.
PlanGrown(x, s, paths, seen, i) == x \o Batch(s, paths[i], seen[i], NamesIn(x))

\* One path more keeps the plan one of those: new names, written where the
\* step may write.
LEMMA PlanMore ==
  ASSUME NEW s \in Movers, Planned(s), NEW paths, WellSourced(s, paths), NEW seen,
         NEW i \in DOMAIN paths, NEW x \in PlansAt(s, paths, seen, i - 1)
  PROVE  /\ x \o Batch(s, paths[i], seen[i], NamesIn(x)) \in PlansAt(s, paths, seen, i)
         /\ Batch(s, paths[i], seen[i], NamesIn(x)) \in Seq(MayWrite(s, paths, seen))
<1>. DEFINE E == MayWrite(s, paths, seen)
<1>0. MoverConfig[s].fn \in {"extract", "copy", "route", "append", "csv", "pdf"}
  BY FilesAssumption
<1>1. PICK b : b = Batch(s, paths[i], seen[i], NamesIn(x))
  OBVIOUS
<1>2. x \in Seq(E) /\ NamedOnce(x) /\ Len(x) \in Nat /\ DOMAIN x = 1 .. Len(x)
      /\ (MoverConfig[s].fn # "extract" => NamesIn(x) \subseteq {paths[j].name : j \in 1 .. i - 1})
  BY DEF PlansAt
<1>3. b \in Seq(E) /\ NamedOnce(b) /\ (MoverConfig[s].fn = "extract" => NamesIn(b) \cap NamesIn(x) = {})
      /\ (MoverConfig[s].fn # "extract" => NamesIn(b) \subseteq {paths[i].name})
  <2>1. IsFiniteSet(NamesIn(x))
    BY <1>2, NamesAreFinite
  <2>. QED  BY Zenon, <1>1, <2>1, BatchOf
<1>4. MoverConfig[s].fn = "pdf" => b = <<>>
  BY <1>1 DEF Batch
<1>5. NamesIn(x) \cap NamesIn(b) = {}
  <2>1. CASE MoverConfig[s].fn = "extract"
    BY <1>3, <2>1
  <2>2. CASE MoverConfig[s].fn = "pdf"
    BY <1>4, <2>2 DEF NamesIn
  <2>3. CASE MoverConfig[s].fn \in {"copy", "route"}
    <3>1. \A j \in 1 .. i - 1 : paths[j].name # paths[i].name
      <4>1. ASSUME NEW j \in 1 .. i - 1 PROVE paths[j].name # paths[i].name
        <5>1. j \in DOMAIN paths /\ j # i
          BY DEF WellSourced
        <5>. QED  BY <2>3, <5>1 DEF WellSourced
      <4>. QED  BY <4>1
    <3>. QED  BY <1>2, <1>3, <2>3, <3>1
  <2>. QED  BY <1>0, <2>1, <2>2, <2>3 DEF FS!Records
<1>6. PICK c : c = x \o b
  BY Zenon
<1>7. c \in Seq(E) /\ NamedOnce(c) /\ NamesIn(c) \subseteq NamesIn(x) \cup NamesIn(b)
  <2>. HIDE DEF E
  <2>. QED  BY <1>2, <1>3, <1>5, <1>6, JoinedOnce
<1>8. MoverConfig[s].fn # "extract" => NamesIn(c) \subseteq {paths[j].name : j \in 1 .. i}
  <2>1. {paths[j].name : j \in 1 .. i - 1} \cup {paths[i].name} \subseteq {paths[j].name : j \in 1 .. i}
    BY DEF WellSourced
  <2>. QED  BY Zenon, <1>2, <1>3, <1>7, <2>1
<1>9. MoverConfig[s].fn = "pdf" => c = <<>>
  <2>1. MoverConfig[s].fn = "pdf" => x = <<>>
    BY DEF PlansAt
  <2>. QED  BY <1>4, <1>6, <2>1
<1>. QED  BY <1>1, <1>3, <1>6, <1>7, <1>8, <1>9 DEF PlansAt

\* What a plan is after each number of paths.
IsPlan(G, s, paths, seen) ==
  G = [i \in 0 .. Len(paths) |->
         IF i = 0 THEN <<>> ELSE G[i - 1] \o Batch(s, paths[i], seen[i], NamesIn(G[i - 1]))]

\* There is a plan, and at each of its places it is one.
LEMMA PlanHolds ==
  ASSUME NEW s \in Movers, Planned(s), NEW paths, WellSourced(s, paths), NEW seen
  PROVE  LET G == PlanOf(s, paths, seen)
         IN /\ G[0] = <<>>
            /\ \A i \in DOMAIN paths : G[i] = PlanGrown(G[i - 1], s, paths, seen, i)
            /\ \A i \in 0 .. Len(paths) : G[i] \in PlansAt(s, paths, seen, i)
<1>. DEFINE n == Len(paths)
            T == Seq(MayWrite(s, paths, seen))
            More(x, i) == x \o Batch(s, paths[i], seen[i], NamesIn(x))
            e == [i \in 1 .. n |-> [x \in T |-> More(x, i)]]
            a == <<>>
<1>0. n \in Nat /\ DOMAIN paths = 1 .. n
  BY DEF WellSourced
<1>1. a \in T
  OBVIOUS
<1>2. ASSUME NEW i \in 1 .. n, NEW x \in T PROVE More(x, i) \in T
  <2>1. Len(x) \in Nat /\ DOMAIN x = 1 .. Len(x)
    OBVIOUS
  <2>2. IsFiniteSet(NamesIn(x)) /\ i \in DOMAIN paths
    BY <1>0, <2>1, NamesAreFinite
  <2>3. Batch(s, paths[i], seen[i], NamesIn(x)) \in T
    BY Zenon, <2>2, BatchOf
  <2>. QED  BY <2>3
<1>. HIDE DEF More, T
<1>3. Stepping(e, n, T)
  BY <1>2 DEF Stepping
<1>4. PICK F : Iterates(F, n, T, a, e)
  <2>. HIDE DEF n, e, a
  <2>. QED  BY <1>0, <1>1, <1>3, RecursionExists
<1>. DEFINE Value(G, i) == IF i = 0 THEN <<>> ELSE More(G[i - 1], i)
<1>5. \A G : IsPlan(G, s, paths, seen) <=> G = [i \in 0 .. n |-> Value(G, i)]
  BY DEF IsPlan, More
<1>6. F = [i \in 0 .. n |-> Value(F, i)]
  <2>1. F \in [0 .. n -> T] /\ F[0] = <<>> /\ \A i \in 1 .. n : F[i] = e[i][F[i - 1]]
    BY <1>4 DEF Iterates
  <2>2. ASSUME NEW i \in 0 .. n PROVE F[i] = Value(F, i)
    <3>1. CASE i = 0
      BY <2>1, <3>1
    <3>2. CASE i # 0
      <4>1. i \in 1 .. n /\ i - 1 \in 0 .. n
        BY <3>2, <1>0
      <4>2. F[i - 1] \in T /\ F[i] = e[i][F[i - 1]]
        BY Zenon, <2>1, <4>1
      <4>. QED  BY <3>2, <4>1, <4>2
    <3>. QED  BY <3>1, <3>2
  <2>. HIDE DEF n, Value
  <2>. QED  BY <2>1, <2>2
<1>7. PICK G : G = (CHOOSE H : IsPlan(H, s, paths, seen)) /\ IsPlan(G, s, paths, seen)
  BY <1>5, <1>6
<1>8. PlanOf(s, paths, seen) = G
  BY <1>7 DEF PlanOf, IsPlan
<1>9. \A i \in 0 .. n : G[i] = Value(G, i)
  <2>1. G = [i \in 0 .. n |-> Value(G, i)]
    <3>. HIDE DEF Value, n
    <3>. QED  BY Zenon, <1>5, <1>7
  <2>. HIDE DEF Value
  <2>. QED  BY <2>1
<1>a. G[0] = <<>>
  BY <1>0, <1>9
<1>b. \A i \in 1 .. n : G[i] = More(G[i - 1], i)
  BY <1>0, <1>9
<1>c. \A i \in 0 .. n : G[i] \in PlansAt(s, paths, seen, i)
  <2>. DEFINE S == {i \in 0 .. n : G[i] \in PlansAt(s, paths, seen, i)}
  <2>1. 0 \in S
    <3>1. <<>> \in Seq(MayWrite(s, paths, seen)) /\ NamedOnce(<<>>) /\ NamesIn(<<>>) = {}
      BY DEF NamedOnce, NamesIn
    <3>2. <<>> \in PlansAt(s, paths, seen, 0)
      BY <3>1 DEF PlansAt
    <3>. QED  BY <1>0, <1>a, <3>2
  <2>2. ASSUME NEW i \in 0 .. n - 1, i \in S PROVE i + 1 \in S
    <3>1. i + 1 \in 0 .. n /\ i + 1 \in 1 .. n /\ i + 1 \in DOMAIN paths /\ (i + 1) - 1 = i
      BY <1>0
    <3>2. G[i] \in PlansAt(s, paths, seen, (i + 1) - 1)
      BY <2>2, <3>1
    <3>3. More(G[i], i + 1) \in PlansAt(s, paths, seen, i + 1)
      <4>1. PICK k : k = i + 1 /\ k \in DOMAIN paths /\ k - 1 = i
        BY <3>1
      <4>2. G[i] \in PlansAt(s, paths, seen, k - 1)
        BY <2>2, <4>1
      <4>. QED  BY <4>1, <4>2, PlanMore DEF More
    <3>. QED  BY <1>b, <3>1, <3>3
  <2>. HIDE DEF S
  <2>3. 0 .. n \subseteq S
    BY Zenon, <1>0, <2>1, <2>2, IntervalInduction
  <2>. QED  BY <2>3 DEF S
<1>. QED  BY Zenon, <1>0, <1>8, <1>a, <1>b, <1>c DEF More, PlanGrown

\* What is planned stays where it is as the plan grows.
LEMMA PlanGrows ==
  ASSUME NEW s \in Movers, Planned(s), NEW paths, WellSourced(s, paths), NEW seen,
         NEW j \in 0 .. Len(paths), NEW k \in 0 .. Len(paths), j <= k
  PROVE  LET G == PlanOf(s, paths, seen)
         IN \A i \in DOMAIN G[j] : i \in DOMAIN G[k] /\ G[k][i] = G[j][i]
<1>. DEFINE n == Len(paths)
            E == MayWrite(s, paths, seen)
<1>. DEFINE G == PlanOf(s, paths, seen)
<1>2. n \in Nat /\ DOMAIN paths = 1 .. n
  BY DEF WellSourced
<1>a. /\ \A i \in DOMAIN paths : G[i] = PlanGrown(G[i - 1], s, paths, seen, i)
      /\ \A i \in 0 .. Len(paths) : G[i] \in PlansAt(s, paths, seen, i)
  BY PlanHolds
<1>. HIDE DEF G
<1>3. /\ \A i \in 1 .. n : G[i] = PlanGrown(G[i - 1], s, paths, seen, i)
      /\ \A i \in 0 .. n : G[i] \in PlansAt(s, paths, seen, i)
  <2>1. ASSUME NEW i \in 1 .. n
        PROVE  G[i] = PlanGrown(G[i - 1], s, paths, seen, i)
    <3>1. i \in DOMAIN paths
      BY <1>2
    <3>. QED  BY <1>a, <3>1
  <2>. QED  BY <1>a, <2>1
<1>. DEFINE Agree(m) == \A i \in DOMAIN G[j] : i \in DOMAIN G[m] /\ G[m][i] = G[j][i]
            S == {m \in 0 .. n : j <= m => Agree(m)}
<1>4. 0 \in S
  BY <1>2
<1>5. ASSUME NEW m \in 0 .. n - 1, m \in S PROVE m + 1 \in S
  <2>1. m + 1 \in 0 .. n /\ m + 1 \in 1 .. n /\ m + 1 \in DOMAIN paths /\ (m + 1) - 1 = m /\ m \in 0 .. n
    BY <1>2
  <2>. SUFFICES ASSUME j <= m + 1 PROVE Agree(m + 1)
    BY <2>1
  <2>2. CASE j = m + 1
    BY <2>2
  <2>3. CASE j <= m
    <3>1. Agree(m)
      BY <1>5, <2>3
    <3>2. PICK b : b = Batch(s, paths[m + 1], seen[m + 1], NamesIn(G[m]))
      OBVIOUS
    <3>3. b \in Seq(E)
      <4>1. PICK q : q = m + 1 /\ q \in DOMAIN paths /\ q - 1 = m
        BY <2>1
      <4>2. G[m] \in PlansAt(s, paths, seen, q - 1)
        BY <1>3, <2>1, <4>1
      <4>. QED  BY <3>2, <4>1, <4>2, PlanMore
    <3>4. G[m] \in Seq(E)
      BY <1>3, <2>1 DEF PlansAt
    <3>5. G[m + 1] = G[m] \o b
      BY Zenon, <1>3, <2>1, <3>2 DEF PlanGrown
    <3>6. \A i \in DOMAIN G[m] : i \in DOMAIN G[m + 1] /\ G[m + 1][i] = G[m][i]
      <4>. HIDE DEF E
      <4>. QED  BY <3>3, <3>4, <3>5
    <3>. QED  BY <3>1, <3>6
  <2>. QED  BY <2>2, <2>3, <1>2
<1>6. 0 .. n \subseteq S
  <2>. HIDE DEF S
  <2>. QED  BY Zenon, <1>2, <1>4, <1>5, IntervalInduction
<1>7. Agree(k)
  BY <1>6
<1>. QED  BY <1>7 DEF G

\* One content for a path, wherever in the plan.
LEMMA PlannedOnce ==
  ASSUME NEW s \in Movers, Planned(s), NEW paths, WellSourced(s, paths), NEW seen,
         NEW j \in 0 .. Len(paths), NEW k \in 0 .. Len(paths),
         NEW i1 \in DOMAIN PlanOf(s, paths, seen)[j], NEW i2 \in DOMAIN PlanOf(s, paths, seen)[k],
         PlanOf(s, paths, seen)[j][i1].path = PlanOf(s, paths, seen)[k][i2].path
  PROVE  i1 = i2 /\ PlanOf(s, paths, seen)[j][i1] = PlanOf(s, paths, seen)[k][i2]
<1>1. PICK G : G = PlanOf(s, paths, seen)
  OBVIOUS
<1>2. PICK m \in 0 .. Len(paths) : j <= m /\ k <= m
  BY DEF WellSourced
<1>3. i1 \in DOMAIN G[m] /\ G[m][i1] = G[j][i1] /\ i2 \in DOMAIN G[m] /\ G[m][i2] = G[k][i2]
  <2>1. \A i \in DOMAIN G[j] : i \in DOMAIN G[m] /\ G[m][i] = G[j][i]
    BY <1>1, <1>2, PlanGrows
  <2>2. \A i \in DOMAIN G[k] : i \in DOMAIN G[m] /\ G[m][i] = G[k][i]
    BY <1>1, <1>2, PlanGrows
  <2>. QED  BY <1>1, <2>1, <2>2
<1>4. G[m] \in Seq(MayWrite(s, paths, seen)) /\ NamedOnce(G[m])
  BY <1>1, PlanHolds DEF PlansAt
<1>5. G[m][i1] \in MayWrite(s, paths, seen) /\ G[m][i2] \in MayWrite(s, paths, seen)
  BY <1>3, <1>4
<1>6. G[m][i1].name = G[m][i2].name
  <2>1. G[m][i1].path = FS!Path(FS!OutDir(s), G[m][i1].name) /\ G[m][i2].path = FS!Path(FS!OutDir(s), G[m][i2].name)
    BY <1>5, WrittenInOut
  <2>2. G[m][i1].path = G[m][i2].path
    BY <1>1, <1>3
  <2>3. G[m][i1].path.name = G[m][i1].name /\ G[m][i2].path.name = G[m][i2].name
    BY <2>1 DEF FS!Path
  <2>. QED  BY <2>2, <2>3
<1>. QED  BY <1>1, <1>3, <1>4, <1>6 DEF NamedOnce

-----------------------------------------------------------------------------
(* FileSteps: where the steps of a run are in their plans.                 *)

held     == v1   \* its fs
awaited  == v4   \* its writing
lates    == v5   \* its late
deaths   == v7   \* its crashes
cutsLeft == v8   \* its cuts
USE DEF held, awaited, lates, deaths, cutsLeft

\* What a step takes is there: its own paths, or those of a step that is done.
Sourced(s) == MoverConfig[s].from = s \/ moves[MoverConfig[s].from].pc = "completed"

\* What it finds at each.
Seen(s) ==
  [i \in DOMAIN FS!Paths(s) |->
     IF MoverConfig[s].from # s
     THEN [there |-> TRUE, content |-> moves[MoverConfig[s].from].reported[i].content]
     ELSE IF FS!Paths(s)[i] \in DOMAIN MoverDisk
          THEN [there |-> TRUE, content |-> MoverDisk[FS!Paths(s)[i]]]
          ELSE [there |-> FALSE, content |-> <<>>]]

\* What it is to write, hence.
Plan(s) == PlanOf(s, FS!Paths(s), Seen(s))

\* A write a step may have under way: where it may write, and one of its plan.
InPlan(s, w) == \E k \in 0 .. Len(FS!Paths(s)) : \E i \in DOMAIN Plan(s)[k] : w = Plan(s)[k][i]
Owed(c, s, w) ==
  /\ s \in c /\ FS!WritesIn(s, w.path.dir)
  /\ Planned(s) => Sourced(s) /\ InPlan(s, w)

\* An attempt is at a place in the step's plan: what it reported and what it has
\* in hand are what the plan is up to there.
AtPlace(s, at, reported, todo, used, paths, plans) ==
  /\ at \in 1 .. Len(paths) + 1
  /\ Len(reported) + Len(todo) = Len(plans[at - 1])
  /\ \A i \in DOMAIN reported :
       reported[i] = [path |-> plans[at - 1][i].path, content |-> plans[at - 1][i].content]
  /\ \A i \in DOMAIN todo : todo[i] = plans[at - 1][Len(reported) + i]
  /\ used = {reported[i].path.name : i \in DOMAIN reported}
  /\ reported # <<>> => FS!WritesIn(s, FS!OutDir(s))
OnPlan(s) ==
  /\ WellSourced(s, FS!Paths(s))
  /\ AtPlace(s, moves[s].at, moves[s].reported, moves[s].todo, moves[s].used, FS!Paths(s), Plan(s))
  /\ moves[s].pc = "completed" => moves[s].at = Len(FS!Paths(s)) + 1 /\ moves[s].todo = <<>>

\* The files that were reported are there.
HeldIn(f, reported) ==
  \A i \in DOMAIN reported : reported[i].path \in DOMAIN f /\ f[reported[i].path] = reported[i].content

\* The shape of a step's attempt.
MoveType(r) ==
  /\ DOMAIN r = {"pc", "at", "todo", "used", "reported", "left"}
  /\ r.pc \in {"ready", "running", "completed", "failed"}
  /\ r.at \in Nat \ {0} /\ IsList(r.todo) /\ IsList(r.reported)

\* A step of those that run beside each other.
StepOk(c, s) ==
  /\ MoveType(moves[s])
  /\ s \notin c => moves[s].pc = "failed"
  /\ moves[s].pc \notin {"running", "completed"} => moves[s].reported = <<>>
  /\ moves[s].pc \in {"running", "completed"} => Sourced(s)
  /\ moves[s].pc # "running" => awaited[s] = <<>>
  /\ Planned(s) /\ moves[s].pc \in {"running", "completed"} => OnPlan(s)
  /\ ~Planned(s) /\ moves[s].pc = "running" =>
       \A i \in DOMAIN moves[s].todo :
         \E j \in DOMAIN MoverConfig[s].paths : moves[s].todo[i].path = MoverConfig[s].paths[j]
  /\ awaited[s] # <<>> =>
       moves[s].todo # <<>> /\ awaited[s] = <<moves[s].todo[1]>> /\ Owed(c, s, moves[s].todo[1])

\* Where nobody writes the files are as they were.
DiskOk(c, f) ==
  \A p : (\A s \in c : ~FS!WritesIn(s, p.dir)) =>
    (p \in DOMAIN f <=> p \in DOMAIN MoverDisk) /\ (p \in DOMAIN f => f[p] = MoverDisk[p])

MovedInv(c) ==
  /\ c \in Beside /\ DOMAIN moves = Movers /\ DOMAIN awaited = Movers
  /\ \A s \in Movers : StepOk(c, s)
  /\ \A w \in lates : \E s \in c : Owed(c, s, w)
  /\ DiskOk(c, held)
  /\ \A s \in c : Planned(s) => HeldIn(held, moves[s].reported)
  /\ deaths \in Nat /\ cutsLeft \in Nat /\ (deaths > 0 => cutsLeft = 0 /\ lates = {})

\* What is a sequence over a set is a list over its own values.
LEMMA ListOf ==
  ASSUME NEW S, NEW x \in Seq(S)
  PROVE  IsList(x)
<1>. DEFINE R == {x[i] : i \in DOMAIN x}
<1>1. \A i \in DOMAIN x : x[i] \in R
  OBVIOUS
<1>. HIDE DEF R
<1>2. x \in Seq(R)
  BY <1>1
<1>. QED  BY <1>2 DEF R, IsList

\* A list with one entry more.
LEMMA ListAppended ==
  ASSUME NEW x, IsList(x), NEW e
  PROVE  /\ IsList(Append(x, e)) /\ Len(Append(x, e)) = Len(x) + 1 /\ Len(x) \in Nat
         /\ DOMAIN x = 1 .. Len(x) /\ DOMAIN Append(x, e) = 1 .. Len(x) + 1
         /\ \A i \in DOMAIN x : Append(x, e)[i] = x[i]
         /\ Append(x, e)[Len(x) + 1] = e
<1>. DEFINE S == {x[i] : i \in DOMAIN x} \cup {e}
<1>1. x \in Seq(S) /\ e \in S
  <2>1. x \in Seq({x[i] : i \in DOMAIN x})
    BY DEF IsList
  <2>2. {x[i] : i \in DOMAIN x} \subseteq S
    OBVIOUS
  <2>3. e \in S
    OBVIOUS
  <2>. HIDE DEF S
  <2>4. \A i \in DOMAIN x : x[i] \in S
    BY <2>2
  <2>. QED  BY <2>1, <2>3, <2>4
<1>. HIDE DEF S
<1>2. PICK y : y = Append(x, e)
  BY Zenon
<1>3. /\ y \in Seq(S) /\ Len(y) = Len(x) + 1 /\ Len(x) \in Nat /\ DOMAIN x = 1 .. Len(x)
      /\ DOMAIN y = 1 .. Len(x) + 1 /\ (\A i \in DOMAIN x : y[i] = x[i]) /\ y[Len(x) + 1] = e
  BY <1>1, <1>2
<1>4. IsList(y)
  BY <1>3, ListOf
<1>. QED  BY <1>2, <1>3, <1>4

\* A list without its first entry.
LEMMA ListShortened ==
  ASSUME NEW x, IsList(x), x # <<>>
  PROVE  /\ IsList(Tail(x)) /\ Len(Tail(x)) = Len(x) - 1 /\ Len(x) \in Nat \ {0}
         /\ DOMAIN x = 1 .. Len(x) /\ DOMAIN Tail(x) = 1 .. Len(x) - 1
         /\ \A i \in DOMAIN Tail(x) : Tail(x)[i] = x[i + 1]
         /\ Head(x) = x[1]
<1>. DEFINE S == {x[i] : i \in DOMAIN x}
<1>1. x \in Seq(S)
  BY DEF IsList
<1>. HIDE DEF S
<1>2. PICK y : y = Tail(x)
  BY Zenon
<1>3. /\ y \in Seq(S) /\ Len(y) = Len(x) - 1 /\ Len(x) \in Nat \ {0} /\ DOMAIN x = 1 .. Len(x)
      /\ DOMAIN y = 1 .. Len(x) - 1 /\ (\A i \in DOMAIN y : y[i] = x[i + 1]) /\ Head(x) = x[1]
  BY <1>1, <1>2
<1>4. IsList(y)
  BY <1>3, ListOf
<1>. QED  BY <1>2, <1>3, <1>4

\* What is done stays done, so what a step takes, finds and is to write stays.
LEMMA PlansStay ==
  ASSUME NEW s \in Movers, Sourced(s),
         \A t \in Movers : moves[t].pc = "completed" => moves'[t] = moves[t]
  PROVE  Sourced(s)' /\ FS!Paths(s)' = FS!Paths(s) /\ Seen(s)' = Seen(s) /\ Plan(s)' = Plan(s)
<1>1. CASE MoverConfig[s].from = s
  BY <1>1 DEF Sourced, FS!Paths, Seen, Plan
<1>2. CASE MoverConfig[s].from # s
  <2>1. MoverConfig[s].from \in Movers
    BY FilesAssumption
  <2>2. moves'[MoverConfig[s].from] = moves[MoverConfig[s].from]
    BY <1>2, <2>1 DEF Sourced
  <2>. QED  BY <1>2, <2>2 DEF Sourced, FS!Paths, Seen, Plan
<1>. QED  BY <1>1, <1>2

\* So does what a step has under way, and where a step that does not move is.
LEMMA OwedStays ==
  ASSUME NEW c, c \subseteq Movers, NEW s, NEW w, Owed(c, s, w),
         \A t \in Movers : moves[t].pc = "completed" => moves'[t] = moves[t]
  PROVE  Owed(c, s, w)'
<1>1. s \in Movers
  BY DEF Owed
<1>2. CASE Planned(s)
  <2>1. Sourced(s)' /\ FS!Paths(s)' = FS!Paths(s) /\ Plan(s)' = Plan(s)
    BY <1>1, <1>2, PlansStay DEF Owed
  <2>. QED  BY <1>2, <2>1 DEF Owed, InPlan
<1>3. CASE ~Planned(s)
  BY <1>3 DEF Owed
<1>. QED  BY <1>2, <1>3

\* A step whose move and late answers stay is still in order when what has
\* completed before stays too.
LEMMA StepStays ==
  ASSUME NEW c, c \subseteq Movers, NEW s \in Movers, StepOk(c, s),
         moves'[s] = moves[s], awaited'[s] = awaited[s],
         \A t \in Movers : moves[t].pc = "completed" => moves'[t] = moves[t]
  PROVE  StepOk(c, s)'
<1>1. Sourced(s) => Sourced(s)' /\ FS!Paths(s)' = FS!Paths(s) /\ Plan(s)' = Plan(s)
  BY PlansStay
<1>2. \A w : Owed(c, s, w) => Owed(c, s, w)'
  BY OwedStays
<1>3. OnPlan(s) /\ Sourced(s) => OnPlan(s)'
  BY <1>1 DEF OnPlan
<1>. QED
  BY <1>1, <1>2, <1>3 DEF StepOk

\* Whoever runs beside a step is a step, and keeps out of its files.
LEMMA Apart ==
  ASSUME NEW c \in Beside
  PROVE  /\ c \subseteq Movers
         /\ \A s \in c : FS!Moves(s) /\ FS!WritesIn(s, FS!OutDir(s)) =>
              \A t \in c \ {s} : ~FS!WritesIn(t, FS!OutDir(s))
         /\ \A s \in c : FS!Moves(s) /\ MoverConfig[s].from = s =>
              /\ \A t \in c, i \in DOMAIN MoverConfig[s].paths : ~FS!WritesIn(t, MoverConfig[s].paths[i].dir)
              /\ MoverConfig[s].fn # "extract" =>
                   \A i, j \in DOMAIN MoverConfig[s].paths :
                     MoverConfig[s].paths[i].name = MoverConfig[s].paths[j].name => i = j
         /\ \A s \in c : MoverConfig[s].from # s => Planned(s) /\ Planned(MoverConfig[s].from)
BY FilesAssumption DEF FS!KeepsApart

\* What a step plans is in its directory.
LEMMA PlanEntry ==
  ASSUME NEW s \in Movers, Planned(s), WellSourced(s, FS!Paths(s)),
         NEW k \in 0 .. Len(FS!Paths(s)), NEW i \in DOMAIN Plan(s)[k]
  PROVE  /\ FS!Moves(s) /\ Plan(s)[k][i].path.dir = FS!OutDir(s)
         /\ Plan(s)[k][i].path.name = Plan(s)[k][i].name
<1>1. PICK x : x = Plan(s)[k]
  OBVIOUS
<1>2. x \in PlansAt(s, FS!Paths(s), Seen(s), k)
  BY <1>1, PlanHolds DEF Plan
<1>3. x \in Seq(MayWrite(s, FS!Paths(s), Seen(s))) /\ (MoverConfig[s].fn = "pdf" => x = <<>>)
  BY <1>2 DEF PlansAt
<1>4. x[i] \in MayWrite(s, FS!Paths(s), Seen(s))
  BY <1>1, <1>3
<1>5. x[i].path = FS!Path(FS!OutDir(s), x[i].name)
  BY <1>4, WrittenInOut
<1>6. x[i].path.dir = FS!OutDir(s) /\ x[i].path.name = x[i].name
  BY <1>5 DEF FS!Path
<1>7. FS!Moves(s)
  <2>1. MoverConfig[s].fn # "pdf"
    BY <1>1, <1>3
  <2>. QED  BY <2>1, FilesAssumption DEF FS!Moves, FS!Records
<1>. QED  BY <1>1, <1>6, <1>7

\* And so is what it reported, which only it may write there.
LEMMA ReportedEntry ==
  ASSUME NEW c, MovedInv(c), NEW s \in c, Planned(s), NEW i \in DOMAIN moves[s].reported
  PROVE  /\ s \in Movers /\ moves[s].pc \in {"running", "completed"} /\ OnPlan(s)
         /\ FS!Moves(s) /\ FS!WritesIn(s, FS!OutDir(s))
         /\ moves[s].at - 1 \in 0 .. Len(FS!Paths(s)) /\ i \in DOMAIN Plan(s)[moves[s].at - 1]
         /\ moves[s].reported[i].path = Plan(s)[moves[s].at - 1][i].path
         /\ moves[s].reported[i].content = Plan(s)[moves[s].at - 1][i].content
         /\ moves[s].reported[i].path.dir = FS!OutDir(s)
<1>1. s \in Movers /\ StepOk(c, s)
  BY Apart DEF MovedInv
<1>2. IsList(moves[s].reported) /\ IsList(moves[s].todo) /\ moves[s].reported # <<>>
  BY <1>1 DEF StepOk, MoveType
<1>3. moves[s].pc \in {"running", "completed"} /\ OnPlan(s)
  BY <1>1, <1>2 DEF StepOk
<1>4. AtPlace(s, moves[s].at, moves[s].reported, moves[s].todo, moves[s].used, FS!Paths(s), Plan(s)) /\ WellSourced(s, FS!Paths(s))
  BY <1>3 DEF OnPlan
<1>5. PICK k : k = moves[s].at - 1
  OBVIOUS
<1>6. k \in 0 .. Len(FS!Paths(s)) /\ Len(moves[s].reported) + Len(moves[s].todo) = Len(Plan(s)[k])
      /\ FS!WritesIn(s, FS!OutDir(s))
      /\ moves[s].reported[i] = [path |-> Plan(s)[k][i].path, content |-> Plan(s)[k][i].content]
  <2>1. Len(FS!Paths(s)) \in Nat
    BY <1>4 DEF WellSourced
  <2>2. moves[s].at \in 1 .. Len(FS!Paths(s)) + 1
    BY <1>4 DEF AtPlace
  <2>3. k \in 0 .. Len(FS!Paths(s))
    BY <1>5, <2>1, <2>2
  <2>. QED  BY Zenon, <1>2, <1>4, <1>5, <2>3 DEF AtPlace
<1>7. Plan(s)[k] \in Seq(MayWrite(s, FS!Paths(s), Seen(s)))
  BY <1>1, <1>4, <1>6, PlanHolds DEF Plan, PlansAt
<1>8. i \in DOMAIN Plan(s)[k]
  <2>1. Len(moves[s].reported) \in Nat /\ DOMAIN moves[s].reported = 1 .. Len(moves[s].reported)
    BY <1>2 DEF IsList
  <2>2. Len(moves[s].todo) \in Nat
    BY <1>2 DEF IsList
  <2>3. PICK x : x = Plan(s)[k]
    OBVIOUS
  <2>4. x \in Seq(MayWrite(s, FS!Paths(s), Seen(s))) /\ Len(moves[s].reported) + Len(moves[s].todo) = Len(x)
    BY Zenon, <1>6, <1>7, <2>3
  <2>5. PICK a \in Nat, b \in Nat : a = Len(moves[s].reported) /\ b = Len(moves[s].todo)
    BY <2>1, <2>2
  <2>6. PICK j \in 1 .. a : j = i
    BY <2>1, <2>5
  <2>8. Len(x) = a + b
    BY Zenon, <2>4, <2>5
  <2>9. DOMAIN x = 1 .. Len(x)
    BY <2>4
  <2>a. PICK n \in Nat : n = a + b /\ DOMAIN x = 1 .. n
    BY <2>8, <2>9
  <2>b. j \in 1 .. n
    BY <2>a
  <2>7. j \in DOMAIN x
    BY <2>a, <2>b
  <2>. QED  BY <2>3, <2>6, <2>7
<1>9. FS!Moves(s) /\ Plan(s)[k][i].path.dir = FS!OutDir(s)
  BY <1>1, <1>4, <1>6, <1>8, PlanEntry
<1>. QED  BY <1>1, <1>3, <1>5, <1>6, <1>8, <1>9

\* A write that is owed leaves the files that were reported, and those where
\* nobody writes, as they were.
LEMMA StoreKeeps ==
  ASSUME NEW c, MovedInv(c), NEW t \in c, NEW w, Owed(c, t, w), NEW f, f = FS!Stored(w)
  PROVE  DiskOk(c, f) /\ \A s \in c : Planned(s) => HeldIn(f, moves[s].reported)
<1>0. /\ DOMAIN f = DOMAIN held \cup {w.path} /\ \A p \in DOMAIN held : p # w.path => f[p] = held[p]
      /\ f[w.path] = w.content
  BY DEF FS!Stored
<1>1. DiskOk(c, f)
  <2>. SUFFICES ASSUME NEW p, \A s \in c : ~FS!WritesIn(s, p.dir)
                PROVE  (p \in DOMAIN f <=> p \in DOMAIN MoverDisk) /\ (p \in DOMAIN f => f[p] = MoverDisk[p])
    BY DEF DiskOk
  <2>1. p # w.path
    BY DEF Owed
  <2>2. (p \in DOMAIN held <=> p \in DOMAIN MoverDisk) /\ (p \in DOMAIN held => held[p] = MoverDisk[p])
    <3>1. DiskOk(c, held)
      BY DEF MovedInv
    <3>. QED  BY <3>1 DEF DiskOk
  <2>. QED  BY <1>0, <2>1, <2>2
<1>2. ASSUME NEW s \in c, Planned(s), NEW i \in DOMAIN moves[s].reported
      PROVE  moves[s].reported[i].path \in DOMAIN f /\ f[moves[s].reported[i].path] = moves[s].reported[i].content
  <2>1. PICK r : r = moves[s].reported[i]
    OBVIOUS
  <2>2. r.path \in DOMAIN held /\ held[r.path] = r.content
    <3>1. HeldIn(held, moves[s].reported)
      BY <1>2 DEF MovedInv
    <3>. QED  BY <2>1, <3>1 DEF HeldIn
  <2>3. CASE r.path # w.path
    BY <1>0, <2>1, <2>2, <2>3
  <2>4. CASE r.path = w.path
    <3>1. /\ s \in Movers /\ OnPlan(s) /\ FS!Moves(s) /\ FS!WritesIn(s, FS!OutDir(s)) /\ r.path.dir = FS!OutDir(s)
          /\ moves[s].at - 1 \in 0 .. Len(FS!Paths(s)) /\ i \in DOMAIN Plan(s)[moves[s].at - 1]
          /\ r.path = Plan(s)[moves[s].at - 1][i].path /\ r.content = Plan(s)[moves[s].at - 1][i].content
      BY <1>2, <2>1, ReportedEntry
    <3>2. t = s
      <4>1. FS!WritesIn(t, FS!OutDir(s))
        BY <2>4, <3>1 DEF Owed
      <4>2. c \in Beside
        BY DEF MovedInv
      <4>. QED  BY <3>1, <4>1, <4>2, Apart
    <3>3. PICK k \in 0 .. Len(FS!Paths(s)) : \E j \in DOMAIN Plan(s)[k] : w = Plan(s)[k][j]
      BY <1>2, <3>2 DEF Owed, InPlan
    <3>4. PICK j \in DOMAIN Plan(s)[k] : w = Plan(s)[k][j]
      BY <3>3
    <3>5. PICK m : m = moves[s].at - 1
      OBVIOUS
    <3>6. Plan(s)[m][i] = Plan(s)[k][j]
      <4>1. WellSourced(s, FS!Paths(s))
        BY <3>1 DEF OnPlan
      <4>2. m \in 0 .. Len(FS!Paths(s)) /\ i \in DOMAIN Plan(s)[m] /\ Plan(s)[m][i].path = Plan(s)[k][j].path
        BY Zenon, <2>4, <3>1, <3>4, <3>5
      <4>. QED  BY <1>2, <3>1, <4>1, <4>2, PlannedOnce DEF Plan
    <3>. QED  BY <1>0, <2>1, <2>4, <3>1, <3>4, <3>5, <3>6
  <2>. QED  BY <2>3, <2>4
<1>. QED  BY <1>1, <1>2 DEF HeldIn

\* What a step that moves files finds at its paths is there.
LEMMA SourceSeen ==
  ASSUME NEW c, MovedInv(c), NEW s \in c, FS!Moves(s), Sourced(s), NEW i \in DOMAIN FS!Paths(s)
  PROVE  /\ Seen(s)[i].there <=> FS!Paths(s)[i] \in DOMAIN held
         /\ Seen(s)[i].there => Seen(s)[i].content = held[FS!Paths(s)[i]]
<1>0. c \in Beside /\ c \subseteq Movers /\ s \in Movers
  BY Apart DEF MovedInv
<1>1. PICK p : p = FS!Paths(s)[i]
  OBVIOUS
<1>2. CASE MoverConfig[s].from = s
  <2>1. FS!Paths(s) = MoverConfig[s].paths
    BY <1>2 DEF FS!Paths
  <2>2. \A t \in c : ~FS!WritesIn(t, p.dir)
    BY <1>0, <1>1, <1>2, <2>1, Apart
  <2>3. (p \in DOMAIN held <=> p \in DOMAIN MoverDisk) /\ (p \in DOMAIN held => held[p] = MoverDisk[p])
    <3>1. DiskOk(c, held)
      BY DEF MovedInv
    <3>. QED  BY <2>2, <3>1 DEF DiskOk
  <2>4. Seen(s)[i] = IF p \in DOMAIN MoverDisk THEN [there |-> TRUE, content |-> MoverDisk[p]]
                     ELSE [there |-> FALSE, content |-> <<>>]
    BY <1>1, <1>2 DEF Seen
  <2>5. CASE p \in DOMAIN MoverDisk
    <3>1. Seen(s)[i].there = TRUE /\ Seen(s)[i].content = MoverDisk[p]
      BY <2>4, <2>5
    <3>. QED  BY <1>1, <2>3, <2>5, <3>1
  <2>6. CASE p \notin DOMAIN MoverDisk
    <3>1. Seen(s)[i].there = FALSE
      BY <2>4, <2>6
    <3>. QED  BY <1>1, <2>3, <2>6, <3>1
  <2>. QED  BY <2>5, <2>6
<1>3. CASE MoverConfig[s].from # s
  <2>1. PICK t : t = MoverConfig[s].from
    OBVIOUS
  <2>2. t \in Movers /\ moves[t].pc = "completed" /\ StepOk(c, t) /\ Planned(t)
    BY <1>0, <1>3, <2>1, FilesAssumption, Apart DEF Sourced, MovedInv
  <2>3. t \in c
    BY <2>2 DEF StepOk
  <2>4. HeldIn(held, moves[t].reported)
    BY <2>2, <2>3 DEF MovedInv
  <2>5. i \in DOMAIN moves[t].reported /\ p = moves[t].reported[i].path
    BY <1>1, <1>3, <2>1 DEF FS!Paths
  <2>6. Seen(s)[i] = [there |-> TRUE, content |-> moves[t].reported[i].content]
    BY <1>3, <2>1 DEF Seen
  <2>7. Seen(s)[i].there = TRUE /\ Seen(s)[i].content = moves[t].reported[i].content
    BY <2>6
  <2>8. p \in DOMAIN held /\ held[p] = moves[t].reported[i].content
    BY <2>4, <2>5 DEF HeldIn
  <2>. QED  BY <1>1, <2>7, <2>8
<1>. QED  BY <1>2, <1>3

\* What a step takes once it may start is well sourced.
LEMMA SourcesWell ==
  ASSUME NEW c, MovedInv(c), NEW s \in c, Planned(s), Sourced(s)
  PROVE  WellSourced(s, FS!Paths(s))
<1>0. c \in Beside /\ c \subseteq Movers /\ s \in Movers
  BY Apart DEF MovedInv
<1>1. CASE MoverConfig[s].from = s
  <2>1. FS!Paths(s) = MoverConfig[s].paths
    BY <1>1 DEF FS!Paths
  <2>2. IsList(MoverConfig[s].paths)
    BY <1>0, FilesAssumption
  <2>3. Len(MoverConfig[s].paths) \in Nat /\ DOMAIN MoverConfig[s].paths = 1 .. Len(MoverConfig[s].paths)
    BY <2>2 DEF IsList
  <2>4. MoverConfig[s].fn \in {"copy", "route"} => FS!Moves(s)
    BY DEF FS!Moves
  <2>. QED  BY <1>0, <1>1, <2>1, <2>3, <2>4, Apart DEF WellSourced
<1>2. CASE MoverConfig[s].from # s
  <2>1. PICK t : t = MoverConfig[s].from
    OBVIOUS
  <2>2. t \in Movers /\ moves[t].pc = "completed" /\ StepOk(c, t) /\ Planned(t)
    BY <1>0, <1>2, <2>1, FilesAssumption, Apart DEF Sourced, MovedInv
  <2>3. t \in c /\ OnPlan(t) /\ IsList(moves[t].reported)
    BY <2>2 DEF StepOk, MoveType
  <2>4. PICK n \in Nat : DOMAIN moves[t].reported = 1 .. n
    BY <2>3 DEF IsList
  <2>5. FS!Paths(s) = [i \in 1 .. n |-> moves[t].reported[i].path]
    BY <1>2, <2>1, <2>4 DEF FS!Paths
  <2>6. Len(FS!Paths(s)) = n /\ DOMAIN FS!Paths(s) = 1 .. n
    BY <2>5
  <2>7. ASSUME NEW i \in 1 .. n, NEW j \in 1 .. n, FS!Paths(s)[i].name = FS!Paths(s)[j].name
        PROVE  i = j
    <3>1. PICK k : k = moves[t].at - 1
      OBVIOUS
    <3>2. /\ k \in 0 .. Len(FS!Paths(t)) /\ i \in DOMAIN Plan(t)[k] /\ j \in DOMAIN Plan(t)[k]
          /\ moves[t].reported[i].path = Plan(t)[k][i].path /\ moves[t].reported[j].path = Plan(t)[k][j].path
      <4>1. \A m \in DOMAIN moves[t].reported :
              /\ moves[t].at - 1 \in 0 .. Len(FS!Paths(t)) /\ m \in DOMAIN Plan(t)[moves[t].at - 1]
              /\ moves[t].reported[m].path = Plan(t)[moves[t].at - 1][m].path
        BY <2>2, <2>3, ReportedEntry
      <4>2. i \in DOMAIN moves[t].reported /\ j \in DOMAIN moves[t].reported
        BY <2>4
      <4>. QED  BY <3>1, <4>1, <4>2
    <3>3. WellSourced(t, FS!Paths(t))
      BY <2>3 DEF OnPlan
    <3>4. Plan(t)[k][i].path.name = Plan(t)[k][i].name /\ Plan(t)[k][j].path.name = Plan(t)[k][j].name
      BY <2>2, <3>2, <3>3, PlanEntry
    <3>5. NamedOnce(Plan(t)[k])
      BY <2>2, <3>2, <3>3, PlanHolds DEF Plan, PlansAt
    <3>6. Plan(t)[k][i].name = Plan(t)[k][j].name
      BY <2>5, <2>7, <3>2, <3>4
    <3>. QED  BY <3>2, <3>5, <3>6 DEF NamedOnce
  <2>. QED  BY <2>6, <2>7 DEF WellSourced
<1>. QED  BY <1>1, <1>2

\* One step moves: the others are where they were.
LEMMA MovedStep ==
  ASSUME NEW c, MovedInv(c), NEW s \in Movers, moves[s].pc # "completed",
         DOMAIN moves' = Movers, DOMAIN awaited' = Movers,
         \A t \in Movers \ {s} : moves'[t] = moves[t] /\ awaited'[t] = awaited[t],
         StepOk(c, s)', DiskOk(c, held'),
         \A t \in c \ {s} : Planned(t) => HeldIn(held', moves[t].reported),
         s \in c /\ Planned(s) => HeldIn(held', moves'[s].reported),
         \A w \in lates' : w \in lates \/ Owed(c, s, w),
         deaths' \in Nat, cutsLeft' \in Nat, deaths' > 0 => cutsLeft' = 0 /\ lates' = {}
  PROVE  MovedInv(c)'
<1>0. c \in Beside /\ c \subseteq Movers
  BY Apart DEF MovedInv
<1>1. \A t \in Movers : moves[t].pc = "completed" => moves'[t] = moves[t]
  OBVIOUS
<1>2. \A t \in Movers : StepOk(c, t)'
  <2>1. ASSUME NEW t \in Movers \ {s} PROVE StepOk(c, t)'
    <3>1. StepOk(c, t)
      BY DEF MovedInv
    <3>. QED  BY <1>0, <1>1, <3>1, StepStays
  <2>. QED  BY <2>1
<1>3. \A w \in lates' : \E t \in c : Owed(c, t, w)'
  <2>1. ASSUME NEW w \in lates' PROVE \E t \in c : Owed(c, t, w)'
    <3>1. PICK t \in c : Owed(c, t, w)
      <4>1. Owed(c, s, w) => s \in c
        BY DEF Owed
      <4>2. w \in lates => \E t \in c : Owed(c, t, w)
        BY DEF MovedInv
      <4>. QED  BY <4>1, <4>2
    <3>2. Owed(c, t, w)'
      BY <1>0, <1>1, <3>1, OwedStays
    <3>. QED  BY <3>2
  <2>. QED  BY <2>1
<1>4. \A t \in c : Planned(t) => HeldIn(held', moves'[t].reported)
  BY <1>0
<1>5. DiskOk(c, held)'
  BY DEF DiskOk
<1>6. \A t \in c : Planned(t) => HeldIn(held, moves[t].reported)'
  BY <1>4 DEF HeldIn
<1>. QED
  BY <1>0, <1>2, <1>3, <1>5, <1>6 DEF MovedInv

\* Whatever reported nothing has its files.
LEMMA NothingHeld == \A f : HeldIn(f, <<>>)
BY DEF HeldIn

\* An empty sequence is one.
LEMMA EmptyList == IsList(<<>>)
<1>1. <<>> \in Seq({})
  OBVIOUS
<1>. QED  BY Zenon, <1>1, ListOf

\* A fresh attempt that does not run is in order.
LEMMA FreshOk ==
  ASSUME NEW c, NEW s \in Movers, NEW pc \in {"ready", "failed"}, NEW again,
         s \in c \/ pc = "failed", moves'[s] = FS!Fresh(pc, again), awaited'[s] = <<>>
  PROVE  StepOk(c, s)' /\ moves'[s].reported = <<>>
<1>1. /\ DOMAIN moves'[s] = {"pc", "at", "todo", "used", "reported", "left"} /\ moves'[s].pc = pc
      /\ moves'[s].at = 1 /\ moves'[s].todo = <<>> /\ moves'[s].reported = <<>>
  BY DEF FS!Fresh
<1>. QED
  BY <1>1, EmptyList DEF StepOk, MoveType

\* An attempt that fails, or is cut, leaves what it has under way and the plan.
LEMMA FailedKeeps ==
  ASSUME NEW c, MovedInv(c), NEW s \in Movers, moves[s].pc = "running", moves' = FS!Failed(s),
         DOMAIN awaited' = Movers, awaited'[s] = <<>>,
         \A t \in Movers \ {s} : awaited'[t] = awaited[t], held' = held,
         \A w \in lates' : w \in lates \/ Owed(c, s, w),
         deaths' \in Nat, cutsLeft' \in Nat, deaths' > 0 => cutsLeft' = 0 /\ lates' = {}
  PROVE  MovedInv(c)'
<1>a. PICK pc \in {"ready", "failed"} : pc = IF moves[s].left > 0 THEN "ready" ELSE "failed"
  OBVIOUS
<1>b. PICK again : again = moves[s].left
  OBVIOUS
<1>1. moves' = [moves EXCEPT ![s] = FS!Fresh(pc, again)]
  BY <1>a, <1>b DEF FS!Failed
<1>2. DOMAIN moves = Movers /\ StepOk(c, s) /\ DiskOk(c, held)
      /\ \A t \in c : Planned(t) => HeldIn(held, moves[t].reported)
  BY DEF MovedInv
<1>3. s \in c
  BY <1>2 DEF StepOk
<1>4. moves'[s] = FS!Fresh(pc, again) /\ DOMAIN moves' = Movers /\ \A t \in Movers \ {s} : moves'[t] = moves[t]
  BY <1>1, <1>2
<1>5. StepOk(c, s)' /\ moves'[s].reported = <<>>
  BY <1>3, <1>4, FreshOk
<1>6. HeldIn(held', moves'[s].reported)
  BY <1>5, NothingHeld
<1>. QED
  BY <1>2, <1>4, <1>5, <1>6, MovedStep

\* A step starts at the beginning of its plan.
LEMMA DispatchMoves ==
  ASSUME NEW c, MovedInv(c), NEW s \in Movers, FS!Dispatch(s)
  PROVE  MovedInv(c)'
<1>0. /\ DOMAIN moves = Movers /\ DOMAIN awaited = Movers /\ StepOk(c, s) /\ DiskOk(c, held)
      /\ \A t \in c : Planned(t) => HeldIn(held, moves[t].reported)
      /\ deaths \in Nat /\ cutsLeft \in Nat /\ (deaths > 0 => cutsLeft = 0 /\ lates = {})
  BY DEF MovedInv
<1>1. /\ moves[s].pc = "ready" /\ Sourced(s) /\ moves' = [moves EXCEPT ![s] = FS!Fresh("running", moves[s].left - 1)]
      /\ held' = held /\ awaited' = awaited /\ lates' = lates /\ deaths' = deaths /\ cutsLeft' = cutsLeft
  BY DEF FS!Dispatch, FS!Ready, Sourced
<1>2. s \in c /\ awaited[s] = <<>>
  BY <1>0, <1>1 DEF StepOk
<1>3. moves'[s] = FS!Fresh("running", moves[s].left - 1) /\ DOMAIN moves' = Movers
      /\ \A t \in Movers \ {s} : moves'[t] = moves[t]
  BY <1>0, <1>1
<1>4. /\ DOMAIN moves'[s] = {"pc", "at", "todo", "used", "reported", "left"} /\ moves'[s].pc = "running"
      /\ moves'[s].at = 1 /\ moves'[s].todo = <<>> /\ moves'[s].reported = <<>> /\ moves'[s].used = {}
  BY <1>3 DEF FS!Fresh
<1>5. Sourced(s)' /\ FS!Paths(s)' = FS!Paths(s) /\ Plan(s)' = Plan(s)
  <2>1. \A t \in Movers : moves[t].pc = "completed" => moves'[t] = moves[t]
    BY <1>1, <1>3
  <2>. QED  BY <1>1, <2>1, PlansStay
<1>6. Planned(s) => OnPlan(s)'
  <2>. SUFFICES ASSUME Planned(s) PROVE OnPlan(s)'
    OBVIOUS
  <2>1. WellSourced(s, FS!Paths(s))
    BY <1>1, <1>2, SourcesWell
  <2>2. Plan(s)[0] = <<>>
    BY <2>1, PlanHolds DEF Plan
  <2>3. AtPlace(s, 1, <<>>, <<>>, {}, FS!Paths(s), Plan(s))
    <3>1. Len(FS!Paths(s)) \in Nat
      BY <2>1 DEF WellSourced
    <3>2. 1 \in 1 .. Len(FS!Paths(s)) + 1
      BY <3>1
    <3>3. Len(<<>>) + Len(<<>>) = Len(<<>>) /\ DOMAIN <<>> = {}
      OBVIOUS
    <3>. QED  BY <2>2, <3>2, <3>3 DEF AtPlace
  <2>. QED  BY <1>4, <1>5, <2>1, <2>3 DEF OnPlan
<1>7. StepOk(c, s)'
  BY <1>1, <1>2, <1>4, <1>5, <1>6, EmptyList DEF StepOk, MoveType
<1>8. HeldIn(held', moves'[s].reported)
  BY <1>4, NothingHeld
<1>. QED
  BY <1>0, <1>1, <1>3, <1>7, <1>8, MovedStep

\* A step is done at the end of its plan.
LEMMA CompleteMoves ==
  ASSUME NEW c, MovedInv(c), NEW s \in Movers, FS!Complete(s)
  PROVE  MovedInv(c)'
<1>0. /\ DOMAIN moves = Movers /\ DOMAIN awaited = Movers /\ StepOk(c, s) /\ DiskOk(c, held)
      /\ \A t \in c : Planned(t) => HeldIn(held, moves[t].reported)
      /\ deaths \in Nat /\ cutsLeft \in Nat /\ (deaths > 0 => cutsLeft = 0 /\ lates = {})
  BY DEF MovedInv
<1>1. /\ moves[s].pc = "running" /\ moves[s].todo = <<>> /\ moves[s].at > Len(FS!Paths(s))
      /\ moves' = [moves EXCEPT ![s].pc = "completed"]
      /\ held' = held /\ awaited' = awaited /\ lates' = lates /\ deaths' = deaths /\ cutsLeft' = cutsLeft
  BY DEF FS!Complete
<1>2. s \in c /\ awaited[s] = <<>> /\ Sourced(s) /\ MoveType(moves[s]) /\ (Planned(s) => OnPlan(s))
  BY <1>0, <1>1 DEF StepOk
<1>3. /\ DOMAIN moves' = Movers /\ \A t \in Movers \ {s} : moves'[t] = moves[t]
      /\ moves'[s] = [moves[s] EXCEPT !.pc = "completed"]
  BY <1>0, <1>1
<1>4. /\ DOMAIN moves'[s] = DOMAIN moves[s] /\ moves'[s].pc = "completed" /\ moves'[s].at = moves[s].at
      /\ moves'[s].todo = moves[s].todo /\ moves'[s].reported = moves[s].reported /\ moves'[s].used = moves[s].used
  BY <1>2, <1>3 DEF MoveType
<1>5. Sourced(s)' /\ FS!Paths(s)' = FS!Paths(s) /\ Plan(s)' = Plan(s)
  <2>1. \A t \in Movers : moves[t].pc = "completed" => moves'[t] = moves[t]
    BY <1>1, <1>3
  <2>. QED  BY <1>2, <2>1, PlansStay
<1>6. Planned(s) => OnPlan(s)'
  <2>. SUFFICES ASSUME Planned(s) PROVE OnPlan(s)'
    OBVIOUS
  <2>1. WellSourced(s, FS!Paths(s)) /\ AtPlace(s, moves[s].at, moves[s].reported, moves[s].todo, moves[s].used, FS!Paths(s), Plan(s))
    BY <1>2 DEF OnPlan
  <2>2. moves[s].at = Len(FS!Paths(s)) + 1
    <3>1. Len(FS!Paths(s)) \in Nat /\ moves[s].at \in 1 .. Len(FS!Paths(s)) + 1
      BY <2>1 DEF WellSourced, AtPlace
    <3>. QED  BY <1>1, <3>1
  <2>. QED  BY <1>1, <1>4, <1>5, <2>1, <2>2 DEF OnPlan
<1>7. StepOk(c, s)'
  <2>1. MoveType(moves'[s])
    BY <1>2, <1>4 DEF MoveType
  <2>. QED  BY <1>1, <1>2, <1>4, <1>5, <1>6, <2>1 DEF StepOk
<1>8. Planned(s) => HeldIn(held', moves'[s].reported)
  BY <1>0, <1>1, <1>2, <1>4
<1>. QED
  BY <1>0, <1>1, <1>3, <1>7, <1>8, MovedStep

\* A step in its plan, with what is in hand there.
LEMMA InHand ==
  ASSUME NEW c, MovedInv(c), NEW s \in Movers, moves[s].pc = "running", Planned(s)
  PROVE  /\ s \in c /\ WellSourced(s, FS!Paths(s)) /\ Sourced(s)
         /\ \E k \in 0 .. Len(FS!Paths(s)) : \E a \in Nat, b \in Nat :
              /\ moves[s].at = k + 1 /\ Len(moves[s].reported) = a /\ Len(moves[s].todo) = b
              /\ DOMAIN moves[s].reported = 1 .. a /\ DOMAIN moves[s].todo = 1 .. b
              /\ Plan(s)[k] \in Seq(MayWrite(s, FS!Paths(s), Seen(s)))
              /\ Len(Plan(s)[k]) = a + b /\ DOMAIN Plan(s)[k] = 1 .. a + b
<1>1. StepOk(c, s)
  BY DEF MovedInv
<1>2. s \in c /\ MoveType(moves[s]) /\ OnPlan(s) /\ Sourced(s)
  BY <1>1 DEF StepOk
<1>3. WellSourced(s, FS!Paths(s))
  BY <1>2 DEF OnPlan
<1>4. moves[s].at \in 1 .. Len(FS!Paths(s)) + 1
      /\ Len(moves[s].reported) + Len(moves[s].todo) = Len(Plan(s)[moves[s].at - 1])
  BY Zenon, <1>2 DEF OnPlan, AtPlace
<1>5. PICK k \in 0 .. Len(FS!Paths(s)) : moves[s].at = k + 1 /\ moves[s].at - 1 = k
  <2>1. PICK n \in Nat : n = Len(FS!Paths(s))
    BY Zenon, <1>3 DEF WellSourced
  <2>2. PICK m \in 1 .. n + 1 : m = moves[s].at
    BY <1>4, <2>1
  <2>3. m - 1 \in 0 .. n /\ m = (m - 1) + 1
    OBVIOUS
  <2>. QED  BY <2>1, <2>2, <2>3
<1>6. PICK a \in Nat : Len(moves[s].reported) = a /\ DOMAIN moves[s].reported = 1 .. a
  BY <1>2 DEF MoveType, IsList
<1>7. PICK b \in Nat : Len(moves[s].todo) = b /\ DOMAIN moves[s].todo = 1 .. b
  BY <1>2 DEF MoveType, IsList
<1>8. Plan(s)[k] \in Seq(MayWrite(s, FS!Paths(s), Seen(s)))
  BY <1>3, PlanHolds DEF Plan, PlansAt
<1>9. PICK x : x = Plan(s)[k]
  OBVIOUS
<1>a. Len(x) = a + b
  BY <1>4, <1>5, <1>6, <1>7, <1>9
<1>b. DOMAIN x = 1 .. Len(x)
  BY <1>8, <1>9
<1>. QED
  BY Zenon, <1>2, <1>3, <1>5, <1>6, <1>7, <1>8, <1>9, <1>a, <1>b

\* What a step has in hand it may write once its layers let it.
LEMMA InHandOwed ==
  ASSUME FilesInv, NEW c, MovedInv(c), NEW s \in Movers, moves[s].pc = "running", moves[s].todo # <<>>,
         FS!CanWrite(s, moves[s].todo[1].path)
  PROVE  Owed(c, s, moves[s].todo[1])
<1>0. StepOk(c, s) /\ c \in Beside
  BY DEF MovedInv
<1>1. s \in c /\ MoveType(moves[s])
  BY <1>0 DEF StepOk
<1>2. \A layer \in MoverConfig[s].layers : moves[s].todo[1].path.dir \in layer.write
  BY AllowedWithinLayers
<1>3. 1 \in DOMAIN moves[s].todo
  BY <1>1, ListShortened DEF MoveType
<1>4. CASE Planned(s)
  <2>1. WellSourced(s, FS!Paths(s)) /\ Sourced(s)
    BY <1>4, InHand
  <2>2. PICK k \in 0 .. Len(FS!Paths(s)) : \E a \in Nat, b \in Nat :
              /\ moves[s].at = k + 1 /\ Len(moves[s].reported) = a /\ Len(moves[s].todo) = b
              /\ DOMAIN moves[s].reported = 1 .. a /\ DOMAIN moves[s].todo = 1 .. b
              /\ DOMAIN Plan(s)[k] = 1 .. a + b
    BY <1>4, InHand
  <2>3. PICK a \in Nat, b \in Nat :
              /\ moves[s].at = k + 1 /\ Len(moves[s].reported) = a /\ DOMAIN moves[s].todo = 1 .. b
              /\ DOMAIN Plan(s)[k] = 1 .. a + b
    BY Zenon, <2>2
  <2>4. a + 1 \in DOMAIN Plan(s)[k] /\ moves[s].at - 1 = k
    <3>1. 1 \in 1 .. b
      BY <1>3, <2>3
    <3>2. a + 1 \in 1 .. a + b
      BY <3>1
    <3>3. k \in Int
      BY <2>1 DEF WellSourced
    <3>. QED  BY <2>3, <3>2, <3>3
  <2>5. moves[s].todo[1] = Plan(s)[k][a + 1]
    <3>1. OnPlan(s)
      BY <1>0, <1>4 DEF StepOk
    <3>. QED  BY <1>3, <2>3, <2>4, <3>1 DEF OnPlan, AtPlace
  <2>6. FS!Moves(s) /\ moves[s].todo[1].path.dir = FS!OutDir(s)
    BY <1>4, <2>1, <2>4, <2>5, PlanEntry
  <2>7. InPlan(s, moves[s].todo[1])
    BY <2>4, <2>5 DEF InPlan
  <2>8. FS!WritesIn(s, moves[s].todo[1].path.dir)
    BY <1>2, <2>6 DEF FS!WritesIn
  <2>. QED  BY <1>1, <2>1, <2>7, <2>8 DEF Owed
<1>5. CASE ~Planned(s)
  <2>1. \E j \in DOMAIN MoverConfig[s].paths : moves[s].todo[1].path = MoverConfig[s].paths[j]
    BY <1>0, <1>3, <1>5 DEF StepOk
  <2>2. FS!WritesIn(s, moves[s].todo[1].path.dir)
    BY <1>2, <1>5, <2>1 DEF FS!WritesIn
  <2>. QED  BY <1>1, <1>5, <2>2 DEF Owed
<1>. QED  BY <1>4, <1>5

\* A step begins to write what it has in hand.
LEMMA BeginMoves ==
  ASSUME FilesInv, NEW c, MovedInv(c), NEW s \in Movers, FS!BeginWrite(s)
  PROVE  MovedInv(c)'
<1>0. /\ DOMAIN moves = Movers /\ DOMAIN awaited = Movers /\ StepOk(c, s) /\ DiskOk(c, held) /\ c \in Beside
      /\ \A t \in c : Planned(t) => HeldIn(held, moves[t].reported)
      /\ deaths \in Nat /\ cutsLeft \in Nat /\ (deaths > 0 => cutsLeft = 0 /\ lates = {})
  BY DEF MovedInv
<1>1. /\ moves[s].pc = "running" /\ moves[s].todo # <<>> /\ awaited[s] = <<>>
      /\ held' = held /\ lates' = lates /\ deaths' = deaths /\ cutsLeft' = cutsLeft
  BY DEF FS!BeginWrite, FS!Nothing
<1>2. MoveType(moves[s])
  BY <1>0 DEF StepOk
<1>3. PICK w : w = Head(moves[s].todo)
  OBVIOUS
<1>4. w = moves[s].todo[1]
  BY <1>1, <1>2, <1>3, ListShortened DEF MoveType
<1>5. \/ FS!CanWrite(s, w.path) /\ awaited' = [awaited EXCEPT ![s] = <<w>>] /\ moves' = moves
      \/ moves' = FS!Failed(s) /\ awaited' = awaited
  BY <1>3 DEF FS!BeginWrite
<1>6. CASE FS!CanWrite(s, w.path) /\ awaited' = [awaited EXCEPT ![s] = <<w>>] /\ moves' = moves
  <2>1. DOMAIN awaited' = Movers /\ awaited'[s] = <<w>> /\ \A t \in Movers \ {s} : awaited'[t] = awaited[t]
    BY <1>0, <1>6
  <2>2. Owed(c, s, w)
    BY <1>1, <1>4, <1>6, InHandOwed
  <2>3. Owed(c, s, w)'
    <3>1. c \subseteq Movers
      BY <1>0, Apart
    <3>. QED  BY <1>6, <2>2, <3>1, OwedStays
  <2>4. (OnPlan(s) => OnPlan(s)') /\ (Sourced(s) => Sourced(s)')
    <3>1. Sourced(s) => Sourced(s)' /\ FS!Paths(s)' = FS!Paths(s) /\ Plan(s)' = Plan(s)
      BY <1>6, PlansStay
    <3>2. FS!Paths(s)' = FS!Paths(s) /\ Plan(s)' = Plan(s)
      BY <1>0, <1>1, <3>1 DEF StepOk
    <3>. QED  BY <1>6, <3>1, <3>2 DEF OnPlan
  <2>5. StepOk(c, s)'
    BY <1>0, <1>1, <1>4, <1>6, <2>1, <2>3, <2>4 DEF StepOk
  <2>6. Planned(s) /\ s \in c => HeldIn(held', moves'[s].reported)
    BY <1>0, <1>1, <1>6
  <2>. QED  BY <1>0, <1>1, <1>6, <2>1, <2>5, <2>6, MovedStep
<1>7. CASE moves' = FS!Failed(s) /\ awaited' = awaited
  BY <1>0, <1>1, <1>7, FailedKeeps
<1>. QED  BY <1>5, <1>6, <1>7

\* A time limit strikes: what is under way is owed.
LEMMA CutMoves ==
  ASSUME NEW c, MovedInv(c), NEW s \in Movers, FS!Cut(s)
  PROVE  MovedInv(c)'
<1>0. /\ DOMAIN moves = Movers /\ DOMAIN awaited = Movers /\ StepOk(c, s)
      /\ deaths \in Nat /\ cutsLeft \in Nat /\ (deaths > 0 => cutsLeft = 0 /\ lates = {})
  BY DEF MovedInv
<1>1. /\ moves[s].pc = "running" /\ cutsLeft > 0 /\ cutsLeft' = cutsLeft - 1 /\ moves' = FS!Failed(s)
      /\ lates' = IF awaited[s] = <<>> THEN lates ELSE lates \cup {awaited[s][1]}
      /\ awaited' = [awaited EXCEPT ![s] = <<>>] /\ held' = held /\ deaths' = deaths
  BY DEF FS!Cut, FS!Nothing
<1>2. DOMAIN awaited' = Movers /\ awaited'[s] = <<>> /\ \A t \in Movers \ {s} : awaited'[t] = awaited[t]
  BY <1>0, <1>1
<1>3. \A w \in lates' : w \in lates \/ Owed(c, s, w)
  <2>1. awaited[s] # <<>> => awaited[s] = <<moves[s].todo[1]>> /\ Owed(c, s, moves[s].todo[1])
    BY <1>0 DEF StepOk
  <2>. QED  BY <1>1, <2>1
<1>4. cutsLeft' \in Nat /\ deaths' \in Nat /\ (deaths' > 0 => cutsLeft' = 0 /\ lates' = {})
  BY <1>0, <1>1
<1>. QED
  BY <1>1, <1>2, <1>3, <1>4, FailedKeeps

\* One more of the plan is reported, one less in hand.
LEMMA PlaceMoves ==
  ASSUME NEW s, NEW at, NEW reported, NEW todo, NEW used, NEW paths, NEW plans,
         IsList(reported), IsList(todo), todo # <<>>,
         AtPlace(s, at, reported, todo, used, paths, plans),
         Len(plans[at - 1]) \in Nat, FS!WritesIn(s, FS!OutDir(s)),
         todo[1].path.name = todo[1].name
  PROVE  AtPlace(s, at, Append(reported, [path |-> todo[1].path, content |-> todo[1].content]), Tail(todo),
                 used \cup {todo[1].name}, paths, plans)
<1>1. PICK e : e = [path |-> todo[1].path, content |-> todo[1].content]
  BY Zenon
<1>2. PICK rr : rr = Append(reported, e)
  BY Zenon
<1>3. PICK tt : tt = Tail(todo)
  BY Zenon
<1>4. PICK plan : plan = plans[at - 1]
  OBVIOUS
<1>5. PICK a \in Nat : Len(reported) = a /\ DOMAIN reported = 1 .. a /\ DOMAIN rr = 1 .. a + 1 /\ Len(rr) = a + 1
                       /\ (\A i \in 1 .. a : rr[i] = reported[i]) /\ rr[a + 1] = e
  BY <1>2, ListAppended
<1>6. PICK b \in Nat \ {0} : Len(todo) = b /\ DOMAIN todo = 1 .. b /\ DOMAIN tt = 1 .. b - 1 /\ Len(tt) = b - 1
                             /\ \A i \in 1 .. b - 1 : tt[i] = todo[i + 1]
  BY <1>3, ListShortened
<1>7. /\ Len(plan) = a + b
      /\ \A i \in 1 .. a : reported[i] = [path |-> plan[i].path, content |-> plan[i].content]
      /\ \A i \in 1 .. b : todo[i] = plan[a + i]
      /\ used = {reported[i].path.name : i \in 1 .. a}
  BY Zenon, <1>4, <1>5, <1>6 DEF AtPlace
<1>8. Len(rr) + Len(tt) = Len(plan)
  BY <1>5, <1>6, <1>7
<1>9. \A i \in 1 .. a + 1 : rr[i] = [path |-> plan[i].path, content |-> plan[i].content]
  <2>1. todo[1] = plan[a + 1]
    BY <1>7
  <2>2. rr[a + 1] = [path |-> plan[a + 1].path, content |-> plan[a + 1].content]
    BY <1>1, <1>5, <2>1
  <2>3. \A i \in 1 .. a : rr[i] = [path |-> plan[i].path, content |-> plan[i].content]
    BY <1>5, <1>7
  <2>4. \A i \in 1 .. a + 1 : i \in 1 .. a \/ i = a + 1
    OBVIOUS
  <2>. QED  BY <2>2, <2>3, <2>4
<1>a. \A i \in 1 .. b - 1 : tt[i] = plan[(a + 1) + i]
  <2>1. ASSUME NEW i \in 1 .. b - 1 PROVE tt[i] = plan[(a + 1) + i]
    <3>1. i + 1 \in 1 .. b /\ a + (i + 1) = (a + 1) + i
      OBVIOUS
    <3>2. todo[i + 1] = plan[a + (i + 1)]
      BY <1>7, <3>1
    <3>. QED  BY <1>6, <3>1, <3>2
  <2>. QED  BY <2>1
<1>b. used \cup {todo[1].name} = {rr[i].path.name : i \in 1 .. a + 1}
  <2>1. rr[a + 1].path.name = todo[1].name
    BY <1>1, <1>5
  <2>2. \A i \in 1 .. a : rr[i].path.name = reported[i].path.name
    BY <1>5
  <2>3. 1 .. a + 1 = (1 .. a) \cup {a + 1}
    OBVIOUS
  <2>4. {rr[i].path.name : i \in 1 .. a + 1} = {rr[i].path.name : i \in 1 .. a} \cup {rr[a + 1].path.name}
    BY <2>3
  <2>5. {rr[i].path.name : i \in 1 .. a} = {reported[i].path.name : i \in 1 .. a}
    BY <2>2
  <2>. QED  BY Zenon, <1>7, <2>1, <2>4, <2>5
<1>c. at \in 1 .. Len(paths) + 1
  BY DEF AtPlace
<1>d. AtPlace(s, at, rr, tt, used \cup {todo[1].name}, paths, plans)
  BY Zenon, <1>4, <1>5, <1>6, <1>8, <1>9, <1>a, <1>b, <1>c DEF AtPlace
<1>. QED  BY <1>1, <1>2, <1>3, <1>d

\* A write ends: what was in hand is there and reported.
LEMMA EndMoves ==
  ASSUME NEW c, MovedInv(c), NEW s \in Movers, FS!EndWrite(s)
  PROVE  MovedInv(c)'
<1>0. /\ DOMAIN moves = Movers /\ DOMAIN awaited = Movers /\ StepOk(c, s) /\ c \in Beside
      /\ \A t \in c : Planned(t) => HeldIn(held, moves[t].reported)
      /\ deaths \in Nat /\ cutsLeft \in Nat /\ (deaths > 0 => cutsLeft = 0 /\ lates = {})
  BY DEF MovedInv
<1>1. /\ awaited[s] # <<>> /\ lates' = lates /\ deaths' = deaths /\ cutsLeft' = cutsLeft
      /\ held' = FS!Stored(awaited[s][1]) /\ awaited' = [awaited EXCEPT ![s] = <<>>]
      /\ moves' = [moves EXCEPT ![s].todo = Tail(@), ![s].used = @ \cup {awaited[s][1].name},
                    ![s].reported = Append(@, [path |-> awaited[s][1].path, content |-> awaited[s][1].content])]
  BY DEF FS!EndWrite, FS!Nothing
<1>2. /\ moves[s].pc = "running" /\ moves[s].todo # <<>> /\ awaited[s] = <<moves[s].todo[1]>>
      /\ Owed(c, s, moves[s].todo[1]) /\ s \in c /\ MoveType(moves[s]) /\ Sourced(s)
  BY <1>0, <1>1 DEF StepOk
<1>a. awaited[s][1] = moves[s].todo[1]
  <2>1. \A x : <<x>>[1] = x
    OBVIOUS
  <2>. QED  BY <1>2, <2>1
<1>3. PICK w : w = moves[s].todo[1] /\ awaited[s][1] = w
  BY <1>a
<1>4. PICK e : e = [path |-> w.path, content |-> w.content]
  BY Zenon
<1>5. /\ DOMAIN moves' = Movers /\ (\A t \in Movers \ {s} : moves'[t] = moves[t])
      /\ DOMAIN moves'[s] = DOMAIN moves[s] /\ moves'[s].pc = moves[s].pc /\ moves'[s].at = moves[s].at
      /\ moves'[s].todo = Tail(moves[s].todo) /\ moves'[s].used = moves[s].used \cup {w.name}
      /\ moves'[s].reported = Append(moves[s].reported, e)
  BY <1>0, <1>1, <1>2, <1>3, <1>4 DEF MoveType
<1>6. DOMAIN awaited' = Movers /\ awaited'[s] = <<>> /\ \A t \in Movers \ {s} : awaited'[t] = awaited[t]
  BY <1>0, <1>1
<1>7. Sourced(s)' /\ FS!Paths(s)' = FS!Paths(s) /\ Plan(s)' = Plan(s)
  <2>1. \A t \in Movers : moves[t].pc = "completed" => moves'[t] = moves[t]
    BY <1>2, <1>5
  <2>. QED  BY <1>2, <2>1, PlansStay
<1>8. Planned(s) => OnPlan(s)'
  <2>. SUFFICES ASSUME Planned(s) PROVE OnPlan(s)'
    OBVIOUS
  <2>1. OnPlan(s)
    BY <1>0, <1>2 DEF StepOk
  <2>2. PICK k \in 0 .. Len(FS!Paths(s)) : \E i \in DOMAIN Plan(s)[k] : w = Plan(s)[k][i]
    BY <1>2, <1>3 DEF Owed, InPlan
  <2>3. PICK i \in DOMAIN Plan(s)[k] : w = Plan(s)[k][i]
    BY <2>2
  <2>4. w.path.dir = FS!OutDir(s) /\ w.path.name = w.name
    BY <2>1, <2>3, PlanEntry DEF OnPlan
  <2>5. FS!WritesIn(s, FS!OutDir(s))
    BY <1>2, <1>3, <2>4 DEF Owed
  <2>6. Len(Plan(s)[moves[s].at - 1]) \in Nat
    <3>1. PICK m \in 0 .. Len(FS!Paths(s)) : \E a \in Nat, b \in Nat : moves[s].at = m + 1 /\ Len(Plan(s)[m]) = a + b
      BY <1>2, InHand
    <3>2. Len(Plan(s)[m]) \in Nat /\ moves[s].at = m + 1
      BY <3>1
    <3>3. moves[s].at - 1 = m
      <4>1. Len(FS!Paths(s)) \in Nat
        BY <2>1 DEF OnPlan, WellSourced
      <4>. QED  BY <3>2, <4>1
    <3>. QED  BY <3>2, <3>3
  <2>7. AtPlace(s, moves[s].at, moves'[s].reported, moves'[s].todo, moves'[s].used, FS!Paths(s), Plan(s))
    <3>1. AtPlace(s, moves[s].at, moves[s].reported, moves[s].todo, moves[s].used, FS!Paths(s), Plan(s))
      BY <2>1 DEF OnPlan
    <3>2. IsList(moves[s].reported) /\ IsList(moves[s].todo) /\ moves[s].todo[1].path.name = moves[s].todo[1].name
      BY <1>2, <1>3, <2>4 DEF MoveType
    <3>3. AtPlace(s, moves[s].at,
                  Append(moves[s].reported, [path |-> moves[s].todo[1].path, content |-> moves[s].todo[1].content]),
                  Tail(moves[s].todo), moves[s].used \cup {moves[s].todo[1].name}, FS!Paths(s), Plan(s))
      BY <1>2, <2>5, <2>6, <3>1, <3>2, PlaceMoves
    <3>. QED  BY <1>3, <1>4, <1>5, <3>3
  <2>. QED  BY <1>2, <1>5, <1>7, <2>1, <2>7 DEF OnPlan
<1>9. MoveType(moves'[s])
  <2>1. IsList(moves'[s].todo) /\ IsList(moves'[s].reported)
    BY <1>2, <1>5, ListShortened, ListAppended DEF MoveType
  <2>. QED  BY <1>2, <1>5, <2>1 DEF MoveType
<1>f. ~Planned(s) => \A i \in DOMAIN moves'[s].todo :
        \E j \in DOMAIN MoverConfig[s].paths : moves'[s].todo[i].path = MoverConfig[s].paths[j]
  <2>. SUFFICES ASSUME ~Planned(s), NEW i \in DOMAIN moves'[s].todo
                PROVE \E j \in DOMAIN MoverConfig[s].paths : moves'[s].todo[i].path = MoverConfig[s].paths[j]
    OBVIOUS
  <2>1. PICK b \in Nat : DOMAIN moves[s].todo = 1 .. b /\ DOMAIN Tail(moves[s].todo) = 1 .. b - 1
                         /\ \A m \in 1 .. b - 1 : Tail(moves[s].todo)[m] = moves[s].todo[m + 1]
    BY <1>2, ListShortened DEF MoveType
  <2>2. PICK m \in 1 .. b - 1 : m = i
    BY <1>5, <2>1
  <2>3. m + 1 \in DOMAIN moves[s].todo /\ moves'[s].todo[i] = moves[s].todo[m + 1]
    BY <1>5, <2>1, <2>2
  <2>. QED  BY <1>0, <1>2, <2>3 DEF StepOk
<1>b. StepOk(c, s)'
  BY <1>2, <1>5, <1>6, <1>7, <1>8, <1>9, <1>f DEF StepOk
<1>c. DiskOk(c, held') /\ \A t \in c : Planned(t) => HeldIn(held', moves[t].reported)
  BY <1>1, <1>2, <1>3, StoreKeeps
<1>d. Planned(s) => HeldIn(held', moves'[s].reported)
  <2>. SUFFICES ASSUME Planned(s) PROVE HeldIn(held', moves'[s].reported)
    OBVIOUS
  <2>1. HeldIn(held', moves[s].reported)
    BY <1>2, <1>c
  <2>2. w.path \in DOMAIN held' /\ held'[w.path] = w.content
    BY <1>1, <1>3 DEF FS!Stored
  <2>3. PICK rr : rr = moves'[s].reported
    OBVIOUS
  <2>4. PICK a \in Nat : DOMAIN moves[s].reported = 1 .. a /\ DOMAIN rr = 1 .. a + 1
                         /\ (\A i \in 1 .. a : rr[i] = moves[s].reported[i]) /\ rr[a + 1] = e
    <3>1. IsList(moves[s].reported)
      BY <1>2 DEF MoveType
    <3>2. PICK r : r = moves[s].reported
      OBVIOUS
    <3>3. PICK a \in Nat : a = Len(r)
      BY <3>1, <3>2, ListAppended
    <3>4. rr = Append(r, e) /\ IsList(r)
      BY <1>5, <2>3, <3>1, <3>2
    <3>5. DOMAIN r = 1 .. a /\ DOMAIN rr = 1 .. a + 1 /\ (\A i \in 1 .. a : rr[i] = r[i]) /\ rr[a + 1] = e
      BY <3>3, <3>4, ListAppended
    <3>. QED  BY <3>2, <3>5
  <2>5. ASSUME NEW i \in 1 .. a + 1 PROVE rr[i].path \in DOMAIN held' /\ held'[rr[i].path] = rr[i].content
    <3>1. CASE i \in 1 .. a
      BY <2>1, <2>4, <3>1 DEF HeldIn
    <3>2. CASE i = a + 1
      <4>1. rr[i].path = w.path /\ rr[i].content = w.content
        BY <1>4, <2>4, <3>2
      <4>. QED  BY <2>2, <4>1
    <3>. QED  BY <3>1, <3>2
  <2>. QED  BY <2>3, <2>4, <2>5 DEF HeldIn
<1>. QED
  BY <1>0, <1>1, <1>2, <1>5, <1>6, <1>b, <1>c, <1>d, MovedStep

\* With nothing in hand a step has reported its whole plan so far, and the names
\* it has given out are those of the plan.
LEMMA NothingInHand ==
  ASSUME NEW c, MovedInv(c), NEW s \in Movers, moves[s].pc = "running", Planned(s), moves[s].todo = <<>>
  PROVE  \E k \in 0 .. Len(FS!Paths(s)) :
           /\ moves[s].at = k + 1 /\ moves[s].at - 1 = k
           /\ DOMAIN moves[s].reported = DOMAIN Plan(s)[k] /\ Len(moves[s].reported) = Len(Plan(s)[k])
           /\ moves[s].used = NamesIn(Plan(s)[k])
<1>1. /\ s \in c /\ WellSourced(s, FS!Paths(s)) /\ Sourced(s)
      /\ \E k \in 0 .. Len(FS!Paths(s)) : \E a \in Nat, b \in Nat :
              /\ moves[s].at = k + 1 /\ Len(moves[s].reported) = a /\ Len(moves[s].todo) = b
              /\ DOMAIN moves[s].reported = 1 .. a
              /\ Len(Plan(s)[k]) = a + b /\ DOMAIN Plan(s)[k] = 1 .. a + b
  BY InHand
<1>2. PICK k \in 0 .. Len(FS!Paths(s)) : \E a \in Nat, b \in Nat :
              /\ moves[s].at = k + 1 /\ Len(moves[s].reported) = a /\ Len(moves[s].todo) = b
              /\ DOMAIN moves[s].reported = 1 .. a
              /\ Len(Plan(s)[k]) = a + b /\ DOMAIN Plan(s)[k] = 1 .. a + b
  BY <1>1
<1>3. PICK a \in Nat :
              /\ moves[s].at = k + 1 /\ Len(moves[s].reported) = a
              /\ DOMAIN moves[s].reported = 1 .. a
              /\ Len(Plan(s)[k]) = a /\ DOMAIN Plan(s)[k] = 1 .. a
  <2>1. Len(<<>>) = 0
    OBVIOUS
  <2>. QED  BY <1>2, <2>1
<1>4. moves[s].at - 1 = k
  <2>1. Len(FS!Paths(s)) \in Nat
    BY <1>1 DEF WellSourced
  <2>. QED  BY <1>3, <2>1
<1>5. \A i \in 1 .. a : moves[s].reported[i].path.name = Plan(s)[k][i].name
  <2>1. StepOk(c, s)
    BY DEF MovedInv
  <2>2. OnPlan(s)
    BY <2>1 DEF StepOk
  <2>3. \A i \in 1 .. a : moves[s].reported[i].path = Plan(s)[k][i].path
    <3>1. \A i \in DOMAIN moves[s].reported :
            moves[s].reported[i] = [path |-> Plan(s)[moves[s].at - 1][i].path, content |-> Plan(s)[moves[s].at - 1][i].content]
      BY <2>2 DEF OnPlan, AtPlace
    <3>2. \A i \in 1 .. a : moves[s].reported[i] = [path |-> Plan(s)[k][i].path, content |-> Plan(s)[k][i].content]
      BY <1>3, <1>4, <3>1
    <3>3. ASSUME NEW i \in 1 .. a
          PROVE  moves[s].reported[i].path = Plan(s)[k][i].path
      <4>1. PICK x, y : x = Plan(s)[k][i].path /\ y = Plan(s)[k][i].content
        BY Zenon
      <4>2. moves[s].reported[i] = [path |-> x, content |-> y]
        BY <3>2, <4>1
      <4>. QED  BY <4>1, <4>2
    <3>. QED  BY <3>3
  <2>4. \A i \in 1 .. a : Plan(s)[k][i].path.name = Plan(s)[k][i].name
    BY <1>1, <1>3, PlanEntry
  <2>. QED  BY <2>3, <2>4
<1>6. moves[s].used = {moves[s].reported[i].path.name : i \in 1 .. a}
  <2>1. StepOk(c, s)
    BY DEF MovedInv
  <2>2. OnPlan(s)
    BY <2>1 DEF StepOk
  <2>. QED  BY <1>3, <2>2 DEF OnPlan, AtPlace
<1>7. moves[s].used = NamesIn(Plan(s)[k])
  <2>1. NamesIn(Plan(s)[k]) = {Plan(s)[k][i].name : i \in 1 .. a}
    BY <1>3 DEF NamesIn
  <2>. QED  BY <1>5, <1>6, <2>1
<1>. QED  BY <1>3, <1>4, <1>7

\* What a step writes for what it reads is what its plan says.
LEMMA ReadsThePlan ==
  ASSUME NEW c, MovedInv(c), NEW s \in c, s \in Movers, Sourced(s), Planned(s), NEW i \in DOMAIN FS!Paths(s),
         NEW p, p = FS!Paths(s)[i], NEW content, FS!Exists(p) => content = held[p],
         ~(~FS!Exists(p) /\ FS!Missing(s) = "fail")
  PROVE  (IF ~FS!Exists(p) /\ FS!Missing(s) = "skip" THEN <<>> ELSE FS!Writes(s, p, content))
           = Batch(s, p, Seen(s)[i], moves[s].used)
<1>0. MoverConfig[s].fn \in {"extract", "copy", "route", "pdf"}
  BY FilesAssumption DEF FS!Records
<1>1. CASE MoverConfig[s].fn = "pdf"
  BY <1>1 DEF Batch, FS!Writes, FS!Missing
<1>2. CASE FS!Moves(s)
  <2>1. (Seen(s)[i].there <=> p \in DOMAIN held) /\ (Seen(s)[i].there => Seen(s)[i].content = held[p])
    BY <1>2, SourceSeen
  <2>2. CASE FS!Exists(p)
    <3>1. Seen(s)[i].there /\ Seen(s)[i].content = content
      BY <2>1, <2>2 DEF FS!Exists
    <3>2. FS!Writes(s, p, content) = Batch(s, p, Seen(s)[i], moves[s].used)
      <4>1. CASE MoverConfig[s].fn = "extract"
        BY <3>1, <4>1 DEF Batch, FS!Writes, FS!Extracted
      <4>2. CASE MoverConfig[s].fn = "copy"
        BY <3>1, <4>2 DEF Batch, FS!Writes
      <4>3. CASE MoverConfig[s].fn = "route"
        BY <3>1, <4>3 DEF Batch, FS!Writes
      <4>. QED  BY <1>0, <1>2, <4>1, <4>2, <4>3 DEF FS!Moves
    <3>. QED  BY <2>2, <3>2
  <2>3. CASE ~FS!Exists(p)
    <3>1. ~Seen(s)[i].there
      BY <2>1, <2>3 DEF FS!Exists
    <3>2. FS!Missing(s) = "skip"
      BY <1>0, <2>3 DEF FS!Missing
    <3>. QED  BY <2>3, <3>1, <3>2 DEF Batch
  <2>. QED  BY <2>2, <2>3
<1>. QED  BY <1>0, <1>1, <1>2 DEF FS!Moves

\* With the next path read it is a place further on in its plan.
LEMMA PlaceReads ==
  ASSUME NEW c, MovedInv(c), NEW s \in Movers, moves[s].pc = "running", Planned(s), moves[s].todo = <<>>,
         moves[s].at \in DOMAIN FS!Paths(s),
         NEW b, b = Batch(s, FS!Paths(s)[moves[s].at], Seen(s)[moves[s].at], moves[s].used)
  PROVE  /\ IsList(b)
         /\ AtPlace(s, moves[s].at + 1, moves[s].reported, b, moves[s].used, FS!Paths(s), Plan(s))
<1>1. PICK k \in 0 .. Len(FS!Paths(s)) :
           /\ moves[s].at = k + 1 /\ moves[s].at - 1 = k
           /\ DOMAIN moves[s].reported = DOMAIN Plan(s)[k] /\ Len(moves[s].reported) = Len(Plan(s)[k])
           /\ moves[s].used = NamesIn(Plan(s)[k])
  BY NothingInHand
<1>2. s \in c /\ WellSourced(s, FS!Paths(s)) /\ OnPlan(s)
  <2>1. StepOk(c, s)
    BY DEF MovedInv
  <2>. QED  BY <2>1 DEF StepOk, OnPlan
<1>. DEFINE X == MayWrite(s, FS!Paths(s), Seen(s))
<1>3. PICK x : x = Plan(s)[k]
  OBVIOUS
<1>4. PICK m : m = moves[s].at
  OBVIOUS
<1>5. m \in DOMAIN FS!Paths(s) /\ m - 1 = k /\ m = k + 1
  BY <1>1, <1>4
<1>6. x \in PlansAt(s, FS!Paths(s), Seen(s), m - 1)
  BY <1>2, <1>3, <1>5, PlanHolds DEF Plan
<1>7. b \in Seq(X) /\ b = Batch(s, FS!Paths(s)[m], Seen(s)[m], NamesIn(x))
  <2>1. b = Batch(s, FS!Paths(s)[m], Seen(s)[m], NamesIn(x))
    BY <1>1, <1>3, <1>4
  <2>. QED  BY <1>2, <1>5, <1>6, <2>1, PlanMore
<1>8. Plan(s)[m] = x \o b
  <2>1. Plan(s)[m] = PlanGrown(Plan(s)[m - 1], s, FS!Paths(s), Seen(s), m)
    BY <1>2, <1>5, PlanHolds DEF Plan
  <2>. QED  BY Zenon, <1>3, <1>5, <1>7, <2>1 DEF PlanGrown
<1>9. x \in Seq(X)
  BY <1>6 DEF PlansAt
<1>a. PICK y : y = x \o b
  BY Zenon
<1>b. PICK a \in Nat, d \in Nat : /\ Len(x) = a /\ DOMAIN x = 1 .. a /\ Len(b) = d /\ DOMAIN b = 1 .. d
                                  /\ Len(y) = a + d
                                  /\ (\A i \in 1 .. a : y[i] = x[i]) /\ (\A i \in 1 .. d : y[a + i] = b[i])
  <2>. HIDE DEF X
  <2>1. Len(x) \in Nat /\ DOMAIN x = 1 .. Len(x) /\ Len(b) \in Nat /\ DOMAIN b = 1 .. Len(b)
    BY <1>7, <1>9
  <2>2. Len(y) = Len(x) + Len(b) /\ (\A i \in DOMAIN x : y[i] = x[i]) /\ (\A i \in DOMAIN b : y[Len(x) + i] = b[i])
    BY <1>7, <1>9, <1>a
  <2>. QED  BY Zenon, <2>1, <2>2
<1>c. (m + 1) - 1 = m /\ m + 1 \in 1 .. Len(FS!Paths(s)) + 1
  <2>1. Len(FS!Paths(s)) \in Nat /\ m \in 1 .. Len(FS!Paths(s))
    BY <1>2, <1>5 DEF WellSourced
  <2>. QED  BY <2>1
<1>d. \A i \in 1 .. a : moves[s].reported[i] = [path |-> y[i].path, content |-> y[i].content]
  <2>1. \A i \in 1 .. a : moves[s].reported[i] = [path |-> x[i].path, content |-> x[i].content]
    BY Zenon, <1>1, <1>2, <1>3, <1>b DEF OnPlan, AtPlace
  <2>. QED  BY <1>b, <2>1
<1>e. DOMAIN moves[s].reported = 1 .. a /\ Len(moves[s].reported) = a
  BY <1>1, <1>3, <1>b
<1>f. /\ moves[s].used = {moves[s].reported[i].path.name : i \in DOMAIN moves[s].reported}
      /\ moves[s].reported # <<>> => FS!WritesIn(s, FS!OutDir(s))
  BY <1>2 DEF OnPlan, AtPlace
<1>g. Plan(s)[(m + 1) - 1] = y
  BY <1>8, <1>a, <1>c
<1>h. AtPlace(s, m + 1, moves[s].reported, b, moves[s].used, FS!Paths(s), Plan(s))
  BY Zenon, <1>b, <1>c, <1>d, <1>e, <1>f, <1>g DEF AtPlace
<1>i. IsList(b)
  BY <1>7, ListOf
<1>. QED  BY <1>4, <1>h, <1>i

\* A step reads its next path.
LEMMA ReadMoves ==
  ASSUME NEW c, MovedInv(c), NEW s \in Movers, FS!Read(s)
  PROVE  MovedInv(c)'
<1>0. /\ DOMAIN moves = Movers /\ DOMAIN awaited = Movers /\ StepOk(c, s) /\ DiskOk(c, held) /\ c \in Beside
      /\ \A t \in c : Planned(t) => HeldIn(held, moves[t].reported)
      /\ deaths \in Nat /\ cutsLeft \in Nat /\ (deaths > 0 => cutsLeft = 0 /\ lates = {})
  BY DEF MovedInv
<1>1. /\ moves[s].pc = "running" /\ moves[s].todo = <<>> /\ moves[s].at <= Len(FS!Paths(s)) /\ awaited[s] = <<>>
      /\ held' = held /\ awaited' = awaited /\ lates' = lates /\ deaths' = deaths /\ cutsLeft' = cutsLeft
  BY DEF FS!Read, FS!Nothing
<1>2. s \in c /\ Sourced(s) /\ MoveType(moves[s]) /\ (Planned(s) => OnPlan(s))
  BY <1>0, <1>1 DEF StepOk
<1>3. PICK p : p = FS!Paths(s)[moves[s].at]
  OBVIOUS
<1>4. PICK content : content = IF FS!Exists(p) /\ MoverConfig[s].fn # "csv" THEN held[p] ELSE <<>>
  OBVIOUS
<1>5. PICK fails \in BOOLEAN :
        fails = (\/ ~FS!Allowed(s, p)
                 \/ FS!Exists(p) /\ FS!Blank(s, content)
                 \/ ~FS!Exists(p) /\ FS!Missing(s) = "fail")
  BY Zenon
<1>6. PICK b : b = IF ~FS!Exists(p) /\ FS!Missing(s) = "skip" THEN <<>> ELSE FS!Writes(s, p, content)
  OBVIOUS
<1>7. moves' = IF fails THEN FS!Failed(s) ELSE [moves EXCEPT ![s].at = @ + 1, ![s].todo = b]
  BY <1>3, <1>4, <1>5, <1>6 DEF FS!Read
<1>8. CASE fails
  BY <1>0, <1>1, <1>7, <1>8, FailedKeeps
<1>9. CASE ~fails
  <2>1. moves' = [moves EXCEPT ![s].at = @ + 1, ![s].todo = b]
    BY <1>7, <1>9
  <2>2. /\ DOMAIN moves' = Movers /\ (\A t \in Movers \ {s} : moves'[t] = moves[t])
        /\ DOMAIN moves'[s] = DOMAIN moves[s] /\ moves'[s].pc = "running" /\ moves'[s].at = moves[s].at + 1
        /\ moves'[s].todo = b /\ moves'[s].used = moves[s].used /\ moves'[s].reported = moves[s].reported
    BY <1>0, <1>1, <1>2, <2>1 DEF MoveType
  <2>3. Sourced(s)' /\ FS!Paths(s)' = FS!Paths(s) /\ Plan(s)' = Plan(s)
    <3>1. \A t \in Movers : moves[t].pc = "completed" => moves'[t] = moves[t]
      BY <1>1, <2>2
    <3>. QED  BY <1>2, <3>1, PlansStay
  <2>4. Planned(s) => IsList(b) /\ OnPlan(s)'
    <3>. SUFFICES ASSUME Planned(s) PROVE IsList(b) /\ OnPlan(s)'
      OBVIOUS
    <3>1. WellSourced(s, FS!Paths(s))
      BY <1>2 DEF OnPlan
    <3>2. moves[s].at \in DOMAIN FS!Paths(s)
      BY <1>1, <1>2, <3>1 DEF WellSourced, MoveType
    <3>3. b = Batch(s, p, Seen(s)[moves[s].at], moves[s].used)
      <4>1. FS!Exists(p) => content = held[p]
        BY <1>4 DEF FS!Records
      <4>2. ~(~FS!Exists(p) /\ FS!Missing(s) = "fail")
        BY <1>5, <1>9
      <4>. QED  BY <1>2, <1>3, <1>6, <3>2, <4>1, <4>2, ReadsThePlan
    <3>4. IsList(b) /\ AtPlace(s, moves[s].at + 1, moves[s].reported, b, moves[s].used, FS!Paths(s), Plan(s))
      BY <1>1, <1>3, <3>2, <3>3, PlaceReads
    <3>. QED  BY <2>2, <2>3, <3>1, <3>4 DEF OnPlan
  <2>5. ~Planned(s) => IsList(b) /\ \A i \in DOMAIN b :
          \E j \in DOMAIN MoverConfig[s].paths : b[i].path = MoverConfig[s].paths[j]
    <3>. SUFFICES ASSUME ~Planned(s)
                  PROVE  IsList(b) /\ \A i \in DOMAIN b :
                           \E j \in DOMAIN MoverConfig[s].paths : b[i].path = MoverConfig[s].paths[j]
      OBVIOUS
    <3>1. MoverConfig[s].from = s
      BY <1>0, <1>2, Apart
    <3>2. FS!Paths(s) = MoverConfig[s].paths
      BY <3>1 DEF FS!Paths
    <3>3. IsList(MoverConfig[s].paths)
      BY FilesAssumption
    <3>4. moves[s].at \in DOMAIN MoverConfig[s].paths
      BY <1>1, <1>2, <3>2, <3>3 DEF IsList, MoveType
    <3>5. PICK e : b = <<e>> /\ e.path = p
      <4>1. CASE MoverConfig[s].fn = "append"
        BY <1>6, <4>1 DEF FS!Missing, FS!Writes, FS!Appended, FS!One
      <4>2. CASE MoverConfig[s].fn = "csv"
        BY <1>6, <4>2 DEF FS!Missing, FS!Writes, FS!Csv, FS!One
      <4>. QED  BY <4>1, <4>2 DEF FS!Records
    <3>6. b \in Seq({e}) /\ DOMAIN b = {1} /\ b[1] = e
      BY <3>5
    <3>7. IsList(b)
      BY <3>6, ListOf
    <3>. QED  BY <1>3, <3>2, <3>4, <3>5, <3>6, <3>7
  <2>6. MoveType(moves'[s])
    BY <1>2, <2>2, <2>4, <2>5 DEF MoveType
  <2>7. StepOk(c, s)'
    BY <1>1, <1>2, <2>2, <2>3, <2>4, <2>5, <2>6 DEF StepOk
  <2>8. Planned(s) => HeldIn(held', moves'[s].reported)
    BY <1>0, <1>1, <1>2, <2>2
  <2>. QED  BY <1>0, <1>1, <2>2, <2>7, <2>8, MovedStep
<1>. QED  BY <1>8, <1>9

\* A write of a cut attempt lands, or never does.
LEMMA LateMoves ==
  ASSUME NEW c, MovedInv(c), NEW w \in lates, FS!LateWrite(w)
  PROVE  MovedInv(c)'
<1>0. /\ DOMAIN moves = Movers /\ DOMAIN awaited = Movers /\ DiskOk(c, held) /\ c \in Beside /\ c \subseteq Movers
      /\ \A s \in Movers : StepOk(c, s)
      /\ \A t \in c : Planned(t) => HeldIn(held, moves[t].reported)
      /\ deaths \in Nat /\ cutsLeft \in Nat /\ (deaths > 0 => cutsLeft = 0 /\ lates = {})
  BY Apart DEF MovedInv
<1>1. /\ lates' = lates \ {w} /\ held' \in {held, FS!Stored(w)} /\ moves' = moves /\ awaited' = awaited
      /\ deaths' = deaths /\ cutsLeft' = cutsLeft
  BY DEF FS!LateWrite
<1>2. DiskOk(c, held') /\ \A t \in c : Planned(t) => HeldIn(held', moves[t].reported)
  <2>1. PICK t \in c : Owed(c, t, w)
    BY DEF MovedInv
  <2>2. CASE held' = held
    BY <1>0, <2>2
  <2>3. CASE held' = FS!Stored(w)
    BY <2>1, <2>3, StoreKeeps
  <2>. QED  BY <1>1, <2>2, <2>3
<1>3. \A s \in Movers : StepOk(c, s)'
  BY <1>0, <1>1, StepStays
<1>4. \A v \in lates' : \E t \in c : Owed(c, t, v)'
  <2>1. ASSUME NEW v \in lates' PROVE \E t \in c : Owed(c, t, v)'
    <3>1. PICK t \in c : Owed(c, t, v)
      BY <1>1 DEF MovedInv
    <3>2. Owed(c, t, v)'
      BY <1>0, <1>1, <3>1, OwedStays
    <3>. QED  BY <3>2
  <2>. QED  BY <2>1
<1>5. DiskOk(c, held)' /\ \A t \in c : Planned(t) => HeldIn(held, moves[t].reported)'
  BY <1>1, <1>2 DEF DiskOk, HeldIn
<1>. QED
  BY <1>0, <1>1, <1>3, <1>4, <1>5 DEF MovedInv

\* The process dies: what is done stays done, and its files stay there; the rest
\* starts again.
LEMMA CrashMoves ==
  ASSUME NEW c, MovedInv(c), FS!Crash
  PROVE  MovedInv(c)'
<1>0. /\ DOMAIN moves = Movers /\ DOMAIN awaited = Movers /\ DiskOk(c, held) /\ c \in Beside /\ c \subseteq Movers
      /\ \A s \in Movers : StepOk(c, s)
      /\ \A t \in c : Planned(t) => HeldIn(held, moves[t].reported)
      /\ deaths \in Nat /\ cutsLeft \in Nat /\ (deaths > 0 => cutsLeft = 0 /\ lates = {})
  BY Apart DEF MovedInv
<1>1. deaths > 0 /\ deaths' = deaths - 1 /\ lates' = {} /\ cutsLeft' = cutsLeft
      /\ awaited' = [s \in Movers |-> <<>>]
      /\ moves' = [s \in Movers |-> IF moves[s].pc = "running"
                                    THEN FS!Fresh("ready", MoverConfig[s].retries + 1) ELSE moves[s]]
  BY DEF FS!Crash, FS!Nothing
<1>. DEFINE flying == lates \cup UNION {{awaited[s][1]} : s \in {t \in Movers : awaited[t] # <<>>}}
<1>2. PICK torn \in SUBSET {w.path : w \in flying} :
        held' = [p \in DOMAIN held \cup torn |-> IF p \in torn THEN <<>> ELSE held[p]]
  BY Zenon DEF FS!Crash, FS!Nothing
<1>3. \A p \in torn : \E t \in c : moves[t].pc = "running" /\ FS!WritesIn(t, p.dir)
  <2>. SUFFICES ASSUME NEW p \in torn PROVE \E t \in c : moves[t].pc = "running" /\ FS!WritesIn(t, p.dir)
    OBVIOUS
  <2>1. PICK w \in flying : p = w.path
    BY <1>2
  <2>2. lates = {}
    BY <1>0, <1>1
  <2>3. PICK t \in Movers : awaited[t] # <<>> /\ w = awaited[t][1]
    BY <2>1, <2>2
  <2>4. moves[t].pc = "running" /\ awaited[t] = <<moves[t].todo[1]>> /\ Owed(c, t, moves[t].todo[1])
    BY <1>0, <2>3 DEF StepOk
  <2>5. w = moves[t].todo[1]
    <3>1. \A x : <<x>>[1] = x
      OBVIOUS
    <3>. QED  BY <2>3, <2>4, <3>1
  <2>. QED  BY <2>1, <2>4, <2>5 DEF Owed
<1>4. /\ DOMAIN held' = DOMAIN held \cup torn
      /\ \A p \in DOMAIN held : p \notin torn => held'[p] = held[p]
  BY <1>2
<1>5. DiskOk(c, held')
  <2>. SUFFICES ASSUME NEW p, \A s \in c : ~FS!WritesIn(s, p.dir)
                PROVE  (p \in DOMAIN held' <=> p \in DOMAIN MoverDisk) /\ (p \in DOMAIN held' => held'[p] = MoverDisk[p])
    BY DEF DiskOk
  <2>1. p \notin torn
    BY <1>3
  <2>2. (p \in DOMAIN held <=> p \in DOMAIN MoverDisk) /\ (p \in DOMAIN held => held[p] = MoverDisk[p])
    BY <1>0 DEF DiskOk
  <2>. QED  BY <1>4, <2>1, <2>2
<1>6. \A s \in Movers : moves[s].pc = "running" =>
        moves'[s] = FS!Fresh("ready", MoverConfig[s].retries + 1)
  BY <1>1
<1>7. \A s \in Movers : moves[s].pc # "running" => moves'[s] = moves[s]
  BY <1>1
<1>8. \A s \in Movers : StepOk(c, s)'
  <2>. SUFFICES ASSUME NEW s \in Movers PROVE StepOk(c, s)'
    OBVIOUS
  <2>1. awaited'[s] = <<>>
    BY <1>1
  <2>2. CASE moves[s].pc = "running"
    <3>1. s \in c
      BY <1>0, <2>2 DEF StepOk
    <3>. QED  BY <1>6, <2>1, <2>2, <3>1, FreshOk
  <2>3. CASE moves[s].pc # "running"
    <3>1. awaited'[s] = awaited[s]
      BY <1>0, <2>1, <2>3 DEF StepOk
    <3>2. \A t \in Movers : moves[t].pc = "completed" => moves'[t] = moves[t]
      BY <1>7
    <3>. QED  BY <1>0, <1>7, <2>3, <3>1, <3>2, StepStays
  <2>. QED  BY <2>2, <2>3
<1>9. \A s \in c : Planned(s) => HeldIn(held', moves'[s].reported)
  <2>. SUFFICES ASSUME NEW s \in c, Planned(s) PROVE HeldIn(held', moves'[s].reported)
    OBVIOUS
  <2>0. s \in Movers
    BY <1>0
  <2>1. CASE moves[s].pc = "running"
    <3>1. moves'[s].reported = <<>>
      <4>1. moves'[s] = FS!Fresh("ready", MoverConfig[s].retries + 1)
        BY <1>6, <2>0, <2>1
      <4>2. FS!Fresh("ready", MoverConfig[s].retries + 1).reported = <<>>
        BY DEF FS!Fresh
      <4>. QED  BY <4>1, <4>2
    <3>. QED  BY <3>1, NothingHeld
  <2>2. CASE moves[s].pc # "running"
    <3>1. ASSUME NEW i \in DOMAIN moves[s].reported
          PROVE  moves[s].reported[i].path \in DOMAIN held' /\ held'[moves[s].reported[i].path] = moves[s].reported[i].content
      <4>1. PICK r : r = moves[s].reported[i]
        OBVIOUS
      <4>2. r.path \in DOMAIN held /\ held[r.path] = r.content
        <5>1. HeldIn(held, moves[s].reported)
          BY <1>0
        <5>. QED  BY <4>1, <5>1 DEF HeldIn
      <4>3. FS!Moves(s) /\ FS!WritesIn(s, FS!OutDir(s)) /\ r.path.dir = FS!OutDir(s)
        BY <4>1, ReportedEntry
      <4>4. r.path \notin torn
        <5>. SUFFICES ASSUME r.path \in torn PROVE FALSE
          OBVIOUS
        <5>1. PICK t \in c : moves[t].pc = "running" /\ FS!WritesIn(t, FS!OutDir(s))
          BY <1>3, <4>3
        <5>2. t # s
          BY <2>2, <5>1
        <5>. QED  BY <1>0, <4>3, <5>1, <5>2, Apart
      <4>. QED  BY <1>4, <4>1, <4>2, <4>4
    <3>2. moves'[s] = moves[s]
      BY <1>7, <2>0, <2>2
    <3>. QED  BY <3>1, <3>2 DEF HeldIn
  <2>. QED  BY <2>1, <2>2
<1>a. DOMAIN moves' = Movers /\ DOMAIN awaited' = Movers /\ deaths' \in Nat /\ cutsLeft' = 0
  BY <1>0, <1>1
<1>b. DiskOk(c, held)' /\ \A t \in c : Planned(t) => HeldIn(held, moves[t].reported)'
  BY <1>5, <1>9 DEF DiskOk, HeldIn
<1>. QED
  BY Zenon, <1>0, <1>1, <1>8, <1>a, <1>b DEF MovedInv

\* At the start nothing is moved yet.
LEMMA StartMoves ==
  ASSUME FS!Init
  PROVE  \E c \in Beside : MovedInv(c)
<1>1. PICK c \in Beside :
        moves = [s \in Movers |-> IF s \in c THEN FS!Fresh("ready", MoverConfig[s].retries + 1)
                                  ELSE FS!Fresh("failed", 0)]
  BY DEF FS!Init
<1>2. held = MoverDisk /\ awaited = [s \in Movers |-> <<>>] /\ lates = {}
      /\ deaths \in Nat /\ cutsLeft \in Nat /\ (deaths > 0 => cutsLeft = 0)
  <2>1. PICK b \in MoverBudgets : cutsLeft = b.cuts /\ deaths = b.crashes
    BY DEF FS!Init
  <2>2. b.cuts \in Nat /\ b.crashes \in Nat /\ (b.cuts = 0 \/ b.crashes = 0)
    BY FilesAssumption
  <2>. QED  BY <2>1, <2>2 DEF FS!Init, FS!Nothing
<1>3. ASSUME NEW s \in Movers PROVE StepOk(c, s) /\ moves[s].reported = <<>>
  <2>1. PICK pc \in {"ready", "failed"} : (s \in c \/ pc = "failed") /\ \E again : moves[s] = FS!Fresh(pc, again)
    BY <1>1
  <2>2. /\ DOMAIN moves[s] = {"pc", "at", "todo", "used", "reported", "left"} /\ moves[s].pc = pc
        /\ moves[s].at = 1 /\ moves[s].todo = <<>> /\ moves[s].reported = <<>>
    BY <2>1 DEF FS!Fresh
  <2>. QED  BY <1>2, <2>1, <2>2, EmptyList DEF StepOk, MoveType
<1>4. \A s \in c : HeldIn(held, moves[s].reported)
  BY <1>3, NothingHeld, Apart
<1>. QED
  BY Zenon, <1>1, <1>2, <1>3, <1>4 DEF MovedInv, DiskOk

\* Every step of the run keeps to the plans.
LEMMA MovedNext ==
  ASSUME FilesInv, NEW c, MovedInv(c), FS!Next
  PROVE  MovedInv(c)'
BY DispatchMoves, ReadMoves, BeginMoves, EndMoves, CompleteMoves, CutMoves, LateMoves, CrashMoves DEF FS!Next

\* And so a completed step's files are there, each reported once.
LEMMA MovedHonest ==
  ASSUME NEW c, MovedInv(c)
  PROVE  FS!ReportedFilesAreThere
<1>. SUFFICES ASSUME NEW s \in Movers, moves[s].pc = "completed", FS!Moves(s)
              PROVE  /\ \A i \in DOMAIN moves[s].reported :
                          FS!Exists(moves[s].reported[i].path)
                          /\ held[moves[s].reported[i].path] = moves[s].reported[i].content
                     /\ \A i, j \in DOMAIN moves[s].reported :
                          moves[s].reported[i].path = moves[s].reported[j].path => i = j
  BY DEF FS!ReportedFilesAreThere, FS!Moves
<1>1. StepOk(c, s) /\ Planned(s)
  BY DEF MovedInv, FS!Moves, FS!Records
<1>2. s \in c
  BY <1>1 DEF StepOk
<1>3. HeldIn(held, moves[s].reported)
  BY <1>1, <1>2 DEF MovedInv
<1>4. ASSUME NEW i \in DOMAIN moves[s].reported, NEW j \in DOMAIN moves[s].reported,
             moves[s].reported[i].path = moves[s].reported[j].path
      PROVE  i = j
  <2>1. PICK k : k = moves[s].at - 1
    OBVIOUS
  <2>2. \A m \in DOMAIN moves[s].reported :
          /\ k \in 0 .. Len(FS!Paths(s)) /\ m \in DOMAIN Plan(s)[k] /\ OnPlan(s)
          /\ moves[s].reported[m].path = Plan(s)[k][m].path
    BY <1>1, <1>2, <2>1, ReportedEntry
  <2>3. WellSourced(s, FS!Paths(s))
    BY <2>2 DEF OnPlan
  <2>. QED  BY <1>1, <1>4, <2>2, <2>3, PlannedOnce DEF Plan
<1>. QED
  BY <1>3, <1>4 DEF HeldIn, FS!Exists

\* However many steps run beside each other that keep out of each other's
\* directories, whatever attempts time limits cut and whenever what those had
\* under way lands, or however often the process dies: the files a completed
\* step reported are there with the content it reported, none twice, and no step
\* touched a path one of its layers does not allow (copy_files, extract_archive,
\* route_by_value; world/real.py).
THEOREM FilesAreWhatStepsReported == Spec => []FileStepsAreHonest
<1> DEFINE Inv == part = "files" => FilesInv /\ \E c \in Beside : MovedInv(c)
<1>1. Init => Inv
  <2>1. FS!Init => FilesInv
    BY FilesInit
  <2>. QED  BY <2>1, StartMoves DEF Init
<1>2. Inv /\ [Next]_all => Inv'
  <2>1. ASSUME Inv, Next PROVE Inv'
    <3>. SUFFICES ASSUME part = "files", FS!Next PROVE FilesInv' /\ (\E c \in Beside : MovedInv(c))'
      BY <2>1 DEF Next
    <3>1. FilesInv'
      BY <2>1, FilesStep
    <3>2. PICK c \in Beside : MovedInv(c)
      BY <2>1
    <3>3. MovedInv(c)'
      BY <2>1, <3>2, MovedNext
    <3>. QED  BY <3>1, <3>3
  <2>2. ASSUME Inv, UNCHANGED all PROVE Inv'
    <3>. SUFFICES ASSUME part = "files" PROVE FilesInv' /\ (\E c \in Beside : MovedInv(c))'
      BY <2>2 DEF all
    <3>1. moves' = moves /\ held' = held /\ awaited' = awaited /\ lates' = lates /\ deaths' = deaths
          /\ cutsLeft' = cutsLeft /\ bounds' = bounds /\ touches' = touches
      BY <2>2 DEF all
    <3>2. FilesInv'
      BY <2>2, <3>1 DEF FilesInv, FS!TouchesWithinLayers
    <3>3. PICK c \in Beside : MovedInv(c)
      BY <2>2
    <3>4. \A s \in Movers : StepOk(c, s)'
      BY <3>1, <3>3, StepStays, Apart DEF MovedInv
    <3>5. \A w \in lates : \E s \in c : Owed(c, s, w)'
      BY <3>1, <3>3, OwedStays, Apart DEF MovedInv
    <3>6. MovedInv(c)'
      BY <3>1, <3>3, <3>4, <3>5 DEF MovedInv, DiskOk, HeldIn
    <3>. QED  BY <3>2, <3>6
  <2>. QED  BY <2>1, <2>2
<1>3. Inv => FileStepsAreHonest
  BY MovedHonest DEF FileStepsAreHonest, FilesInv
<1>. QED
  BY <1>1, <1>2, <1>3, PTL DEF Spec
=============================================================================
