---------------------------- MODULE MCProjection ----------------------------
(* Documents of two fields, whatever each holds, and the nestings of them   *)
(* that the schemas allow.                                                 *)
EXTENDS TraceProjection, TLC

\* Documents out of their parts: a value by itself, a dict, a list.
Just(v)    == <<>> :> v
Entries(m) == [p \in UNION {{<<k>> \o q : q \in DOMAIN m[k]} : k \in DOMAIN m} |-> m[p[1]][Tail(p)]]
DictOf(m)  == Just(Dict) @@ Entries(m)
ListOf(s)  == Just(List) @@ Entries([k \in {ToString(i) : i \in DOMAIN s} |-> s[CHOOSE i \in DOMAIN s : ToString(i) = k]])
Word(c)    == Just(Str(c))
Number(n)  == Just(Num(n))
Yes        == Just(Bool(TRUE))
Nil        == Just(Null)

Docs(keys, Values(_)) ==
  UNION {{DictOf((p[1] :> v) @@ (p[2] :> w)) : v \in Values(p[1]), w \in Values(p[2])} : p \in keys \X keys}

Scalars == {Nil, Number(1), Yes, Word("token"), Word("label"), Word("secret")}
Outside == {"secret", "a b"}
Flags   == {WithheldKey, LegacyKey}

CallValues(k) ==
  CASE k = "input"  -> {DictOf(None), DictOf([secret |-> Number(1), x |-> Number(1), y |-> Number(1)])}
    [] k = "result" -> {Nil, Just(Result(0, TRUE)), Just(Result(12, FALSE))}
    [] k = "pinned" -> {ListOf(<<Word("token")>>), ListOf(<<Word("secret")>>)}
    [] OTHER        -> {Number(12), Word("secret")}
Calls == Docs({"name", "input", "result", "pinned", "pinned_present", "content_bytes",
               "input_key_count", "result_ok", "secret"}, CallValues)

OutputValues(k) ==
  CASE k = "tool_calls" -> {ListOf(<<c, Word("secret")>>) : c \in Calls}
    [] k = "usage"      -> Docs({"total_tokens", "secret"}, LAMBDA f : {Number(1), Word("token")})
    [] OTHER            -> Scalars
Outputs == Docs({"model", "cost_usd", "parse_ok", "category_score", "usage"} \cup Outside \cup Flags,
                OutputValues)

Payloads == Docs({"id", "subject", "secret"}, LAMBDA k : {Word("token"), Word("secret")})
SomeOutputs == {DictOf(None), DictOf([category_score |-> Number(1)]), DictOf([model |-> Word("secret")]),
                DictOf([secret |-> Number(1), usage |-> DictOf([total_tokens |-> Number(1)])]),
                DictOf([tool_calls |-> ListOf(<<DictOf([name |-> Word("secret"), result |-> Just(Result(12, FALSE))])>>)])}
Snapshots == {DictOf([s1 |-> o]) : o \in SomeOutputs}

RunValues(k) ==
  CASE k \in {"trigger", "trigger_payload"} -> Payloads
    [] k = "output" -> SomeOutputs
    [] k = "steps"  -> Snapshots \cup {ListOf(<<Word("token"), Word("secret"), Nil>>)}
    [] k = "context" -> Docs({"steps", "trigger", "capabilities", "secret"},
                             LAMBDA f : IF f = "steps" THEN Snapshots
                                        ELSE {DictOf([layers |-> ListOf(<<DictOf([name |-> Word("token")])>>)])})
    [] OTHER -> Scalars
AuditEntries == Docs({"attempt", "workflow_id", "to", "error", "output", "steps", "trigger"}
                \cup Outside \cup Flags, RunValues)
Runs == Docs({"id", "state", "created_at", "error", "trigger_payload", "context", "output", "secret"},
             RunValues)

RuleValues == {Word("token"), Word("enum"), Word("time"), Word("label"), Number(1), Yes,
                  ListOf(<<Word("token"), Word("secret")>>), DictOf([kind |-> Word("enum"), secret |-> Nil])}
Ruled(action) ==
  {DictOf((k :> v) @@ (j :> Word("secret"))) :
     k \in DOMAIN AUDIT_FIELD_RULES[action], v \in RuleValues, j \in {"secret", "error", "user_id"}}

Documents ==
  [kind: {"step_output"}, doc: Outputs \cup Docs({"tool_calls"}, OutputValues)]
  \cup [kind: {"tool_call"}, doc: Calls]
  \cup [kind: {"instance", "step_row"}, doc: Runs] \cup [kind: {"context"}, doc: RunValues("context")]
  \cup [kind: {"audit_detail", "memory_observed", "step_completed", "step_failed", "workflow_started",
               "workflow_completed", "org_renamed"}, doc: AuditEntries]
  \cup UNION {[kind: {action}, doc: Ruled(action)] : action \in DOMAIN AUDIT_FIELD_RULES}
=============================================================================
