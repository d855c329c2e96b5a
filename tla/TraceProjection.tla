--------------------------- MODULE TraceProjection ---------------------------
(***************************************************************************)
(* The default-deny projector of trace_projection.py: what a reader without *)
(* a raw-trace grant sees of a step's output, a run's context, an audit     *)
(* entry.  The same function is applied when a document is written at rest  *)
(* and again when it is read.                                              *)
(*                                                                         *)
(* A document is laid out: a function from its positions, sequences of      *)
(* keys, to what is there, a scalar or the tag of a dict or a list whose    *)
(* entries are one key below.  A scalar is a tagged record.  A string is    *)
(* its class, the only thing the validators tell apart: "token"            *)
(* (_short_token), "mail" (only _opaque_id lets it through), "label"        *)
(* (printable, with spaces), "prose", a timestamp, a generated marker, or a *)
(* member of a closed enum; "secret" and its twin stand for prose and names *)
(* an outsider chose.                                                      *)
(***************************************************************************)
EXTENDS Naturals, Sequences, FiniteSets

CONSTANTS
  Assets,    \* the raw documents, as [kind, doc]: kind a schema or an audit action
  MaxArity,  \* _MAX_ARITY
  Powers,    \* the powers of ten
  Words      \* what a key may be

Null     == [t |-> "null"]
Str(c)   == [t |-> "str", c |-> c]
Num(n)   == [t |-> "num", n |-> n]
Bool(b)  == [t |-> "bool", b |-> b]
Dict     == [t |-> "dict"]
List     == [t |-> "list"]
\* A tool's result: its content, of some size or none, and whether it failed.
Result(size, failed) == [t |-> "result", size |-> size, failed |-> failed]

Redacted == Str("marker")
WithheldKey == "_withheld_keys"
LegacyKey   == "_withheld_key_count"

\* The first keys of a position, the position it lies in; the keys of the
\* entries at p, and the entry under one.
Cut(p, n)  == [i \in 1 .. n |-> p[i]]
Above(p)   == Cut(p, Len(p) - 1)
Keys(d, p) == {q[Len(q)] : q \in {q \in DOMAIN d : q # <<>> /\ Above(q) = p}}
Entry(d, p, k) == IF Append(p, k) \in DOMAIN d THEN d[Append(p, k)] ELSE Null

\* The secret strings and keys, and their twins.
Twin(c) == CASE c = "secret" -> "twin" [] c = "twin" -> "secret" [] OTHER -> c
HostileKeys == {"a b", "c@d"}   \* keys that _safe_key refuses

\* Both, the first where both have an entry.
Both(m, n)  == [k \in DOMAIN m \cup DOMAIN n |-> IF k \in DOMAIN m THEN m[k] ELSE n[k]]
m \oplus n == Both(m, n)
None == [k \in {} |-> Null]

-----------------------------------------------------------------------------
(* Nodes of a schema.                                                      *)

Leaf(classes)  == [n |-> "leaf", classes |-> classes]
Seq_(item)     == [n |-> "seq", item |-> item]
ToolCalls      == [n |-> "calls"]
ToolCall       == [n |-> "call"]
TriggerPayload == [n |-> "trigger"]
Undeclared     == [n |-> "none"]
\* business: the children a model claims; wildcard: the node under keys of ours.
Obj(children, business, wildcard) ==
  [n |-> "obj", children |-> children, business |-> business, wildcard |-> wildcard]
Plain(children) == Obj(children, {}, Undeclared)
\* The fields of an audit action that its rules disclose.
Rules(children) == [Plain(children) EXCEPT !.n = "rules"]
Fields(names, node) == [k \in names |-> node]

ID     == Leaf({"token", "mail", "enum", "time"})
TOKEN  == Leaf({"token", "enum", "time"})
ENUM   == Leaf({"enum"})
TS     == Leaf({"time"})
LABEL  == Leaf({"token", "mail", "label", "enum", "time", "marker"})
MARKER == Leaf({"marker"})
BOOL   == Leaf({"bool"})
COUNT  == Leaf({"num"})
AMOUNT == COUNT

Class(v) == CASE v.t = "str" -> v.c [] OTHER -> v.t

USAGE == Plain(Fields({"input_tokens", "output_tokens", "total_tokens", "cache_read_input_tokens",
                       "cache_write_input_tokens", "iterations", "tool_calls"}, COUNT))

\* _RELEASED_BUSINESS takes parse_ok out of the withheld ones.
STEP_OUTPUT == Obj(
  Fields({"model", "stop_reason", "memory_hash", "recall_hash"}, TOKEN)
    \oplus Fields({"cost_usd", "iterations", "num_steps", "faithfulness_score", "category_score",
               "relevance_score", "concern_count"}, COUNT)
    \oplus Fields({"parse_ok", "memory_written", "needs_tests"}, BOOL)
    \oplus [usage |-> USAGE, tool_calls |-> ToolCalls, _redacted |-> MARKER],
  {"faithfulness_score", "category_score", "relevance_score", "concern_count", "needs_tests"},
  Undeclared)

STEPS_SNAPSHOT == Obj(None, {}, STEP_OUTPUT)

AUDIT_DETAIL == Plain(
  Fields({"request_id", "principal_id", "grant_id", "approved_by", "requested_by", "revoked_by",
          "namespace", "org_id"}, ID)
    \oplus Fields({"surface", "mode", "author", "derived_from"}, ENUM)
    \oplus Fields({"outcome", "purpose", "reason_code", "scope", "workload_identity", "approval_mode",
               "redaction_reason", "state", "type", "content_hash", "budget_action", "original_id",
               "source_instance_id", "from_step_id", "connector", "workflow_id", "instance_id",
               "model", "text_hash", "context_hash"}, TOKEN)
    \oplus Fields({"kinds", "intended_kinds", "released_kinds", "withheld_kinds", "preserved_step_ids",
               "step_ids"}, Seq_(TOKEN))
    \oplus Fields({"raw_included", "org_bypass", "org_scoped"}, BOOL)
    \oplus Fields({"era", "attempt", "unrecognized_ids", "cost_usd", "threshold_seconds",
               "running_for_seconds", "input_tokens", "output_tokens", "facts", "quarantined",
               "edges", "observation"}, COUNT)
    \oplus Fields({"trigger", "trigger_payload"}, TriggerPayload)
    \oplus [tool_calls |-> ToolCalls, output |-> STEP_OUTPUT, steps |-> STEPS_SNAPSHOT,
        _redacted |-> MARKER])

CAPABILITIES == Plain([layers |-> Seq_(Plain([name |-> TOKEN, max_tokens_per_call |-> COUNT]
  \oplus Fields({"tools", "file_read", "file_write", "allowed_hosts"},
            Seq_(Leaf({"token", "mail", "enum", "time"})))))])

CONTEXT == Plain(
  Fields({"instance_id", "workflow_id", "org_id"}, ID)
    \oplus [trigger |-> TriggerPayload, steps |-> STEPS_SNAPSHOT, capabilities |-> CAPABILITIES,
        total_tokens |-> COUNT, total_cost_usd |-> AMOUNT, dry_run |-> BOOL, _redacted |-> MARKER])

INSTANCE_ROW == Plain(
  Fields({"id", "workflow_id", "org_id", "owner_user_id"}, ID)
    \oplus Fields({"created_at", "started_at", "completed_at"}, TS)
    \oplus [state |-> TOKEN, error |-> MARKER, trigger_payload |-> TriggerPayload, context |-> CONTEXT,
        total_tokens |-> COUNT, total_cost_usd |-> AMOUNT, _redacted |-> MARKER])

STEP_ROW == Plain(
  Fields({"id", "instance_id", "step_id"}, ID) \oplus Fields({"started_at", "completed_at"}, TS)
    \oplus [attempt |-> COUNT, state |-> TOKEN, error |-> MARKER, output |-> STEP_OUTPUT,
        _redacted |-> MARKER])

SCHEMAS == [instance |-> INSTANCE_ROW, step_row |-> STEP_ROW, step_output |-> STEP_OUTPUT,
            context |-> CONTEXT, audit_detail |-> AUDIT_DETAIL]

\* The fields an action's rules disclose; a field with no rule and a field
\* whose rule says disclose=False are withheld alike.
SUBJECT == Plain([kind |-> ENUM, ref |-> TOKEN, org_id |-> ID])
TOKENS  == Seq_(TOKEN)

MEMORY_RULES == [
  memory_observed |->
    Fields({"observation", "facts", "quarantined", "input_tokens", "output_tokens", "cost_usd"}, COUNT)
      \oplus Fields({"text_hash", "model", "workflow_id", "instance_id"}, TOKEN)
      \oplus Fields({"author", "derived_from"}, ENUM) \oplus [backfill |-> BOOL, subject |-> SUBJECT],
  memory_recalled |->
    Fields({"edges", "episodes", "token_budget", "recall_seconds", "outcomes_seconds"}, COUNT)
      \oplus [subject |-> SUBJECT, context_hash |-> TOKEN, injected |-> BOOL,
          uses_recorded |-> Plain(Fields({"failed", "recorded", "upgraded"}, COUNT))],
  memory_observe_failed |-> [observation |-> COUNT]]

RUN_RULES == [
  step_started   |-> [type |-> ENUM, attempt |-> COUNT],
  step_completed |-> [attempt |-> COUNT, output |-> STEP_OUTPUT],
  step_failed    |-> [attempt |-> COUNT, unexpected |-> BOOL],
  step_retry     |-> [attempt |-> COUNT],
  step_postcondition_failed |->
    Fields({"min_success", "actual_success"}, COUNT)
      \oplus [require_tool_call |-> TOKEN, stop_reason |-> ENUM],
  workflow_started   |-> [workflow_id |-> TOKEN, trigger |-> TriggerPayload],
  workflow_completed |-> Fields({"step_ids", "steps"}, TOKENS),
  workflow_failed    |-> [unexpected |-> BOOL],
  workflow_forked    |-> Fields({"source_instance_id", "from_step_id"}, TOKEN)
                           \oplus [preserved_step_ids |-> TOKENS]]

BUDGET_RULES == Fields({"budget_exceeded", "budget_escalated"},
  Fields({"tokens_used", "tokens_limit", "cost_usd"}, COUNT) \oplus [action |-> ENUM])

ALERT_RULES ==
  LET instance == Fields({"instance_id", "workflow_id"}, TOKEN) \oplus [threshold_seconds |-> COUNT]
  IN [alert_stuck_workflow  |-> instance \oplus [running_for_seconds |-> COUNT],
      alert_abandoned_pause |-> instance \oplus [paused_for_seconds |-> COUNT],
      alert_high_error_rate |->
        Fields({"rate", "threshold", "failed", "total_terminal", "window_seconds"}, COUNT),
      alert_high_queue_depth |-> Fields({"depth", "threshold"}, COUNT),
      alert_high_token_burn |->
        Fields({"tokens", "cost_usd", "threshold_tokens", "window_seconds"}, COUNT),
      alert_low_disk |->
        Fields({"free_gb", "total_gb", "free_pct", "min_free_gb", "min_free_pct"}, COUNT)
          \oplus [mount |-> TOKEN]]

TRIGGER_RULES ==
  LET trigger == [workflow_id |-> TOKEN, trigger_type |-> ENUM]
  IN [alert_stale_trigger |-> trigger \oplus [last_run_at |-> TS, threshold_seconds |-> COUNT],
      alert_trigger_auth_revoked |-> trigger,
      trigger_auth_restored |-> trigger \oplus [revoked_for_seconds |-> COUNT],
      alert_trigger_consent_expiring |-> trigger \oplus [expires_at |-> TS, warn_before_seconds |-> COUNT]]

ACCOUNT_RULES == [
  auth_login        |-> [email |-> ID, source_ip |-> TOKEN],
  auth_login_failed |-> [email |-> ID, source_ip |-> TOKEN, cause |-> ENUM],
  user_created      |-> [user_id |-> ID, subject |-> SUBJECT, email |-> ID, origin |-> ENUM],
  user_updated      |-> [user_id |-> ID, subject |-> SUBJECT, changed |-> TOKENS,
                         sessions_revoked |-> BOOL, raw_grants_revoked |-> COUNT]]

ADMIN_RULES ==
  Fields({"notification_sent", "notification_failed"},
         [alert_action |-> ENUM, alert_entry_id |-> ID, channel |-> ENUM])
  \oplus [question_suggested |-> Fields({"input_tokens", "output_tokens", "cost_usd"}, COUNT)
                               \oplus [model |-> TOKEN, failed |-> BOOL],
      question_candidate_shadowed |->
        Fields({"max_outstanding", "pending_expiry_hours"}, COUNT)
          \oplus Fields({"asked", "answers_backed"}, BOOL) \oplus [topic |-> TOKEN, suppressed_because |-> ENUM],
      audit_detail_migrated |-> Fields({"row_count", "batch"}, COUNT)
        \oplus Fields({"projector_version", "pre_image_digest"}, TOKEN) \oplus [rows |-> TOKENS],
      directory_resolved |-> Fields({"requested", "resolved", "not_found", "not_resolvable"}, COUNT),
      org_created |-> [org_id |-> ID, name |-> LABEL],
      org_renamed |-> [org_id |-> ID, from |-> LABEL, to |-> LABEL]]
  \oplus LET deleted == [workflow_id |-> TOKEN, deleted_steps |-> COUNT, org_bypass |-> BOOL]
     IN [workflow_deleted |-> deleted \oplus [deleted_instances |-> COUNT], instance_deleted |-> deleted]

AUDIT_FIELD_RULES ==
  MEMORY_RULES \oplus RUN_RULES \oplus BUDGET_RULES \oplus ALERT_RULES \oplus TRIGGER_RULES \oplus ACCOUNT_RULES \oplus ADMIN_RULES

\* What a kind of document is projected under (redact_tool_data, or, for an
\* audit entry, its action's structure, rules, or the flat schema).
Schema(kind) ==
  CASE kind \in DOMAIN SCHEMAS -> SCHEMAS[kind]
    [] kind = "tool_call" -> ToolCall
    [] kind \in DOMAIN AUDIT_FIELD_RULES -> Rules(AUDIT_FIELD_RULES[kind])
    [] OTHER -> AUDIT_DETAIL

-----------------------------------------------------------------------------
(* The two structural projections, of the dict at p.                       *)

\* Routing ids stay as keys, without their values.
SafeTriggerPayload(d, p) ==
  [k \in {"_redacted"} \cup (Keys(d, p) \cap {"message_id", "thread_id", "id"}) |-> Redacted]

BoundedArity(v) ==
  IF v.t # "num" THEN Num(0) ELSE IF v.n > MaxArity THEN Num(MaxArity) ELSE v

\* The largest of them that is not above n.
Floor(n) == CHOOSE p \in Powers : p <= n /\ \A q \in Powers : q <= n => q <= p

\* Mutant of BoundedSize: one power too many.
MutBoundedSize(n) == IF n = 0 THEN Num(0) ELSE Num(10 * Floor(n))

\* Down to a power of ten.
BoundedSize(n) == IF n = 0 THEN Num(0) ELSE Num(Floor(n))

Truthy(d, p, k) ==
  LET v == Entry(d, p, k)
  IN CASE v.t = "null" -> FALSE [] v.t = "bool" -> v.b [] v.t = "num" -> v.n > 0
       [] v.t \in {"list", "dict"} -> Keys(d, Append(p, k)) # {} [] OTHER -> TRUE

HasToken(d, p, k) ==
  /\ Entry(d, p, k).t = "list"
  /\ \E i \in Keys(d, Append(p, k)) : Class(Entry(d, Append(p, k), i)) \in TOKEN.classes

\* `pinned` and `pin_overrides` are names: only whether there is one is kept.
Present(d, p, names, flag) == Bool(HasToken(d, p, names) \/ Entry(d, p, flag) = Bool(TRUE))

\* A record that has been projected is read back from its own fields; any
\* other is measured, an input by its number of keys.
Measured(d, p) ==
  LET result == Entry(d, p, "result")
      failed == result.t = "result" /\ result.failed
  IN [input_key_count |-> BoundedArity(Num(Cardinality(Keys(d, Append(p, "input"))))),
      result_ok |-> Bool(~failed), error_present |-> Bool(failed)]
       \oplus [k \in (IF result.t = "result" /\ result.size > 0 THEN {"content_bytes"} ELSE {}) |->
                 BoundedSize(result.size)]

ReadAgain(d, p) ==
  LET bytes == Entry(d, p, "content_bytes")
  IN [input_key_count |-> BoundedArity(Entry(d, p, "input_key_count")),
      result_ok |-> Bool(Truthy(d, p, "result_ok")), error_present |-> Bool(Truthy(d, p, "error_present"))]
       \oplus [k \in (IF bytes.t = "num" THEN {"content_bytes"} ELSE {}) |-> BoundedSize(bytes.n)]

SafeToolCall(d, p) ==
  LET again == {"input", "result"} \cap Keys(d, p) = {} /\ "input_key_count" \in Keys(d, p)
  IN [name |-> Redacted, _redacted |-> Redacted,
      pinned_present        |-> Present(d, p, "pinned", "pinned_present"),
      pin_overrides_present |-> Present(d, p, "pin_overrides", "pin_overrides_present")]
       \oplus (IF again THEN ReadAgain(d, p) ELSE Measured(d, p))

-----------------------------------------------------------------------------
(* _project: driven by the schema, never by the data.                      *)

\* Mutant of Kept: a key that is not declared stays, without its value.
MutKept(node, k) ==
  IF node.n \notin {"obj", "rules"} THEN node.n \in {"seq", "calls"}
  ELSE /\ k \notin {WithheldKey, LegacyKey}
       /\ IF k \in DOMAIN node.children THEN k \notin node.business ELSE k \notin HostileKeys

\* Under a declared object, a key is one of ours, a declared one that is not
\* the model's claim, a key under a wildcard of ours, or it goes.
Kept(node, k) ==
  IF node.n \notin {"obj", "rules"} THEN node.n \in {"seq", "calls"}
  ELSE /\ k \notin {WithheldKey, LegacyKey}
       /\ IF k \in DOMAIN node.children THEN k \notin node.business
          ELSE k \notin HostileKeys /\ node.wildcard # Undeclared

\* The node under a key that is kept.
Under(node, k) ==
  CASE node.n \in {"obj", "rules"} -> IF k \in DOMAIN node.children THEN node.children[k] ELSE node.wildcard
    [] node.n = "seq"   -> node.item
    [] node.n = "calls" -> ToolCall
    [] OTHER            -> Undeclared

\* The node at a position.
NodeAt(root, p) ==
  LET N[i \in 0 .. Len(p)] == IF i = 0 THEN root ELSE Under(N[i - 1], p[i])
  IN N[Len(p)]

\* Whether the projector goes on below a value.
Opens(node, v) ==
  \/ node.n \in {"obj", "rules"} /\ v.t = "dict"
  \/ node.n \in {"seq", "calls"} /\ v.t = "list"

\* The positions it comes to.
Reached(root, d) ==
  {p \in DOMAIN d :
     \A i \in 1 .. Len(p) :
       LET q == Cut(p, i - 1)
       IN Opens(NodeAt(root, q), d[q]) /\ Kept(NodeAt(root, q), p[i])}

\* What it leaves of a value: null, what is valid, what it goes on below or
\* builds anew.
Shown(node, v) ==
  IF \/ v = Null \/ Opens(node, v)
     \/ node.n = "leaf" /\ Class(v) \in node.classes
     \/ node.n \in {"trigger", "call"} /\ v.t = "dict"
  THEN v ELSE Redacted

\* Mutant of Withheld: an entry under a key that is refused goes unnoticed.
MutWithheld(node, d, p) ==
  \E k \in Keys(d, p) :
    ~Kept(node, k) /\ k \notin HostileKeys /\ ~(node.n = "obj" /\ k = LegacyKey /\ Entry(d, p, k) = Null)

\* Everything that goes is flagged, but for a null under the old flag's name;
\* a flag that was there is set again.
Withheld(node, d, p) ==
  \E k \in Keys(d, p) : ~Kept(node, k) /\ ~(node.n = "obj" /\ k = LegacyKey /\ Entry(d, p, k) = Null)

Flag(withheld) == [k \in (IF withheld THEN {WithheldKey} ELSE {}) |-> Bool(TRUE)]

\* The entries at p that are the projector's own.
Placed(node, d, p) ==
  CASE d[p].t = "dict" /\ node.n \in {"obj", "rules"} -> Flag(Withheld(node, d, p))
    [] d[p].t = "dict" /\ node.n = "trigger" -> SafeTriggerPayload(d, p)
    [] d[p].t = "dict" /\ node.n = "call"    -> SafeToolCall(d, p)
    [] OTHER -> None

Project(root, d) ==
  LET reached == Reached(root, d)
      Own(p)  == Placed(NodeAt(root, p), d, p)
  IN [p \in reached \cup UNION {{Append(q, k) : k \in DOMAIN Own(q)} : q \in reached} |->
        IF p \in reached THEN Shown(NodeAt(root, p), d[p]) ELSE Own(Above(p))[p[Len(p)]]]

\* What is stored and what is read.
Projected(kind, d) == IF d[<<>>] = Dict THEN Project(Schema(kind), d) ELSE d

\* has_redaction_marker, with is_withheld_marker.
HasMarker(d) ==
  \E p \in DOMAIN d :
    \/ d[p] = Redacted
    \/ p # <<>> /\ \/ p[Len(p)] = "_redacted"
                   \/ p[Len(p)] = WithheldKey /\ d[p] = Bool(TRUE)
                   \/ p[Len(p)] = LegacyKey /\ d[p].t = "num" /\ d[p].n > 0

-----------------------------------------------------------------------------
(* A document is written, and read by someone without a grant.             *)

VARIABLES asset, stored, read
vars == <<asset, stored, read>>

Nothing == [kind |-> "none", doc |-> None]
Init == asset = Nothing /\ stored = None /\ read = None

Write ==
  /\ asset = Nothing
  /\ \E a \in Assets : asset' = a /\ stored' = Projected(a.kind, a.doc)
  /\ UNCHANGED read

ReadBack ==
  /\ asset # Nothing /\ read = None /\ read' = Projected(asset.kind, stored)
  /\ UNCHANGED <<asset, stored>>

Next == Write \/ ReadBack
Spec == Init /\ [][Next]_vars

-----------------------------------------------------------------------------
(* What the schemas are made of, and what a document is.                   *)

Parts(node) ==
  CASE node.n \in {"obj", "rules"} -> {node.children[k] : k \in DOMAIN node.children} \cup {node.wildcard}
    [] node.n = "seq" -> {node.item}
    [] OTHER -> {}

Roots == {SCHEMAS[k] : k \in DOMAIN SCHEMAS} \cup {Rules(AUDIT_FIELD_RULES[k]) : k \in DOMAIN AUDIT_FIELD_RULES}
           \cup {AUDIT_DETAIL, ToolCall, Undeclared}

\* No schema is deeper than this.
Nodes ==
  LET N[i \in 0 .. 8] == IF i = 0 THEN Roots ELSE N[i - 1] \cup UNION {Parts(node) : node \in N[i - 1]}
  IN N[8]

Secrets == {"secret", "twin"}

\* The schemas declare no name of an outsider's, and no leaf lets one through
\* or takes what is no scalar.
IsNode(node) ==
  /\ node.n \in {"leaf", "seq", "calls", "call", "trigger", "none", "obj", "rules"}
  /\ node.n = "leaf" => node.classes \cap (Secrets \cup {"dict", "list"}) = {}
  /\ node.n \in {"obj", "rules"} => DOMAIN node.children \cap Secrets = {}

\* The names the projector itself reads or writes.
OwnNames ==
  {WithheldKey, LegacyKey, "_redacted", "message_id", "thread_id", "id", "name", "input", "result",
   "pinned", "pin_overrides", "pinned_present", "pin_overrides_present", "input_key_count",
   "result_ok", "error_present", "content_bytes"}

IsValue(v) ==
  \/ v \in {Null, Dict, List}
  \/ v.t = "str" /\ v = Str(v.c)
  \/ v.t = "num" /\ v = Num(v.n) /\ v.n \in Nat
  \/ v.t = "bool" /\ v = Bool(v.b) /\ v.b \in BOOLEAN
  \/ v.t = "result" /\ v = Result(v.size, v.failed) /\ v.size \in Nat /\ v.failed \in BOOLEAN

\* Every position has a value and lies in a dict or a list; no element of a
\* list is at one of the names.
IsDocument(d) ==
  /\ IsFiniteSet(DOMAIN d) /\ d = [p \in DOMAIN d |-> d[p]] /\ <<>> \in DOMAIN d /\ d[<<>>] = Dict
  /\ \A p \in DOMAIN d :
       /\ p \in Seq(Words) /\ IsValue(d[p])
       /\ p # <<>> =>
            /\ Above(p) \in DOMAIN d /\ d[Above(p)] \in {Dict, List}
            /\ d[Above(p)] = List => p[Len(p)] \notin Secrets \cup {WithheldKey, LegacyKey}

\* An outsider names no key where the platform names them all (the ids of the
\* steps under a snapshot).
OutsidersAreOutside(root, d) ==
  \A p \in DOMAIN d :
    p # <<>> /\ p[Len(p)] \in Secrets =>
      LET node == NodeAt(root, Above(p))
      IN node.n \in {"obj", "rules"} => node.wildcard = Undeclared

-----------------------------------------------------------------------------
(* Properties.                                                             *)

\* Projecting what was projected changes nothing ("IDEMPOTENT, a fixed point:
\* the verifier and backfill rely on it").
ReadsAsStored == read # None => read = stored

\* The document with every secret string, and every secret name, exchanged
\* for its twin.
Twins(p) == [i \in 1 .. Len(p) |-> Twin(p[i])]
TwinOf(v) == IF v.t = "str" THEN Str(Twin(v.c)) ELSE v
Exchanged(d) == [p \in {Twins(q) : q \in DOMAIN d} |-> TwinOf(d[Twins(p)])]

\* What an outsider chose does not show: no prose, parameter name, tool name
\* or key of theirs changes what is stored.
SecretsDoNotShow == asset # Nothing => stored = Projected(asset.kind, Exchanged(asset.doc))

WithoutNullFlags(d) ==
  [p \in {q \in DOMAIN d : ~(q # <<>> /\ q[Len(q)] = LegacyKey /\ d[q] = Null)} |-> d[p]]

\* Nothing goes unnoticed: a stored document without a marker is the whole
\* document (has_redaction_marker is how a release knows it is complete).
RemovalIsFlagged == asset # Nothing /\ ~HasMarker(stored) => stored = WithoutNullFlags(asset.doc)
=============================================================================
