----------------------------- MODULE StepOutputs -----------------------------
(***************************************************************************)
(* What a deterministic step makes of the text an agent wrote: the record_* *)
(* functions and filter_rows_by_date of engine/functions.py, and the engine *)
(* dropping what a function may not claim (executor.py,                     *)
(* _strip_engine_owned).                                                   *)
(*                                                                         *)
(* A text is what a parser can find in it: an object, a list of rows, or    *)
(* nothing.  A JSON value is a tagged record; a string is one of a few      *)
(* words, a date or a score a number.                                      *)
(***************************************************************************)
EXTENDS Integers, Sequences

CONSTANTS Calls   \* the calls made: [fn, text, reply] or [fn, rows, cutoff, comparison]

Str(x)  == [t |-> "str", json |-> x]
Num(n)  == [t |-> "num", json |-> n]
Bool(b) == [t |-> "bool", json |-> b]
List(s) == [t |-> "list", json |-> s]
Dict(m) == [t |-> "dict", json |-> m]
Null    == [t |-> "null"]

NoText    == [form |-> "none"]      \* the path is not there, or the text is empty
Prose     == [form |-> "prose"]     \* no object, and nothing json_repair makes one of
Object(m) == [form |-> "object", m |-> m]

\* Both, the first where both have an entry.
Both(m, n)  == [k \in DOMAIN m \cup DOMAIN n |-> IF k \in DOMAIN m THEN m[k] ELSE n[k]]
m \oplus n == Both(m, n)

\* The elements of s at those places, in order.
Picked(s, places) ==
  LET F[i \in 0 .. Len(s)] == IF i = 0 THEN <<>>
                              ELSE IF i \in places THEN Append(F[i - 1], s[i]) ELSE F[i - 1]
  IN F[Len(s)]

\* The entries of m under those names that have that type.
Typed(m, names, type) == [k \in {j \in names \cap DOMAIN m : m[j].t = type} |-> m[k]]

\* Every element of a list passes through str().
Texts(l) == List([i \in DOMAIN l.json |-> IF l.json[i].t = "str" THEN l.json[i] ELSE Str("other")])
Lists(m, names) ==
  LET found == Typed(m, names, "list") IN [k \in DOMAIN found |-> Texts(found[k])]
Length(out, list, name) ==
  [k \in (IF list \in DOMAIN out THEN {name} ELSE {}) |-> Num(Len(out[list].json))]

\* seen: the elements in order, each once.
Deduped(s) == Picked(s, {i \in DOMAIN s : \A j \in 1 .. i - 1 : s[j] # s[i]})

-----------------------------------------------------------------------------
(* The extractors: what is well typed is copied, the rest is left.          *)

EvalScores(m) ==
  Typed(m, {"faithfulness_score", "category_score"}, "num") \oplus Typed(m, {"reasoning"}, "str")
    \oplus Lists(m, {"issues"})

PrTriage(m) ==
  LET out == Typed(m, {"category", "complexity", "summary"}, "str")
               \oplus Typed(m, {"needs_tests"}, "bool") \oplus Lists(m, {"concerns"})
  IN out \oplus Length(out, "concerns", "concern_count")

PaperTriage(m) ==
  LET out == Typed(m, {"relevance_score"}, "num") \oplus Typed(m, {"relevance_bucket", "summary"}, "str")
               \oplus Lists(m, {"key_concepts", "tags"})
  IN out \oplus Length(out, "tags", "tag_count") \oplus Length(out, "key_concepts", "concept_count")

\* `confidence` is the old name of `category_confidence`.
EmailTriage(m) ==
  LET given == IF "category_confidence" \in DOMAIN m THEN "category_confidence" ELSE "confidence"
      score == Typed(m, {given}, "num")
      asked == Typed(m, {"attention"}, "list")
      doubt == Typed(m, {"question_candidate"}, "dict")
      out   == Typed(m, {"category", "summary"}, "str") \oplus Typed(m, {"reply_drafted"}, "bool")
                 \oplus Lists(m, {"labels_applied"})
                 \oplus [k \in (IF DOMAIN score = {} THEN {} ELSE {"confidence"}) |-> score[given]]
                 \oplus [k \in DOMAIN asked |-> List(Deduped(Texts(asked[k]).json))]
                 \oplus [k \in {j \in DOMAIN doubt : DOMAIN Typed(doubt[j].json, {"topic"}, "str") # {}} |->
                       Dict([topic |-> doubt[k].json["topic"]])]
  IN out \oplus Length(out, "labels_applied", "label_count")

LineItem(v) == Typed(v.json, {"item", "category"}, "str") \oplus Typed(v.json, {"quantity", "rate", "amount"}, "num")
LineItems(l) ==
  LET some == Picked(l.json, {i \in DOMAIN l.json : l.json[i].t = "dict" /\ DOMAIN LineItem(l.json[i]) # {}})
  IN List([i \in DOMAIN some |-> Dict(LineItem(some[i]))])

InvoiceFields(m) ==
  LET lines == Typed(m, {"line_items"}, "list")
      out   == Typed(m, {"invoice_number", "customer_name", "invoice_date", "ship_mode", "ship_to_city",
                         "ship_to_country", "order_id"}, "str")
                 \oplus Typed(m, {"subtotal", "discount", "shipping", "total"}, "num")
                 \oplus [k \in DOMAIN lines |-> LineItems(lines[k])]
  IN out \oplus Length(out, "line_items", "line_item_count")

-----------------------------------------------------------------------------
(* The functions.                                                          *)

TRIAGE_CATEGORIES == {"personal", "notification", "newsletter", "promotion", "spam"}
ATTENTION_LEVELS  == {"urgent", "awaiting-reply", "review"}

\* On the label, urgent subsumes review.
LabelAttention(s) ==
  Picked(s, {i \in DOMAIN s : ~(s[i] = Str("review") /\ \E j \in DOMAIN s : s[j] = Str("urgent"))})

NotJudged(text) ==
  [parse_ok |-> Bool(FALSE), category_valid |-> Bool(FALSE), attention_valid |-> Bool(FALSE),
   apply_labels |-> List(<<>>), apply_label_count |-> Num(0), triage_schema_version |-> Num(2),
   raw |-> IF text = NoText THEN Null ELSE Str("text")]
    \oplus [k \in (IF text = NoText THEN {"no_output"} ELSE {}) |-> Bool(TRUE)]

\* Mutant of KnownCategory: a category is a label whatever it says.
MutKnownCategory(triage) == "category" \in DOMAIN triage

KnownCategory(triage) == "category" \in DOMAIN triage /\ triage["category"].json \in TRIAGE_CATEGORIES

\* The gates: only a word of the vocabulary becomes a label.  One foreign
\* attention level drops the whole axis and never the category; awaiting-reply
\* is dropped when the user has answered, or nobody knows.
Judged(triage, reply) ==
  LET level    == IF "attention" \in DOMAIN triage THEN triage["attention"].json ELSE <<>>
      valid    == \A i \in DOMAIN level : level[i].json \in ATTENTION_LEVELS
      suppress == reply \in {"replied", "unknown"} /\ \E i \in DOMAIN level : level[i] = Str("awaiting-reply")
      held     == Picked(level, {i \in DOMAIN level : ~(suppress /\ level[i] = Str("awaiting-reply"))})
      known    == KnownCategory(triage)
      shown    == LabelAttention(held)
      labels   == (IF known THEN <<Str(<<"wf", triage["category"].json>>)>> ELSE <<>>)
                    \o IF valid THEN [i \in DOMAIN shown |-> Str(<<"wf-attn", shown[i].json>>)] ELSE <<>>
  IN [category_valid |-> Bool(known), attention_valid |-> Bool(valid),
      attention |-> List(IF valid THEN held ELSE <<>>),
      apply_labels |-> List(labels), apply_label_count |-> Num(Len(labels)),
      triage_schema_version |-> Num(2), decision_source |-> Str("classifier")]
       \oplus [k \in (IF suppress THEN {"awaiting_reply_suppressed"} ELSE {}) |-> Str(reply)] \oplus triage

\* What the items come to; one without an amount is nothing.
Summed(items) ==
  LET Amount(i) == IF "amount" \in DOMAIN items[i].json THEN items[i].json["amount"].json ELSE 0
      Sum[i \in 0 .. Len(items)] == IF i = 0 THEN 0 ELSE Sum[i - 1] + Amount(i)
  IN Sum[Len(items)]

\* Amounts are whole cents: within 0.01 is equal.
Balance(out) ==
  LET Has(k)   == k \in DOMAIN out
      discount == IF Has("discount") THEN out["discount"].json ELSE 0
      items    == IF Has("line_items") THEN out["line_items"].json ELSE <<>>
      whole    == Has("subtotal") /\ Has("shipping") /\ Has("total")
      computed == out["subtotal"].json - discount + out["shipping"].json
      summed   == items # <<>> /\ Has("subtotal")
  IN [total_balanced |-> IF whole THEN Bool(computed = out["total"].json) ELSE Null,
      line_items_sum_matches_subtotal |->
        IF summed THEN Bool(Summed(items) = out["subtotal"].json) ELSE Null,
      invoice_date_iso |-> IF Has("invoice_date") THEN Bool(out["invoice_date"].json = "date") ELSE Null]
       \oplus [k \in (IF whole THEN {"computed_total"} ELSE {}) |-> Num(computed)]
       \oplus [k \in (IF summed THEN {"line_items_sum"} ELSE {}) |-> Num(Summed(items))]

Extract(fn, m) ==
  CASE fn = "record_evaluation"         -> EvalScores(m)
    [] fn = "record_pr_triage"          -> PrTriage(m)
    [] fn = "record_paper_triage"       -> PaperTriage(m)
    [] fn = "record_email_triage"       -> EmailTriage(m)
    [] fn = "record_invoice_extraction" -> InvoiceFields(m)

Failed == [failed |-> Bool(TRUE)]   \* the function raised StepFailure

\* An object with nothing well typed in it is no object.
Recorded(fn, text, reply) ==
  LET found == IF text.form = "object" THEN Extract(fn, text.m) ELSE <<>>
      out   == found \oplus [parse_ok |-> Bool(TRUE)]
  IN IF text = NoText THEN IF fn = "record_email_triage" THEN NotJudged(text) ELSE Failed
     ELSE IF DOMAIN found = {}
     THEN IF fn = "record_email_triage" THEN NotJudged(text)
          ELSE [parse_ok |-> Bool(FALSE), raw |-> Str("text")]
     ELSE CASE fn = "record_email_triage"       -> [parse_ok |-> Bool(TRUE)] \oplus Judged(found, reply)
            [] fn = "record_invoice_extraction" -> Balance(found) \oplus out
            [] OTHER                            -> out

\* The rows rows_from leads to: a list in the config or the context, or text
\* a JSON list is found in.  What is not a dict is no row.
ResolveRows(source, given) ==
  IF source \in {"config", "context", "text"}
  THEN Picked(given, {i \in DOMAIN given : given[i].t = "dict"}) ELSE <<>>

\* parse_date: a value that is no date in any of the formats is nothing.
Dated(r) == "date" \in DOMAIN r.json /\ r.json["date"].t = "num"

Compared(d, cutoff, comparison) ==
  CASE comparison = "on_or_before" -> d <= cutoff
    [] comparison = "before"       -> d < cutoff
    [] comparison = "on_or_after"  -> d >= cutoff
    [] comparison = "after"        -> d > cutoff

\* The rows at those places are kept, those at the others dropped or undated.
Parted(all, keep, drop) ==
  LET kept == Picked(all, keep)  dropped == Picked(all, drop)
  IN [kept_rows |-> List(kept), dropped_rows |-> List(dropped),
      kept_count |-> Num(Len(kept)), dropped_count |-> Num(Len(dropped)),
      unparseable_count |-> Num(Len(Picked(all, {i \in DOMAIN all : ~Dated(all[i])})))]

\* The places of the rows whose date compares so.
Passing(all, cutoff, comparison) ==
  {i \in DOMAIN all : Dated(all[i]) /\ Compared(all[i].json["date"].json, cutoff, comparison)}

\* Mutant of Filtered: a row without a date is kept where nothing drops it.
MutFiltered(all, cutoff, comparison) ==
  LET drop == {i \in DOMAIN all : Dated(all[i])} \ Passing(all, cutoff, comparison)
  IN Parted(all, DOMAIN all \ drop, drop)

\* Rows without a date are counted and go; the others are kept or dropped.
Filtered(all, cutoff, comparison) ==
  LET keep == Passing(all, cutoff, comparison)
  IN Parted(all, keep, {i \in DOMAIN all : Dated(all[i])} \ keep)

FilterRows(c) ==
  IF c.source \in {"absent", "prose"} THEN Failed
  ELSE Filtered(ResolveRows(c.source, c.rows), c.cutoff, c.comparison)

-----------------------------------------------------------------------------
(* The boundary: engine-owned and projector-owned names are the engine's,   *)
(* and parse_ok is a parser's.                                             *)

ENGINE_FIELDS == {"model", "usage", "cost_usd", "iterations", "stop_reason", "memory_written",
                  "memory_hash", "recall_hash", "num_steps", "tool_calls"}
RESERVED == {"_withheld_keys", "_withheld_key_count", "_redacted", "projector_version",
             "projection_schema_version"}
PARSERS == {"record_email_triage", "record_pr_triage", "record_paper_triage", "record_evaluation",
            "record_invoice_extraction"}

FunctionMayEmit(k, fn) == k \notin RESERVED /\ (k = "parse_ok" => fn \in PARSERS)

StripEngineOwned(fn, m) ==
  [k \in {j \in DOMAIN m : j \notin ENGINE_FIELDS /\ FunctionMayEmit(j, fn)} |-> m[k]]

\* noop returns its config, which an author wrote.
Produced(c) ==
  CASE c.fn = "noop" -> c.text.m
    [] c.fn = "filter_rows_by_date" -> FilterRows(c)
    [] OTHER -> Recorded(c.fn, c.text, c.reply)

VARIABLES
  call,    \* the call made, or None
  output   \* the step's output as it is stored

vars == <<call, output>>
None == [fn |-> "none"]

Init == call = None /\ output = <<>>

RunDeterministic ==
  /\ call = None
  /\ \E c \in Calls : call' = c /\ output' = StripEngineOwned(c.fn, Produced(c))

Next == RunDeterministic
Spec == Init /\ [][Next]_vars

-----------------------------------------------------------------------------
(* Properties.                                                             *)

LabelWords ==
  {<<"wf", w>> : w \in TRIAGE_CATEGORIES} \cup {<<"wf-attn", w>> : w \in ATTENTION_LEVELS}

\* A classifier that was steered carries no words of its own into the prompt
\* of the step that holds the tools (the comment in record_email_triage says
\* so): whatever the text, a label is a word of ours,
\* at most one is a category, and there is none for a reply the user has
\* already given; a step's output claims nothing only the engine knows, and
\* says it parsed only what a parser found an object in.
OutputsAreHonest ==
  /\ call.fn # "noop" /\ "apply_labels" \in DOMAIN output =>
       LET labels == {output["apply_labels"].json[i].json : i \in DOMAIN output["apply_labels"].json}
       IN /\ labels \subseteq LabelWords
          /\ \A v, w \in TRIAGE_CATEGORIES : {<<"wf", v>>, <<"wf", w>>} \subseteq labels => v = w
          /\ call.reply \in {"replied", "unknown"} => <<"wf-attn", "awaiting-reply">> \notin labels
          /\ ~({<<"wf-attn", "urgent">>, <<"wf-attn", "review">>} \subseteq labels)
  /\ DOMAIN output \cap (ENGINE_FIELDS \cup RESERVED) = {}
  /\ "parse_ok" \in DOMAIN output => call.fn \in PARSERS
                                     /\ (output["parse_ok"].json => call.text.form = "object")

\* Every row is kept, dropped or counted, the counts say how many, and the
\* opposite comparison keeps exactly what this one drops.
Opposite == [on_or_before |-> "after", after |-> "on_or_before",
             before |-> "on_or_after", on_or_after |-> "before"]
RowsAreAccountedFor ==
  (call.fn = "filter_rows_by_date" /\ "kept_rows" \in DOMAIN output) =>
    LET found == ResolveRows(call.source, call.rows)
    IN /\ output["kept_count"].json + output["dropped_count"].json + output["unparseable_count"].json = Len(found)
       /\ Filtered(found, call.cutoff, Opposite[call.comparison])["kept_rows"] = output["dropped_rows"]
=============================================================================
