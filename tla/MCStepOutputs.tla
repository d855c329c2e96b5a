---------------------------- MODULE MCStepOutputs ----------------------------
(* The texts a classifier, a judge and an extractor may write, well formed  *)
(* and not, and the rows a table may hold.                                 *)
EXTENDS StepOutputs, TLC

\* The objects with those entries, each absent or one of its values.
RECURSIVE Objects(_, _)
Objects(keys, values) ==
  IF keys = {} THEN {<<>>}
  ELSE LET k == CHOOSE x \in keys : TRUE
           rest == Objects(keys \ {k}, values)
       IN rest \cup {(k :> v) @@ m : v \in values[k], m \in rest}

Words(set) == {Str(w) : w \in set}
Attention  == {List(<<>>)} \cup {List(<<a, b>>) : a, b \in Words({"urgent", "awaiting-reply", "review", "other"})}

Triages == Objects({"category", "attention", "confidence", "question_candidate", "model"},
  [category |-> {Str("spam"), Str("other"), Num(1)},
   attention |-> Attention \cup {Str("urgent"), List(<<Num(1)>>)},
   confidence |-> {Num(1), Str("high")},
   question_candidate |-> {Dict([topic |-> Str("t")]), Dict(<<>>)},
   model |-> {Str("other")}])

Reviews == Objects({"category_score", "issues", "needs_tests", "tags", "concerns"},
  [category_score |-> {Num(4), Bool(TRUE)}, issues |-> {List(<<Str("a"), Num(1)>>)},
   needs_tests |-> {Bool(TRUE), Str("no")}, tags |-> {List(<<Str("a")>>), Null},
   concerns |-> {List(<<>>), List(<<Str("a"), Str("b")>>)}])

Item(m) == Dict(m)
Invoices == Objects({"subtotal", "discount", "shipping", "total", "line_items", "invoice_date"},
  [subtotal |-> {Num(3)}, discount |-> {Num(1), Str("none")}, shipping |-> {Num(1)},
   total |-> {Num(3), Num(4)}, invoice_date |-> {Str("date"), Str("soon")},
   line_items |-> {List(<<>>), List(<<Item([amount |-> Num(3)]), Str("x")>>),
                   List(<<Item([item |-> Str("a")]), Item([amount |-> Num(2)]), Item(<<>>)>>)}])

Configs == Objects({"model", "usage", "parse_ok", "projector_version", "category"},
  [k \in {"model", "usage", "parse_ok", "projector_version", "category"} |-> {Bool(TRUE)}])

Texts_(objects) == {NoText, Prose} \cup {Object(m) : m \in objects}
Tables == UNION {[1 .. n -> {Str("x"), Dict(<<>>), Dict([date |-> Str("soon")])}
                              \cup {Dict([date |-> Num(d)]) : d \in 1 .. 3}] : n \in 0 .. 3}

AllCalls ==
  [fn: {"record_email_triage"}, text: Texts_(Triages), reply: {"none", "replied", "unknown"}]
  \cup [fn: {"record_evaluation", "record_pr_triage", "record_paper_triage"}, text: Texts_(Reviews),
        reply: {"none"}]
  \cup [fn: {"record_invoice_extraction"}, text: Texts_(Invoices), reply: {"none"}]
  \cup [fn: {"noop"}, text: {Object(m) : m \in Configs}, reply: {"none"}]
  \cup [fn: {"filter_rows_by_date"}, rows: Tables, cutoff: {2}, comparison: DOMAIN Opposite,
        source: {"config", "text", "absent"}]
=============================================================================
