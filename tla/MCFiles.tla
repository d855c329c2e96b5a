------------------------------- MODULE MCFiles -------------------------------
(* A delivery as the DMARC workflow makes it, two archives with a member of  *)
(* the same name unpacked and then copied, beside a step that may write      *)
(* nowhere; and the other functions beside each other.                      *)
EXTENDS Naturals, Sequences

Budgets == {[cuts |-> 2, crashes |-> 0], [cuts |-> 0, crashes |-> 2]}

P(d, n) == [dir |-> d, name |-> <<n, 1>>]
Entry(n, d, fits, opens) == [name |-> n, data |-> d, fits |-> fits, opens |-> opens]

Disk ==
  [p \in {P("in", "a.zip"), P("in", "b.gz"), P("in", "x"), P("logs", "log")} |->
     CASE p.name[1] = "a.zip" -> <<"zip">>
       [] p.name[1] = "b.gz"  -> <<"gz">>
       [] p.name[1] = "x"     -> <<"plain">>
       [] OTHER            -> <<"old">>]

Categories == {"routed"}

Members ==
  [v \in {"zip", "gz"} |->
     IF v = "zip" THEN <<Entry("r", "zip r", TRUE, TRUE), Entry("txt", "torn", FALSE, FALSE),
                         Entry("r", "zip r again", TRUE, TRUE), Entry("s", "torn", TRUE, FALSE)>>
     ELSE <<Entry("r", "gz r", TRUE, TRUE)>>]

Limit(r, w) == {[read |-> r, write |-> w]}
Do(s, fn, paths, dest, layers, retries) ==
  [fn |-> fn, paths |-> paths, from |-> s, dest |-> dest, line |-> s, layers |-> layers, retries |-> retries]

AllConfig ==
  [s \in {"extract", "copy", "nowhere", "route", "unsorted", "append", "csv", "pdf"} |->
     CASE s = "extract" -> Do(s, "extract", <<P("in", "a.zip"), P("in", "gone"), P("in", "x"), P("in", "b.gz")>>,
                              "spool", Limit({"in"}, {"spool", "out"}), 1)
       [] s = "copy"    -> [Do(s, "copy", <<>>, "out", Limit({"spool"}, {"out"}), 1) EXCEPT !.from = "extract"]
       [] s = "nowhere" -> Do(s, "copy", <<P("in", "x")>>, "out", Limit({"in"}, {}), 0)
       [] s = "route"   -> Do(s, "route", <<P("in", "x")>>, "routed", Limit({"in"}, {"in", "routed"}) \cup Limit({"in"}, {"routed"}), 1)
       [] s = "unsorted" -> Do(s, "route", <<P("in", "x")>>, "no such", Limit({"in"}, {"other"}), 0)
       [] s = "append"  -> Do(s, "append", <<P("logs", "log")>>, "logs", {}, 1)
       [] s = "csv"     -> Do(s, "csv", <<P("logs", "rows")>>, "logs", {}, 1)
       [] s = "pdf"     -> Do(s, "pdf", <<P("in", "x"), P("in", "gone")>>, "logs", {}, 1)]

Steps == DOMAIN AllConfig
Runs  == {{"extract", "copy", "nowhere"}, {"route", "append", "csv"}, {"pdf", "unsorted", "nowhere"}}

VARIABLES fs, run, caps, writing, late, touched, crashes, cuts
INSTANCE FileSteps WITH Config <- AllConfig
=============================================================================
