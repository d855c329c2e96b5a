------------------------------- MODULE MCMemory -------------------------------
(* Two runs of one organisation's mailbox, the second a fork of the first,   *)
(* and a run of another organisation that names the same mailbox with a tag. *)
EXTENDS Naturals, Sequences

ThreeRuns == {"first", "fork", "other"}
Mailbox   == [mailbox |-> "owner", spelled |-> "plain", address |-> TRUE]
Owners    == [r \in ThreeRuns |-> IF r = "other" THEN "umbrella" ELSE "acme"]
Accounts  == [r \in ThreeRuns |-> Mailbox]
Forks     == [r \in ThreeRuns |-> IF r = "fork" THEN "first" ELSE "nobody"]
Texts     == [r \in ThreeRuns |-> IF r = "other" THEN <<"empty", "text">> ELSE <<"text">>]

(* The fork agrees; disagrees; disagrees with a run whose first row failed.  *)
Verdict(c, first) == [category |-> c, first |-> first]
SomeVerdicts ==
  {[r \in ThreeRuns |-> Verdict("bulk", TRUE)],
   [r \in ThreeRuns |-> IF r = "fork" THEN Verdict("urgent", TRUE) ELSE Verdict("bulk", TRUE)],
   [r \in ThreeRuns |-> IF r = "fork" THEN Verdict("urgent", TRUE) ELSE Verdict("bulk", FALSE)]}

CONSTANT MaxFaults
VARIABLES run, lock, adapter, thread, store, judged, log, faults
INSTANCE LearnedMemory WITH
  Runs <- ThreeRuns, Nobody <- "nobody", Org <- Owners, Account <- Accounts, Renders <- Texts,
  Source <- Forks, Verdicts <- SomeVerdicts, Configured <- TRUE, Keyed <- TRUE
=============================================================================
