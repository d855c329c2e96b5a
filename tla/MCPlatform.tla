----------------------------- MODULE MCPlatform -----------------------------
(* The parts of Platform on small instances.                                *)
EXTENDS Platform, TLC

(* TraceStore: a build that shows more, then one that shows less.           *)
TwoFields   == {"safe", "late"}
ThreeBuilds == 1 .. 3
ShownBy     == <<{"safe"}, {"safe", "late"}, {}>>
SomeRaws    == {{}, {"safe"}, {"safe", "late"}}

(* AgentLoop and WorkflowAdmin: the values of MCAgent and MCAdmin.          *)
Agent == INSTANCE MCAgent WITH
  step <- v1, memory <- v2, attempt <- v3, left <- v4, effects <- v5, audit <- v6,
  spent <- v7, result <- v8
SomeTools   == Agent!Tools
SomeConfigs == Agent!StepConfigs
Admin == INSTANCE MCAdmin WITH
  defs <- v1, inst <- v2, done <- v3, created <- v4, dry <- v5, forks <- v6,
  drivers <- v7, tasks <- v8, calls <- v9, audit <- v10, changed <- v11,
  ncalls <- v12, crashes <- v13
HomeOf == Admin!HomeOf

(* LearnedMemory: the values of MCMemory.                                   *)
Memory == INSTANCE MCMemory WITH
  run <- v1, lock <- v2, adapter <- v3, thread <- v4, store <- v5, judged <- v6,
  log <- v7, faults <- v8
OwnerOf  == Memory!Owners
Mailboxes == Memory!Accounts
Rendered == Memory!Texts
ForkOf   == Memory!Forks
RunVerdicts == Memory!SomeVerdicts

(* FileSteps: the deliveries of MCFiles.                                    *)
Delivery == INSTANCE MCFiles WITH
  fs <- v1, run <- v2, caps <- v3, writing <- v4, late <- v5, touched <- v6,
  crashes <- v7, cuts <- v8
FileMovers  == Delivery!Steps
FileRuns    == Delivery!Runs
FileConfigs == Delivery!AllConfig
FileDisk    == Delivery!Disk
FileCategories == Delivery!Categories
FileMembers == Delivery!Members
FileBudgets == Delivery!Budgets

(* Monitoring: two runs of one email-triggered workflow, one disk, one level. *)
TwoRuns == {"run1", "run2"}
Triage  == [i \in TwoRuns |-> "triage"]

(* Triggers: a schedule, a watched folder, a signed webhook, an unsigned one  *)
(* that claims the same id, and a file that does not parse.                   *)
File(kind, id, secret, parses) == [kind |-> kind, id |-> id, secret |-> secret, parses |-> parses]
SomeFiles == <<File("schedule", "none", FALSE, TRUE), File("webhook", "hook", TRUE, FALSE),
               File("webhook", "hook", FALSE, TRUE), File("webhook", "hook", TRUE, TRUE),
               File("file_watch", "none", FALSE, TRUE)>>

(* Browser: a step that may use one host and a step without a policy share a  *)
(* page.                                                                      *)
NarrowHosts == [narrow |-> {"on"}, wide |-> {"on", "off"}]

(* TraceProjection and StepOutputs: every document of MCProjection, every    *)
(* call of MCStepOutputs.                                                  *)
Documents == INSTANCE MCProjection WITH
  Assets <- {}, Powers <- SizePowers, Words <- TraceKeys, asset <- v1, stored <- v2, read <- v3
AnyKey == STRING
EveryDocument == Documents!Documents
SomeCalls == INSTANCE MCStepOutputs WITH Calls <- {}, call <- v1, output <- v2
EveryCall == SomeCalls!AllCalls
=============================================================================
