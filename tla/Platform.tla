------------------------------ MODULE Platform ------------------------------
(* The parts of the platform that share no state, side by side: a behaviour *)
(* is a behaviour of one part, and the parts take turns at the same         *)
(* variables: each names its own in their order, and those beyond its last  *)
(* are Off.  What a part promises is stated of its behaviours.              *)
EXTENDS Integers, Sequences, FiniteSets

CONSTANTS
  TraceFields, Versions, ShownFields, Raws,               \* TraceStore
  Grants, MaxEntries, Window, MaxReads,                   \* RawReads
  AgentTools, AgentConfigs, MaxBatch, MaxTries, MaxWait, AnswerCost,
                                                          \* AgentLoop
  MemoryRuns, RunOrg, Account, Renders, Source, Verdicts, Configured, Keyed,
                                                          \* LearnedMemory
  Instances, Workflow, Mounts, Levels, MaxTime, MaxChanges,  \* Monitoring
  Files, Production, MaxRuns, MaxEvents, MaxBoots,        \* Triggers
  Users, Home, Admins, OrgAdmins, Shapes, Names, Clients, MaxInstances, MaxCalls, MaxCrashes,
                                                          \* WorkflowAdmin
  Movers, Beside, MoverConfig, MoverDisk, MoverCategories, MoverMembers, MoverBudgets,
                                                          \* FileSteps
  PageSteps, Hosts, Restricted, AllowedHosts, MaxPages, MaxToolCalls, MaxHops,  \* Browser
  FunctionCalls,                                          \* StepOutputs
  TraceAssets, MaxArity, SizePowers, TraceKeys,                      \* TraceProjection
  Nobody, MaxFaults                                       \* of several

VARIABLES part, v1, v2, v3, v4, v5, v6, v7, v8, v9, v10, v11, v12, v13, v14, v15,
          v16
all == <<part, v1, v2, v3, v4, v5, v6, v7, v8, v9, v10, v11, v12, v13, v14, v15,
         v16>>

Off == "off"

-----------------------------------------------------------------------------
(* TraceStore: the builds, the flip, the run and the operator's jobs.       *)

TS == INSTANCE TraceStore WITH
  Fields <- TraceFields, Shown <- ShownFields,
  row <- v1, context <- v2, vault <- v3, build <- v4, flip <- v5, key <- v6,
  run <- v7, job <- v8, got <- v9, raw <- v10, missed <- v11, ledger <- v12,
  faults <- v13

\* A table that no longer holds the raw of an asset has it in the vault,
\* whatever the builds, the flip, the jobs and the crashes; and a resumption
\* under the flip restores the raw the run produced or fails closed, but where
\* the context's backfill was cut off (TraceStore).
RawIsKept == part = "trace" => TS!RawIsRecoverable /\ TS!ResumesOnRaw

-----------------------------------------------------------------------------
(* RawReads: one request, and resolutions beside it.                       *)

RR == INSTANCE RawReads WITH
  field <- v1, facts <- v2, log <- v3, exists <- v4, flip <- v5, grants <- v6,
  call <- v7, resolver <- v8, attempts <- v9, decisions <- v10, answers <- v11,
  n <- v12

\* The entries list_recent returns are so many.
ASSUME ReadsAssumption == Window \in Nat

\* Raw leaves only under the grant the reader held, after both entries, and as
\* complete only when it is; an escalation's raw is in the vault and none is
\* pending that was resolved (workflows.py detail, explain and escalations).
RawReadsAreGoverned ==
  part = "reads" => RR!RawReadsAreHonest /\ RR!EscalationsAreKept

-----------------------------------------------------------------------------
(* AgentLoop: one agentic step.                                           *)

AL == INSTANCE AgentLoop WITH
  Tools <- AgentTools, Configs <- AgentConfigs,
  step <- v1, memory <- v2, attempt <- v3, left <- v4, effects <- v5, audit <- v6,
  spent <- v7, result <- v8

\* A step's tools, its budgets, and the one tool it may require.
ASSUME AgentAssumption ==
  /\ AnswerCost \in Nat
  /\ \A c \in AgentConfigs :
       /\ c.tools \subseteq AgentTools /\ c.allowed \subseteq AgentTools
       /\ c.pin \in {"none", "resolves", "missing"} /\ c.minimized \in BOOLEAN /\ (c.required = {} \/ \E t \in AgentTools : c.required = {t})
       /\ c.retries \in Nat /\ c.maxTurns \in Nat /\ c.maxTokens \in Nat

\* A tool acts only where the step and the capabilities both allow it and on
\* the pinned value; a step that declares its inputs sees no recalled mail
\* (agents/agent.py, _run_agent_step).
ActionsAreBounded == part = "agent" => AL!ActionsAreBounded

\* A completed agent step made its required call within its budgets, with its
\* attempt's acts on record and its tokens counted (_run_agent_step).
CompletedIsEarned == part = "agent" => AL!CompletedIsEarned

-----------------------------------------------------------------------------
(* LearnedMemory: the runs of a process, and their forks.                  *)

LM == INSTANCE LearnedMemory WITH
  Runs <- MemoryRuns, Org <- RunOrg,
  run <- v1, lock <- v2, adapter <- v3, thread <- v4, store <- v5, judged <- v6,
  log <- v7, faults <- v8

\* Runs and organizations are somebody, a fork is of a run, and a run has so
\* many observations.
ASSUME MemoryAssumption ==
  /\ Nobody \notin MemoryRuns /\ \A r \in MemoryRuns : RunOrg[r] # Nobody
  /\ \A r \in MemoryRuns : Source[r] \in MemoryRuns \cup {Nobody} /\ Len(Renders[r]) \in Nat

\* Each observation of a completed run is one entry and its fact, paid once;
\* memory is recalled, listed and shown within its organization; and a
\* correction is a disagreement with the run that was forked
\* (memory/learned.py, executor.py).
MemoryIsAccountedFor ==
  part = "memory" => /\ LM!ObservationsAreAccountedFor /\ LM!MemoryStaysWithItsTenant
                     /\ LM!CorrectionsAreDisagreements

-----------------------------------------------------------------------------
(* Monitoring: rounds of checks while runs come and go.                    *)

MO == INSTANCE Monitoring WITH
  now <- v1, inst <- v2, consent <- v3, low <- v4, high <- v5, round <- v6,
  alerted <- v7, since <- v8, log <- v9, heard <- v10, mailed <- v11, posted <- v12,
  lost <- v13, changes <- v14, faults <- v15, restarts <- v16

\* One alert for an episode and one email for a subject in the repeat, within
\* the hour's allowance; and a finished round has said all that it found
\* (monitoring/service.py, notifier.py).
AlertsAreAccountedFor == part = "monitoring" => MO!OncePerEpisode /\ MO!RoundsReport

-----------------------------------------------------------------------------
(* Triggers: the lives of a process and its definition files.              *)

TR == INSTANCE Triggers WITH
  phase <- v1, boot <- v2, next <- v3, stored <- v4, started <- v5, registry <- v6,
  runs <- v7, busy <- v8, due <- v9, posts <- v10, events <- v11, faults <- v12,
  unswept <- v13

\* The definition files come in an order.
ASSUME TriggersAssumption == DOMAIN Files = 1 .. Len(Files) /\ Len(Files) \in Nat

\* After the boot sweep a running instance is one this process drives, and
\* each run answers one event of its own definition (main.py, recovery.py,
\* orchestrator.py, triggers/).
RunsAreAccountedFor == part = "triggers" => TR!RunningMeansDriven /\ TR!RunsAreCalledFor

-----------------------------------------------------------------------------
(* WorkflowAdmin: calls beside each other, and crashes.                    *)

WA == INSTANCE WorkflowAdmin WITH
  defs <- v1, inst <- v2, done <- v3, created <- v4, dry <- v5, forks <- v6,
  drivers <- v7, tasks <- v8, calls <- v9, audit <- v10, changed <- v11,
  ncalls <- v12, crashes <- v13

\* The ids that may be given out are numbered.
ASSUME AdminAssumption == MaxInstances \in Nat

\* Whoever changed, forked or deleted an instance is of its organization or is
\* on record as an Administrator acting outside it, and a fork drives with its
\* whole past done (api/workflows.py).
AdministrationIsOnRecord ==
  part = "admin" => WA!CrossOrgActsAreOnRecord /\ WA!ForksKeepTheirPast

-----------------------------------------------------------------------------
(* FileSteps: a run whose steps move files.                                *)

FS == INSTANCE FileSteps WITH
  Disk <- MoverDisk, Categories <- MoverCategories, Members <- MoverMembers, Budgets <- MoverBudgets,
  Steps <- Movers, Runs <- Beside, Config <- MoverConfig,
  fs <- v1, run <- v2, caps <- v3, writing <- v4, late <- v5, touched <- v6,
  crashes <- v7, cuts <- v8

\* A sequence.
IsList(s) == s \in Seq({s[i] : i \in DOMAIN s})

\* Paths and members come in an order, and the steps that run beside each other
\* keep their files apart.  Where time limits strike the process does not die:
\* what a cut attempt still writes a death may leave empty.
ASSUME FilesAssumption ==
  /\ \A v \in DOMAIN MoverMembers : IsList(MoverMembers[v])
  /\ \A s \in Movers : /\ IsList(MoverConfig[s].paths) /\ MoverConfig[s].from \in Movers
                        /\ MoverConfig[s].fn \in {"extract", "copy", "route", "append", "csv", "pdf"}
  /\ \A c \in Beside : c \subseteq Movers /\ FS!KeepsApart(c)
  /\ \A b \in MoverBudgets : b.cuts \in Nat /\ b.crashes \in Nat /\ (b.cuts = 0 \/ b.crashes = 0)

\* No step touched a path outside its own layers (world/real.py).
TouchesAreAllowed == part = "files" => FS!TouchesWithinLayers

\* And the files a completed step reported are there with the content it
\* reported, whatever attempts were cut before it (engine/functions.py).
FileStepsAreHonest ==
  part = "files" => FS!ReportedFilesAreThere /\ FS!TouchesWithinLayers

-----------------------------------------------------------------------------
(* Browser: the page the steps of a run share.                             *)

BR == INSTANCE Browser WITH
  Steps <- PageSteps,
  MaxCalls <- MaxToolCalls,
  browser <- v1, pages <- v2, known <- v3, owner <- v4, policy <- v5, asked <- v6,
  reply <- v7, sent <- v8, files <- v9, mishaps <- v10

\* The steps with a policy are some of those that call, and no step is nobody.
ASSUME BrowserAssumption == Restricted \subseteq PageSteps /\ Nobody \notin PageSteps

\* What a restricted step learns of a page is of the one document its call
\* checked, on a host of its own, and its requests and files are of such hosts
\* (tools/browser.py, connectors/browser/).
BrowserIsGoverned == part = "browser" => BR!BrowserIsGoverned

-----------------------------------------------------------------------------
(* StepOutputs: one call of a step function.                               *)

SO == INSTANCE StepOutputs WITH Calls <- FunctionCalls, call <- v1, output <- v2

\* A call is of a function there is, the object a parser finds holds JSON
\* values, and so do the rows of a table, whose dates are numbers.
IsJson(v) == (v.t = "str" => v = SO!Str(v.json)) /\ (v.t = "list" => IsList(v.json))
ASSUME OutputsAssumption ==
  \A c \in FunctionCalls :
    /\ c.fn \in SO!PARSERS \cup {"noop", "filter_rows_by_date"}
    /\ c.fn \in SO!PARSERS /\ c.text.form = "object" =>
         \A k \in DOMAIN c.text.m : IsJson(c.text.m[k]) /\ (c.text.m[k].t = "list" =>
           \A i \in DOMAIN c.text.m[k].json : IsJson(c.text.m[k].json[i]))
    /\ c.fn = "filter_rows_by_date" =>
         /\ IsList(c.rows) /\ c.cutoff \in Int /\ c.comparison \in DOMAIN SO!Opposite
         /\ \A i \in DOMAIN c.rows : c.rows[i].t = "dict" /\ SO!Dated(c.rows[i]) =>
              c.rows[i].json["date"].json \in Int

\* A deterministic step's output claims nothing that is the engine's, its
\* labels are words of the platform however the text reads, and the rows it
\* filters are all kept, dropped or counted (engine/functions.py,
\* run_function).
OutputsAreAccountedFor ==
  part = "outputs" => SO!OutputsAreHonest /\ SO!RowsAreAccountedFor

-----------------------------------------------------------------------------
(* TraceProjection: one document, written and read back.                   *)

TP == INSTANCE TraceProjection WITH
  Assets <- TraceAssets, Powers <- SizePowers, Words <- TraceKeys, asset <- v1, stored <- v2, read <- v3

\* The schemas are what they are, and a document is a document: of a kind, and
\* with no key of an outsider's among the ids of the steps.
ASSUME ProjectionAssumption ==
  /\ TP!OwnNames \cup TP!Secrets \subseteq TraceKeys
  /\ MaxArity \in Nat /\ SizePowers \subseteq Nat \ {0} /\ 1 \in SizePowers
  /\ LET nodes == TP!Nodes
     IN TP!Roots \subseteq nodes /\ \A node \in nodes : TP!IsNode(node) /\ TP!Parts(node) \subseteq nodes
  /\ \A a \in TraceAssets :
       /\ a.kind # "none" /\ TP!IsDocument(a.doc)
       /\ TP!OutsidersAreOutside(TP!Schema(a.kind), a.doc)

\* The projector of every kind of document is a fixed point, lets no secret
\* string or name decide what is stored, and marks whatever it removed
\* (project_asset).
ProjectionIsSound ==
  part = "projection" => TP!ReadsAsStored /\ TP!SecretsDoNotShow /\ TP!RemovalIsFlagged

-----------------------------------------------------------------------------
(* The variables a part has no use for, from the one after its last.       *)

Rest14 == <<v14, v15, v16>>
Off14  == v14 = Off /\ v15 = Off /\ v16 = Off
Rest13 == <<v13, Rest14>>
Off13  == v13 = Off /\ Off14
Rest11 == <<v11, v12, Rest13>>
Off11  == v11 = Off /\ v12 = Off /\ Off13
Rest9 == <<v9, v10, Rest11>>
Off9  == v9 = Off /\ v10 = Off /\ Off11
Rest4 == <<v4, v5, v6, v7, v8, Rest9>>
Off4  == v4 = Off /\ v5 = Off /\ v6 = Off /\ v7 = Off /\ v8 = Off /\ Off9
Rest3 == <<v3, Rest4>>
Off3  == v3 = Off /\ Off4

Init ==
  \/ part = "trace" /\ TS!Init /\ Off14
  \/ part = "reads" /\ RR!Init /\ Off13
  \/ part = "agent" /\ AL!Init /\ Off9
  \/ part = "memory" /\ LM!Init /\ Off9
  \/ part = "files" /\ FS!Init /\ Off9
  \/ part = "monitoring" /\ MO!Init
  \/ part = "triggers" /\ TR!Init /\ Off14
  \/ part = "admin" /\ WA!Init /\ Off14
  \/ part = "browser" /\ BR!Init /\ Off11
  \/ part = "outputs" /\ SO!Init /\ Off3
  \/ part = "projection" /\ TP!Init /\ Off4

Next ==
  /\ UNCHANGED part
  /\ \/ part = "trace" /\ TS!Next /\ UNCHANGED Rest14
     \/ part = "reads" /\ RR!Next /\ UNCHANGED Rest13
     \/ part = "agent" /\ AL!Next /\ UNCHANGED Rest9
     \/ part = "memory" /\ LM!Next /\ UNCHANGED Rest9
     \/ part = "files" /\ FS!Next /\ UNCHANGED Rest9
     \/ part = "monitoring" /\ MO!Next
     \/ part = "triggers" /\ TR!Next /\ UNCHANGED Rest14
     \/ part = "admin" /\ WA!Next /\ UNCHANGED Rest14
     \/ part = "browser" /\ BR!Next /\ UNCHANGED Rest11
     \/ part = "outputs" /\ SO!Next /\ UNCHANGED Rest3
     \/ part = "projection" /\ TP!Next /\ UNCHANGED Rest4

Spec == Init /\ [][Next]_all
=============================================================================
