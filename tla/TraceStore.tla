----------------------------- MODULE TraceStore -----------------------------
(***************************************************************************)
(* The raw of one run: where it is stored, projected, vaulted, migrated and *)
(* read back.                                                              *)
(*                                                                         *)
(*   trace_vault.py, trace_cipher.py   the vault and its seals             *)
(*   engine/executor.py     run, _run_step_once, _mark_instance, resume    *)
(*   audit_writer.py        append                                         *)
(*   trace_migration.py     backfill_instance, migrate_audit_details       *)
(*   trace_rehydrate.py     rehydrate_trigger, _output, _audit_detail      *)
(*   tools/reseal_audit_vault.py                                           *)
(*                                                                         *)
(* A content is the set of fields a document still shows and whether some   *)
(* were cut from it; a projector version shows some fields (TraceProjection *)
(* has the projector itself).  The run has one of each asset; the operator's*)
(* jobs run while nothing drives the run.  Bounds: the fields, the raw      *)
(* documents, the versions, and MaxFaults failing writes and crashes.      *)
(***************************************************************************)
EXTENDS Naturals

CONSTANTS
  Fields,     \* of a document
  Shown,      \* Shown[v]: the fields projector version v lets through
  Versions,   \* 1 .. n, the versions of successive builds
  Raws,       \* the documents a run may produce, as sets of fields
  MaxFaults

Assets == {"trigger", "output", "error", "audit"}
None   == [none |-> TRUE]
Whole(fields) == [f |-> fields, cut |-> FALSE]
Marker == [f |-> {}, cut |-> TRUE]

VARIABLES
  row,      \* row[a]: the asset as the operational tables hold it, and its stamp
  context,  \* the instance's context: the copy of the step's output in it
  vault,    \* vault[a]: the vault object of the asset
  build,    \* PROJECTOR_VERSION of the running build
  flip,     \* trace_safe_only
  key,      \* a master key is configured
  run,      \* where the run is
  job,      \* where the operator's job is
  got,      \* what a resumption has restored
  raw,      \* history: the raw of each asset that has been produced
  missed,   \* history: the assets a fault kept out of the vault
  ledger,   \* audit_detail_migrated is on record
  faults

store  == <<row, context, vault>>
config == <<build, flip, key>>
vars   == <<row, context, vault, build, flip, key, run, job, got, raw, missed, ledger, faults>>

Init ==
  /\ row = [a \in Assets |-> None] /\ vault = [a \in Assets |-> None] /\ context = None
  /\ build = 1 /\ flip \in BOOLEAN /\ key \in BOOLEAN
  /\ run = "new" /\ job = "idle" /\ got = [trigger |-> None, output |-> None]
  /\ raw = [a \in Assets |-> {}] /\ missed = {} /\ ledger = FALSE /\ faults = 0

-----------------------------------------------------------------------------
(* Projection, the vault's put, and reading an object back.                *)

\* A trigger always carries the marker; an error is replaced by it.
Project(a, v, c) ==
  CASE a = "error"   -> IF c = Whole({}) THEN c ELSE Marker
    [] a = "trigger" -> [f |-> c.f \cap Shown[v], cut |-> TRUE]
    [] OTHER         -> [f |-> c.f \cap Shown[v], cut |-> c.cut \/ ~(c.f \subseteq Shown[v])]

HasRaw(a, c) == Project(a, build, c) # c
AtRest(a, c) == IF flip THEN Project(a, build, c) ELSE c
Stamp == IF flip THEN build ELSE 0

Sealed == IF key THEN "sealed" ELSE "plain"
Fresh(c) == [c |-> c, ver |-> build, form |-> Sealed]

\* An existing object wins; it must have the same fingerprint.
Conflicts(a, c) == c # Whole({}) /\ vault[a] # None /\ (vault[a].c # c \/ vault[a].ver # build)
Put(a, c) ==
  /\ ~Conflicts(a, c)
  /\ vault' = IF c = Whole({}) \/ vault[a] # None THEN vault ELSE [vault EXCEPT ![a] = Fresh(c)]

Opens(a) == vault[a].form = Sealed
Agrees(a, safe, stamp) == stamp # build \/ Project(a, build, vault[a].c) = safe

\* What reading the asset back gives: its content, or None (it fails closed).
Rehydrated(a, safe, stamp) ==
  IF a # "trigger" /\ stamp = 0 THEN safe
  ELSE IF vault[a] = None THEN IF a = "trigger" /\ ~safe.cut THEN safe ELSE None
  ELSE IF Opens(a) /\ Agrees(a, safe, stamp) /\ (a = "audit" => vault[a].ver = stamp) THEN vault[a].c
  ELSE None

-----------------------------------------------------------------------------
(* The run.                                                                *)

Running == run \in {"trigger", "step", "save", "audit", "append", "mark", "rehydrate"}
Still   == UNCHANGED <<config, job, got, ledger>>

\* A vault write fails: fatal under the flip, logged otherwise.
Missed(a) == faults < MaxFaults /\ faults' = faults + 1 /\ missed' = missed \cup {a} /\ UNCHANGED vault
Kept == UNCHANGED <<missed, faults>>

\* run(): the instance row, its trigger projected under the flip, ...
Launch(doc) ==
  /\ run = "new" /\ run' = "trigger"
  /\ row' = [row EXCEPT !["trigger"] = [c |-> AtRest("trigger", Whole(doc)), stamp |-> Stamp]]
  /\ raw' = [raw EXCEPT !["trigger"] = doc]
  /\ UNCHANGED <<context, vault>> /\ Kept /\ Still

\* ...and only then its raw.
KeepTrigger ==
  /\ run = "trigger"
  /\ \/ Put("trigger", Whole(raw["trigger"])) /\ Kept /\ run' = "step"
     \/ Missed("trigger") /\ run' = IF flip THEN "dead" ELSE "step"
  /\ UNCHANGED <<row, context, raw>> /\ Still

\* Mutant of RunStep: record_step_output returns without writing the output.
MutRunStep(doc) ==
  /\ run = "step" /\ raw' = [raw EXCEPT !["output"] = doc]
  /\ UNCHANGED vault /\ Kept /\ run' = "save"
  /\ UNCHANGED <<row, context>> /\ Still

\* The step's output is vaulted, if projection would take something away, ...
RunStep(doc) ==
  /\ run = "step" /\ raw' = [raw EXCEPT !["output"] = doc]
  /\ \/ ~HasRaw("output", Whole(doc)) /\ UNCHANGED vault /\ Kept /\ run' = "save"
     \/ HasRaw("output", Whole(doc)) /\ Put("output", Whole(doc)) /\ Kept /\ run' = "save"
     \/ HasRaw("output", Whole(doc)) /\ Missed("output") /\ run' = IF flip THEN "mark" ELSE "save"
  /\ UNCHANGED <<row, context>> /\ Still

\* ...and then the attempt's row is written.
SaveOutput ==
  /\ run = "save" /\ run' = "audit"
  /\ row' = [row EXCEPT !["output"] = [c |-> AtRest("output", Whole(raw["output"])), stamp |-> Stamp]]
  /\ UNCHANGED <<context, vault, raw>> /\ Kept /\ Still

\* The step raises instead: _persist_step_failure.
FailStep(doc) ==
  /\ run = "step" /\ doc # {} /\ raw' = [raw EXCEPT !["error"] = doc] /\ run' = "mark"
  /\ \/ /\ Put("error", Whole(doc)) /\ Kept
        /\ row' = [row EXCEPT !["error"] = [c |-> AtRest("error", Whole(doc)), stamp |-> Stamp]]
     \/ /\ Missed("error")
        /\ row' = IF flip THEN row ELSE [row EXCEPT !["error"] = [c |-> Whole(doc), stamp |-> 0]]
  /\ UNCHANGED context /\ Still

\* AuditWriter.append: the detail's raw, under the flip, then the entry.
KeepDetail(doc) ==
  /\ run = "audit" /\ raw' = [raw EXCEPT !["audit"] = doc]
  /\ IF flip /\ HasRaw("audit", Whole(doc))
     THEN \/ Put("audit", Whole(doc)) /\ Kept /\ run' = "append"
          \/ Missed("audit") /\ run' = "mark"
     ELSE UNCHANGED vault /\ Kept /\ run' = "append"
  /\ UNCHANGED <<row, context>> /\ Still

AppendEntry ==
  /\ run = "append" /\ run' = "mark"
  /\ LET doc == Whole(raw["audit"])
     IN row' = [row EXCEPT !["audit"] =
                  [c |-> AtRest("audit", doc), stamp |-> IF HasRaw("audit", doc) THEN Stamp ELSE 0]]
  /\ UNCHANGED <<context, vault, raw>> /\ Kept /\ Still

\* _mark_instance: the context, with every output the drive holds in memory.
Mark ==
  /\ run = "mark" /\ run' = "paused"
  /\ context' = IF row["output"] = None THEN context ELSE AtRest("output", Whole(raw["output"]))
  /\ UNCHANGED <<row, vault, raw>> /\ Kept /\ Still

\* The process is killed; the next boot's sweep pauses the run.
Crash ==
  /\ Running /\ run' = "paused" /\ faults < MaxFaults /\ faults' = faults + 1
  /\ missed' = missed \cup (IF run = "trigger" THEN {"trigger"} ELSE {})
  /\ UNCHANGED <<store, raw>> /\ Still

-----------------------------------------------------------------------------
(* resume() and _rehydrate_context.                                        *)

Resting == run \in {"new", "paused"} /\ job = "idle"

\* Not flipped: nothing was projected, so what the rows hold is taken as it is.
ResumeInline ==
  /\ Resting /\ run = "paused" /\ ~flip /\ run' = "resumed"
  /\ got' = [trigger |-> row["trigger"].c, output |-> context]
  /\ UNCHANGED <<store, config, job, raw, ledger>> /\ Kept

\* Mutant of ResumeTrigger: a trigger the vault does not have is passed on.
MutResumeTrigger ==
  /\ Resting /\ run = "paused" /\ flip
  /\ LET c == IF vault["trigger"] = None THEN row["trigger"].c
              ELSE Rehydrated("trigger", row["trigger"].c, row["trigger"].stamp)
     IN /\ run' = IF c = None THEN "aborted" ELSE "rehydrate"
        /\ got' = [got EXCEPT !.trigger = c]
  /\ UNCHANGED <<store, config, job, raw, ledger>> /\ Kept

ResumeTrigger ==
  /\ Resting /\ run = "paused" /\ flip
  /\ LET c == Rehydrated("trigger", row["trigger"].c, row["trigger"].stamp)
     IN /\ run' = IF c = None THEN "aborted" ELSE "rehydrate"
        /\ got' = [got EXCEPT !.trigger = c]
  /\ UNCHANGED <<store, config, job, raw, ledger>> /\ Kept

\* The context's copy is restored from the vault, by the attempt's stamp.
ResumeOutput ==
  /\ run = "rehydrate"
  /\ LET c == IF context = None THEN None ELSE Rehydrated("output", context, row["output"].stamp)
     IN /\ run' = IF context # None /\ c = None THEN "aborted" ELSE "resumed"
        /\ got' = [got EXCEPT !.output = c]
  /\ UNCHANGED <<store, config, job, raw, ledger>> /\ Kept

-----------------------------------------------------------------------------
(* The operator: a new build, the flip, a key, and the migration jobs.      *)

Upgrade ==
  /\ Resting /\ build + 1 \in Versions /\ build' = build + 1
  /\ UNCHANGED <<store, flip, key, run, job, got, raw, ledger>> /\ Kept

TurnOn ==
  /\ Resting /\ \/ ~flip /\ flip' = TRUE /\ UNCHANGED key
                \/ ~key /\ key' = TRUE /\ UNCHANGED flip
  /\ UNCHANGED <<store, build, run, job, got, raw, ledger>> /\ Kept

Operating == UNCHANGED <<config, run, got, raw, missed>>

\* A durable put in a job: a conflict, or a failing write, ends the job.
JobPuts(a, next) ==
  LET c == row[a].c
  IN \/ Put(a, c) /\ job' = next /\ UNCHANGED faults
     \/ Conflicts(a, c) /\ job' = "conflict" /\ UNCHANGED <<vault, faults>>
     \/ faults < MaxFaults /\ faults' = faults + 1 /\ job' = "idle" /\ UNCHANGED vault

Has(a) == row[a] # None /\ row[a].c # Whole({})

BackfillTrigger ==
  /\ Resting /\ row["trigger"] # None
  /\ IF Has("trigger") /\ HasRaw("trigger", row["trigger"].c) THEN JobPuts("trigger", "instance")
     ELSE job' = "instance" /\ UNCHANGED <<vault, faults>>
  /\ UNCHANGED <<row, context, ledger>> /\ Operating

\* The instance's row: the trigger, the context, and the stamp beside them.
BackfillInstance ==
  /\ job = "instance" /\ job' = "output"
  /\ row' = [row EXCEPT !["trigger"] =
               [c |-> IF @.c = Whole({}) THEN @.c ELSE Project("trigger", build, @.c),
                stamp |-> IF context = None THEN @.stamp ELSE build]]
  /\ context' = IF context = None THEN None ELSE Project("output", build, context)
  /\ UNCHANGED <<vault, ledger, faults>> /\ Operating

\* A step row that is not stamped: its raw is vaulted unless it already is.
BackfillOutput ==
  /\ job = "output"
  /\ IF ~Has("output") \/ row["output"].stamp # 0 THEN job' = "error" /\ UNCHANGED <<vault, faults>>
     ELSE IF vault["output"] # None THEN job' = "outputrow" /\ UNCHANGED <<vault, faults>>
     ELSE IF HasRaw("output", row["output"].c) THEN JobPuts("output", "outputrow")
     ELSE job' = "error" /\ UNCHANGED <<vault, faults>>
  /\ UNCHANGED <<row, context, ledger>> /\ Operating

\* Projected and stamped in one save.
BackfillOutputRow ==
  /\ job = "outputrow" /\ job' = "idle"
  /\ row' = [row EXCEPT !["output"] = [c |-> Project("output", build, @.c), stamp |-> build]]
  /\ UNCHANGED <<context, vault, ledger, faults>> /\ Operating

BackfillError ==
  /\ job = "error"
  /\ IF row["error"] # None /\ row["error"].stamp = 0 /\ row["error"].c # Marker
     THEN JobPuts("error", "errorrow")
     ELSE job' = "idle" /\ UNCHANGED <<vault, faults>>
  /\ UNCHANGED <<row, context, ledger>> /\ Operating

BackfillErrorRow ==
  /\ job = "errorrow" /\ job' = "idle"
  /\ row' = [row EXCEPT !["error"].c = Marker]
  /\ UNCHANGED <<context, vault, ledger, faults>> /\ Operating

\* migrate_audit_details --apply: vault the raw, ...
MigrateDetail ==
  /\ Resting /\ Has("audit") /\ HasRaw("audit", row["audit"].c)
  /\ JobPuts("audit", "replace")
  /\ UNCHANGED <<row, context, ledger>> /\ Operating

\* ...then replace the detail, and after the batch append the ledger entry.
ReplaceDetail ==
  /\ job = "replace" /\ job' = "ledger"
  /\ row' = [row EXCEPT !["audit"] = [c |-> Project("audit", build, @.c), stamp |-> build]]
  /\ UNCHANGED <<context, vault, ledger, faults>> /\ Operating

AppendLedger ==
  /\ job = "ledger" /\ job' = "idle" /\ ledger' = TRUE
  /\ UNCHANGED <<store, faults>> /\ Operating

\* The job is interrupted, or reports its conflict and ends.
JobEnds ==
  /\ \/ job = "conflict" /\ UNCHANGED faults
     \/ job \notin {"idle", "conflict"} /\ faults < MaxFaults /\ faults' = faults + 1
  /\ job' = "idle" /\ UNCHANGED <<store, ledger>> /\ Operating

\* Audit objects that predate the key are sealed, their content unchanged.
Reseal ==
  /\ Resting /\ key /\ vault["audit"] # None /\ vault["audit"].form = "plain"
  /\ vault' = [vault EXCEPT !["audit"].form = "sealed"]
  /\ UNCHANGED <<row, context, job, ledger, faults>> /\ Operating

RunNext ==
  \/ \E doc \in Raws : Launch(doc) \/ RunStep(doc) \/ FailStep(doc) \/ KeepDetail(doc)
  \/ KeepTrigger \/ SaveOutput \/ AppendEntry \/ Mark \/ Crash
  \/ ResumeInline \/ ResumeTrigger \/ ResumeOutput

JobNext ==
  \/ BackfillTrigger \/ BackfillInstance \/ BackfillOutput \/ BackfillOutputRow \/ BackfillError
  \/ BackfillErrorRow \/ MigrateDetail \/ ReplaceDetail \/ AppendLedger \/ JobEnds \/ Reseal

Next == RunNext \/ JobNext \/ Upgrade \/ TurnOn
Spec == Init /\ [][Next]_vars

-----------------------------------------------------------------------------
(* Properties.                                                             *)

TypeOK ==
  /\ run \in {"new", "trigger", "step", "save", "audit", "append", "mark", "paused", "dead",
              "rehydrate", "resumed", "aborted"}
  /\ job \in {"idle", "instance", "output", "outputrow", "error", "errorrow", "replace", "ledger",
              "conflict"}
  /\ build \in Versions /\ flip \in BOOLEAN /\ key \in BOOLEAN /\ missed \subseteq Assets

\* A copy a table holds of an asset: its whole raw, or the vault has that;
\* an empty document has nothing to lose, and no vault object.
Recoverable(a, copy) ==
  raw[a] = {} \/ copy \in {None, Whole(raw[a])} \/ (vault[a] # None /\ vault[a].c = Whole(raw[a]))

\* "A row projected before its raw is safely stored is a row whose raw is
\* gone": whatever the builds, the flip, the jobs and the crashes, a table
\* that no longer holds the raw of an asset has it in the vault.  The one
\* exception is the code's: run() creates the projected instance before the
\* put of its trigger, so a fault in between loses that one.
RawIsRecoverable ==
  /\ \A a \in Assets \ {"trigger"} : row[a] # None => Recoverable(a, row[a].c)
  /\ Recoverable("output", context) \/ row["output"].c = Whole(raw["output"])
  /\ row["trigger"] # None =>
       Recoverable("trigger", row["trigger"].c) \/ run = "trigger" \/ "trigger" \in missed

\* A resumption under the flip never runs on a projection: what it restores
\* is the raw the run produced, or it fails closed.  It asks the stamp of the
\* attempt's row, so this is promised only where the backfill of the context
\* was not cut off before it reached that row (NeverOnProjected), and for a
\* lost trigger until a stricter build's backfill vaults what is left of it.
ResumesOnRaw ==
  run \in {"rehydrate", "resumed"} /\ flip =>
    /\ got.trigger \in {None, Whole(raw["trigger"])} \/ ("trigger" \in missed /\ vault["trigger"] # None)
    /\ got.output \in {None, Whole(raw["output"])} \/ row["output"].stamp = 0

\* executor.py:2022-2023, _rehydrate_context "fails closed (RawTraceUnavailable)
\* rather than resuming on projected data".
NeverOnProjected ==
  run = "resumed" /\ flip => \A a \in {"trigger", "output"} : got[a] = None \/ ~got[a].cut

\* docs/EXECUTION_SEMANTICS.md:188-192, "context.steps[step_id] holds that
\* output, and already_done counts a step as done iff it has any COMPLETED
\* row": a resumption that skips the completed step has its output.
CompletedOutputIsInContext == run = "resumed" /\ row["output"] # None => got.output # None
=============================================================================
