---------------------------- MODULE WorkflowAdmin ----------------------------
(***************************************************************************)
(* The endpoints that write workflow definitions and instances              *)
(* (api/workflows.py): create, scaffold, import and delete a workflow, run  *)
(* it, once, in a batch or dry, pause, resume, retry, fork, kill and delete *)
(* its instances; and the repositories under them (postgres.py).            *)
(*                                                                         *)
(* Each endpoint reads, decides on what it read, and writes the whole row   *)
(* back; between two awaits another endpoint, the engine or a crash comes   *)
(* in.  The engine itself is module WorkflowEngine: here it completes steps *)
(* and settles runs.                                                       *)
(***************************************************************************)
EXTENDS Naturals, FiniteSets

CONSTANTS
  Users,        \* who calls
  Home,         \* Home[u]: the user's organization
  Admins,       \* the platform's Administrators, unscoped
  OrgAdmins,    \* the Organization Administrators
  Shapes,       \* the definitions' graphs, among Bodies
  Names,        \* slugs a workflow may be given
  Clients,      \* the slots of the calls in flight at once
  MaxInstances, \* bound: instances ever created
  MaxCalls,     \* bound: calls ever made
  MaxCrashes    \* bound: crashes of the server

Orgs   == {Home[u] : u \in Users}
Steps  == {"a", "b", "c"}
Bodies == [chain |-> {<<"a", "b">>, <<"b", "c">>}, join |-> {<<"a", "c">>, <<"b", "c">>}]
Ids    == 1 .. MaxInstances
Minted == <<"wf", 1>>               \* the id a scaffold mints
WorkflowIds == (Names \X (1 .. 2)) \cup {Minted}    \* slug, slug-2

None     == [org |-> "none"]
Idle     == [pc |-> "idle"]
Terminal == {"COMPLETED", "FAILED", "KILLED"}

VARIABLES
  defs,     \* workflow_definitions: id -> None or [org, body]
  inst,     \* workflow_instances: id -> None or [org, wf, body, state, tag]
  done,     \* step_executions: id -> the steps with a COMPLETED row
  created,  \* instances ever created
  dry,      \* the instances a dry run made
  forks,    \* fork -> the step it was forked at, and the graph it was forked in
  drivers,  \* id -> the drives under way: "real", "dry", "fork"
  tasks,    \* background resumes: [id, body]
  calls,    \* client -> the call in flight
  audit,    \* the audit log: a set of [action, ids, by, bypass]
  changed,  \* history: [id, org, by] for each instance changed, forked or deleted
  ncalls, crashes

vars == <<defs, inst, done, created, dry, forks, drivers, tasks, calls, audit, changed, ncalls, crashes>>

Init ==
  /\ defs \in {f \in [WorkflowIds -> {None} \cup [org: Orgs, body: Shapes]] :
                \A w \in WorkflowIds : w[2] # 1 \/ w = Minted => f[w] = None}
  /\ inst = [i \in Ids |-> None] /\ done = [i \in Ids |-> {}]
  /\ created = 0 /\ dry = {} /\ forks = <<>>
  /\ drivers = [i \in Ids |-> {}] /\ tasks = {}
  /\ calls = [c \in Clients |-> Idle]
  /\ audit = {} /\ changed = {} /\ ncalls = 0 /\ crashes = 0

-----------------------------------------------------------------------------
(* Scope and record.                                                       *)

IsAdmin(u)     == u \in Admins
InScope(u, o)  == IsAdmin(u) \/ Home[u] = o
Bypass(u, o)   == IsAdmin(u) /\ Home[u] # o
Exists(i)      == inst[i] # None
VisibleInst(u, i) == Exists(i) /\ InScope(u, inst[i].org)
VisibleDef(u, w)  == defs[w] # None => InScope(u, defs[w].org)

Entry(action, ids, u, bypass) == [action |-> action, ids |-> ids, by |-> u, bypass |-> bypass]
\* Mutant of NoteBypass: the note is written for one's own organization.
MutNoteBypass(u, i, action) ==
  audit' = audit \cup (IF Bypass(u, inst[i].org) THEN {} ELSE {Entry(action, {i}, u, TRUE)})

\* An Administrator reaching into another organization leaves an entry.
NoteBypass(u, i, action) ==
  audit' = audit \cup (IF Bypass(u, inst[i].org) THEN {Entry(action, {i}, u, TRUE)} ELSE {})

AuditAdmin(u, action, ids, bypass) == audit' = audit \cup {Entry(action, ids, u, bypass)}
Did(u, ids) == changed' = changed \cup {[id |-> i, org |-> inst[i].org, by |-> u] : i \in ids}

Accept(c)      == /\ calls[c] = Idle /\ c = CHOOSE free \in Clients : calls[free] = Idle
                  /\ ncalls < MaxCalls /\ ncalls' = ncalls + 1
Goes(c, call)  == calls' = [calls EXCEPT ![c] = call]
Ends(c)        == Goes(c, Idle)

UniqueId(base) ==
  LET free == {n \in 1 .. 2 : defs[<<base, n>>] = None}
  IN <<base, CHOOSE n \in free : \A k \in free : n <= k>>

-----------------------------------------------------------------------------
(* Definitions.                                                            *)

\* The caller's organization, or the one an Administrator names.
Attributed(u, o) == o = Home[u] \/ IsAdmin(u)

\* The id is taken from the definitions listed.
Create(c, u, base, body, o) ==
  /\ Accept(c) /\ Attributed(u, o)
  /\ \E n \in 1 .. 2 : defs[<<base, n>>] = None
  /\ Goes(c, [pc |-> "save", wf |-> UniqueId(base), row |-> [org |-> o, body |-> body]])
  /\ UNCHANGED <<defs, inst, done, created, dry, forks, drivers, tasks, audit, changed, crashes>>

\* The id is minted, whatever the model called its draft.
Scaffold(c, u, body, o) ==
  /\ Accept(c) /\ Attributed(u, o) /\ defs[Minted] = None
  /\ Goes(c, [pc |-> "save", wf |-> Minted, row |-> [org |-> o, body |-> body]])
  /\ UNCHANGED <<defs, inst, done, created, dry, forks, drivers, tasks, audit, changed, crashes>>

\* definitions.save is an upsert, and takes the caller's organization along.
Save(c) ==
  /\ calls[c].pc = "save"
  /\ defs' = [defs EXCEPT ![calls[c].wf] = calls[c].row]
  /\ Ends(c)
  /\ UNCHANGED <<inst, done, created, dry, forks, drivers, tasks, audit, changed, ncalls, crashes>>

\* The id is the document's, whoever has it.
Import(c, u, w, body, o) ==
  /\ Accept(c) /\ Attributed(u, o)
  /\ Goes(c, [pc |-> "save", wf |-> w, row |-> [org |-> o, body |-> body]])
  /\ UNCHANGED <<defs, inst, done, created, dry, forks, drivers, tasks, audit, changed, crashes>>

History(w) == {i \in Ids : Exists(i) /\ inst[i].wf = w}

\* 409 when a run is live, or when there is history and no force.
DeleteWorkflow(c, u, w, force) ==
  /\ Accept(c) /\ u \in Admins \cup OrgAdmins
  /\ defs[w] # None /\ VisibleDef(u, w)
  /\ \A i \in History(w) : inst[i].state \in Terminal
  /\ History(w) = {} \/ force
  /\ Goes(c, [pc |-> "rows", by |-> u, wf |-> w, org |-> defs[w].org, todo |-> History(w),
              gone |-> {}, action |-> "workflow_deleted"])
  /\ UNCHANGED <<defs, inst, done, created, dry, forks, drivers, tasks, audit, changed, crashes>>

-----------------------------------------------------------------------------
(* Instances: runs.                                                        *)

\* run and run-batch: the definition is read once, for n rows.
Run(c, u, w, n) ==
  /\ Accept(c) /\ defs[w] # None /\ VisibleDef(u, w)
  /\ Goes(c, [pc |-> "launch", wf |-> w, body |-> defs[w].body, left |-> n, dry |-> FALSE])
  /\ UNCHANGED <<defs, inst, done, created, dry, forks, drivers, tasks, audit, changed, crashes>>

\* An engine of its own, with the outside world replaced by stubs.
DryRun(c, u, w) ==
  /\ Accept(c) /\ defs[w] # None /\ VisibleDef(u, w)
  /\ Goes(c, [pc |-> "launch", wf |-> w, body |-> defs[w].body, left |-> 1, dry |-> TRUE])
  /\ UNCHANGED <<defs, inst, done, created, dry, forks, drivers, tasks, audit, changed, crashes>>

\* A new row is RUNNING with no context: the dry_run tag is part of the
\* context, and the context is first written when the run settles.
NewInstance(o, w, body) == [org |-> o, wf |-> w, body |-> body, state |-> "RUNNING", tag |-> FALSE]

DefaultOrg == "default"
OrgOf(w)   == IF defs[w] = None THEN DefaultOrg ELSE defs[w].org

Launch(c) ==
  LET call == calls[c]
      i    == created + 1
  IN /\ call.pc = "launch" /\ created < MaxInstances
     /\ created' = i
     /\ inst' = [inst EXCEPT ![i] = NewInstance(OrgOf(call.wf), call.wf, call.body)]
     /\ drivers' = [drivers EXCEPT ![i] = {IF call.dry THEN "dry" ELSE "real"}]
     /\ dry' = IF call.dry THEN dry \cup {i} ELSE dry
     /\ Goes(c, IF call.left = 1 THEN Idle ELSE [call EXCEPT !.left = @ - 1])
     /\ UNCHANGED <<defs, done, forks, tasks, audit, changed, ncalls, crashes>>

-----------------------------------------------------------------------------
(* Instances: lifecycle.                                                   *)

\* What the endpoint asks of the row it read.
Allowed(op, row) ==
  CASE op = "pause"  -> row.state = "RUNNING"
    [] op = "resume" -> row.state = "PAUSED" /\ ~row.tag /\ defs[row.wf] # None
    [] op = "retry"  -> row.state = "FAILED" /\ ~row.tag /\ defs[row.wf] # None
    [] op = "fork"   -> ~row.tag /\ defs[row.wf] # None
    [] op = "kill"   -> row.state \notin Terminal
    [] op = "delete" -> row.state \in Terminal

\* get, note the bypass, check: refused is 400 and the note stays.
Lifecycle(c, u, op, i) ==
  /\ Accept(c) /\ VisibleInst(u, i)
  /\ IF op = "delete" THEN UNCHANGED audit ELSE NoteBypass(u, i, op)
  /\ Goes(c, IF Allowed(op, inst[i])
             THEN [pc |-> op, by |-> u, id |-> i, row |-> inst[i],
                   body |-> IF op \in {"resume", "retry", "fork"} THEN defs[inst[i].wf].body ELSE "none"]
             ELSE Idle)
  /\ UNCHANGED <<defs, inst, done, created, dry, forks, drivers, tasks, changed, crashes>>

\* instances.update writes back the row that was read, state changed; it
\* raises when the row is gone.
WriteBack(c, state) ==
  LET call == calls[c]
  IN IF Exists(call.id)
     THEN /\ inst' = [inst EXCEPT ![call.id] = [call.row EXCEPT !.state = state]]
          /\ Did(call.by, {call.id})
          /\ Goes(c, [pc |-> "audit", op |-> call.pc, by |-> call.by, id |-> call.id, body |-> call.body])
     ELSE Ends(c) /\ UNCHANGED <<inst, changed>>

Pause(c) ==
  /\ calls[c].pc = "pause" /\ WriteBack(c, "PAUSED")
  /\ UNCHANGED <<defs, done, created, dry, forks, drivers, tasks, audit, ncalls, crashes>>

Kill(c) ==
  /\ calls[c].pc = "kill" /\ WriteBack(c, "KILLED")
  /\ UNCHANGED <<defs, done, created, dry, forks, drivers, tasks, audit, ncalls, crashes>>

\* A FAILED run becomes PAUSED, and is resumed from there.
Retry(c) ==
  /\ calls[c].pc = "retry" /\ WriteBack(c, "PAUSED")
  /\ UNCHANGED <<defs, done, created, dry, forks, drivers, tasks, audit, ncalls, crashes>>

Audited(c) ==
  LET call == calls[c]
  IN /\ call.pc = "audit"
     /\ AuditAdmin(call.by, call.op, {call.id}, FALSE)
     /\ tasks' = IF call.op = "retry" THEN tasks \cup {[id |-> call.id, body |-> call.body]} ELSE tasks
     /\ Ends(c)
     /\ UNCHANGED <<defs, inst, done, created, dry, forks, drivers, changed, ncalls, crashes>>

Resume(c) ==
  /\ calls[c].pc = "resume"
  /\ tasks' = tasks \cup {[id |-> calls[c].id, body |-> calls[c].body]}
  /\ Ends(c)
  /\ UNCHANGED <<defs, inst, done, created, dry, forks, drivers, audit, changed, ncalls, crashes>>

\* engine.resume reads the row again, and refuses a tagged or a settled one.
ResumeTask(t) ==
  /\ t \in tasks /\ tasks' = tasks \ {t}
  /\ IF Exists(t.id) /\ ~inst[t.id].tag /\ inst[t.id].state = "PAUSED"
     THEN /\ inst' = [inst EXCEPT ![t.id].state = "RUNNING", ![t.id].body = t.body]
          /\ drivers' = [drivers EXCEPT ![t.id] = @ \cup {"real"}]
     ELSE UNCHANGED <<inst, drivers>>
  /\ UNCHANGED <<defs, done, created, dry, forks, calls, audit, changed, ncalls, crashes>>

-----------------------------------------------------------------------------
(* Instances: fork.                                                        *)

Preds(body, s) == {e[1] : e \in {x \in Bodies[body] : x[2] = s}}

\* Mutant of Ancestors: the direct predecessors only.
MutAncestors(body, s) == Preds(body, s)

\* The steps visited from s against the edges; three steps, so two rounds.
Ancestors(body, s) == Preds(body, s) \cup UNION {Preds(body, p) : p \in Preds(body, s)}

\* 400 when the source has no completed output for an ancestor.
Fork(c, s) ==
  LET call == calls[c]
      src  == call.id
      i    == created + 1
      ok   == Exists(src) /\ ~inst[src].tag /\ Ancestors(call.body, s) \subseteq done[src]
  IN /\ call.pc = "fork" /\ created < MaxInstances
     /\ IF ok
        THEN /\ created' = i
             /\ inst' = [inst EXCEPT ![i] = NewInstance(inst[src].org, inst[src].wf, call.body)]
             /\ forks' = [k \in DOMAIN forks \cup {i} |-> IF k = i THEN [at |-> s, body |-> call.body] ELSE forks[k]]
             /\ Did(call.by, {src})
             /\ Goes(c, [pc |-> "copy", id |-> i, todo |-> Ancestors(call.body, s)])
        ELSE Ends(c) /\ UNCHANGED <<created, inst, forks, changed>>
     /\ UNCHANGED <<defs, done, dry, drivers, tasks, audit, ncalls, crashes>>

\* One row for each preserved step, then the drive.  A row of an instance
\* that is gone breaks its foreign key, and the call fails.
Copy(c) ==
  LET call == calls[c]
  IN /\ call.pc = "copy"
     /\ IF ~Exists(call.id) THEN Ends(c) /\ UNCHANGED <<done, drivers>>
        ELSE IF call.todo = {}
        THEN /\ drivers' = [drivers EXCEPT ![call.id] = @ \cup {"fork"}]
             /\ Ends(c) /\ UNCHANGED done
        ELSE \E s \in call.todo :
               /\ done' = [done EXCEPT ![call.id] = @ \cup {s}]
               /\ Goes(c, [call EXCEPT !.todo = @ \ {s}])
               /\ UNCHANGED drivers
     /\ UNCHANGED <<defs, inst, created, dry, forks, tasks, audit, changed, ncalls, crashes>>

-----------------------------------------------------------------------------
(* Instances: deletion.  The step rows go first, then the instances.        *)

Delete(c) ==
  LET call == calls[c]
  IN /\ call.pc = "delete"
     /\ Goes(c, [pc |-> "rows", by |-> call.by, wf |-> call.row.wf, org |-> call.row.org,
                 todo |-> {call.id}, gone |-> {}, action |-> "instance_deleted"])
     /\ UNCHANGED <<defs, inst, done, created, dry, forks, drivers, tasks, audit, changed, ncalls, crashes>>

\* delete_by_states: the ids that match, in the caller's scope, then the delete.
DeleteBulk(c, u, states) ==
  /\ Accept(c)
  /\ Goes(c, [pc |-> "bulk", by |-> u,
              todo |-> {i \in Ids : Exists(i) /\ inst[i].state \in states /\ InScope(u, inst[i].org)}])
  /\ UNCHANGED <<defs, inst, done, created, dry, forks, drivers, tasks, audit, changed, crashes>>

Remove(c, ids) ==
  /\ inst' = [i \in Ids |-> IF i \in ids THEN None ELSE inst[i]]
  /\ done' = [i \in Ids |-> IF i \in ids THEN {} ELSE done[i]]    \* ON DELETE CASCADE
  /\ IF calls[c].pc = "instances" /\ calls[c].action = "workflow_deleted"
     THEN UNCHANGED changed    \* by the definition's organization, not by theirs
     ELSE Did(calls[c].by, {i \in ids : Exists(i)})

DeleteStates(c) ==
  /\ calls[c].pc = "bulk"
  /\ Remove(c, calls[c].todo)
  /\ Goes(c, [pc |-> "record", by |-> calls[c].by, wf |-> "none", org |-> Home[calls[c].by],
              todo |-> {}, gone |-> calls[c].todo, action |-> "instances_bulk_deleted"])
  /\ UNCHANGED <<defs, created, dry, forks, drivers, tasks, audit, ncalls, crashes>>

DeleteRows(c) ==
  /\ calls[c].pc = "rows"
  /\ done' = [i \in Ids |-> IF i \in calls[c].todo THEN {} ELSE done[i]]
  /\ Goes(c, [calls[c] EXCEPT !.pc = "instances"])
  /\ UNCHANGED <<defs, inst, created, dry, forks, drivers, tasks, audit, changed, ncalls, crashes>>

DeleteInstance(c) ==
  LET call == calls[c]
  IN /\ call.pc = "instances"
     /\ IF call.todo = {}
        THEN /\ Goes(c, [call EXCEPT !.pc = "definition"])
             /\ UNCHANGED <<inst, done, changed>>
        ELSE LET i == CHOOSE x \in call.todo : \A y \in call.todo : x <= y
             IN /\ Remove(c, {i})
                /\ Goes(c, [call EXCEPT !.todo = @ \ {i}, !.gone = @ \cup {i}])
     /\ UNCHANGED <<defs, created, dry, forks, drivers, tasks, audit, ncalls, crashes>>

DeleteDefinition(c) ==
  LET call == calls[c]
  IN /\ call.pc = "definition"
     /\ defs' = IF call.action = "workflow_deleted" THEN [defs EXCEPT ![call.wf] = None] ELSE defs
     /\ Goes(c, [call EXCEPT !.pc = "record"])
     /\ UNCHANGED <<inst, done, created, dry, forks, drivers, tasks, audit, changed, ncalls, crashes>>

Record(c) ==
  LET call == calls[c]
  IN /\ call.pc = "record"
     /\ AuditAdmin(call.by, call.action, call.gone, Bypass(call.by, call.org))
     /\ Ends(c)
     /\ UNCHANGED <<defs, inst, done, created, dry, forks, drivers, tasks, changed, ncalls, crashes>>

-----------------------------------------------------------------------------
(* The engine, and a crash.                                                *)

Closed(body, set) == \A s \in set : Preds(body, s) \subseteq set

\* The rows of the steps that completed; then _mark_instance: the state the
\* drive came to, or the one it found, and the context with the driving
\* engine's own dry_run.  On a row that is gone the update raises, and the
\* drive is over.
Settle(i, d) ==
  /\ d \in drivers[i] /\ drivers' = [drivers EXCEPT ![i] = @ \ {d}]
  /\ IF ~Exists(i) THEN UNCHANGED <<inst, done>>
     ELSE \E to \in IF inst[i].state = "RUNNING" THEN {"FAILED", "COMPLETED"} ELSE {inst[i].state},
             more \in {m \in SUBSET Steps : Closed(inst[i].body, m)} :
            /\ IF to = "COMPLETED" THEN more = Steps ELSE done[i] \subseteq more
            /\ done' = [done EXCEPT ![i] = more]
            /\ inst' = [inst EXCEPT ![i].state = to, ![i].tag = (d = "dry")]
  /\ UNCHANGED <<defs, created, dry, forks, tasks, calls, audit, changed, ncalls, crashes>>

\* The boot recovery sweep pauses what a dead process left RUNNING.
Crash ==
  /\ crashes < MaxCrashes /\ crashes' = crashes + 1
  /\ drivers' = [i \in Ids |-> {}] /\ tasks' = {} /\ calls' = [c \in Clients |-> Idle]
  /\ inst' = [i \in Ids |-> IF Exists(i) /\ inst[i].state = "RUNNING"
                            THEN [inst[i] EXCEPT !.state = "PAUSED"] ELSE inst[i]]
  /\ UNCHANGED <<defs, done, created, dry, forks, audit, changed, ncalls>>

Next ==
  \/ \E c \in Clients, u \in Users :
       \/ \E n \in Names, b \in Shapes, o \in Orgs : Create(c, u, n, b, o)
       \/ \E b \in Shapes, o \in Orgs : Scaffold(c, u, b, o)
       \/ \E w \in WorkflowIds, b \in Shapes, o \in Orgs : Import(c, u, w, b, o)
       \/ \E w \in WorkflowIds, f \in BOOLEAN : DeleteWorkflow(c, u, w, f)
       \/ \E w \in WorkflowIds, n \in 1 .. 2 : Run(c, u, w, n)
       \/ \E w \in WorkflowIds : DryRun(c, u, w)
       \/ \E i \in Ids, op \in {"pause", "resume", "retry", "fork", "kill", "delete"} : Lifecycle(c, u, op, i)
       \/ \E s \in {Terminal, {"FAILED"}} : DeleteBulk(c, u, s)
  \/ \E c \in Clients :
       \/ Save(c) \/ Launch(c) \/ Pause(c) \/ Kill(c) \/ Retry(c) \/ Audited(c) \/ Resume(c) \/ Copy(c) \/ Delete(c)
       \/ DeleteStates(c) \/ DeleteRows(c) \/ DeleteInstance(c) \/ DeleteDefinition(c) \/ Record(c)
       \/ \E s \in Steps : Fork(c, s)
  \/ \E t \in tasks : ResumeTask(t)
  \/ \E i \in Ids, d \in {"real", "dry", "fork"} : Settle(i, d)
  \/ Crash

Spec == Init /\ [][Next]_vars

-----------------------------------------------------------------------------
(* Properties.                                                             *)

\* "An Administrator acting outside their own org is an explicit, audited
\* bypass": whoever changed, forked or deleted an instance is of its
\* organization, or is an Administrator and the log says so, unless the call
\* has still to write its entry, or was bulk deletion, which writes none.
CrossOrgActsAreOnRecord ==
  \A x \in changed :
    InScope(x.by, x.org) /\
    (Home[x.by] # x.org /\ crashes = 0 =>
       \/ \E e \in audit : x.id \in e.ids /\ e.by = x.by
                           /\ (e.bypass \/ e.action = "instances_bulk_deleted")
       \/ \E c \in Clients : calls[c].pc \in {"rows", "instances", "definition", "record"}
                             /\ x.id \in calls[c].gone)

\* What was deleted can be told from the log: every instance that is gone is
\* named by an entry, or a deletion under way will name it.
DeletionsAreOnRecord ==
  crashes = 0 =>
    \A i \in 1 .. created : ~Exists(i) =>
      \/ \E e \in audit : i \in e.ids /\ e.action \in {"workflow_deleted", "instance_deleted",
                                                       "instances_bulk_deleted"}
      \/ \E c \in Clients : calls[c].pc \in {"instances", "definition", "record"} /\ i \in calls[c].gone

\* A fork drives with every step that its own step depended on in the graph it
\* was forked in, however remote, already done, whatever is saved, resumed or
\* settled meanwhile; but a deletion of the fork that is under way, its rows
\* gone and its instance not, may have taken them from under the drive.
BeingDeleted(i) == \E c \in Clients : calls[c].pc = "instances" /\ i \in calls[c].todo
Reaches(body, s, t) ==
  \/ <<s, t>> \in Bodies[body]
  \/ \E m \in Steps : <<s, m>> \in Bodies[body] /\ <<m, t>> \in Bodies[body]
ForksKeepTheirPast ==
  \A i \in DOMAIN forks :
    "fork" \in drivers[i] /\ Exists(i) =>
      \/ \A s \in Steps : Reaches(forks[i].body, s, forks[i].at) => s \in done[i]
      \/ BeingDeleted(i)

\* "A dry run is a probe": no engine but the one that sandboxed it drives it.
DryRunsStaySandboxed == \A i \in dry : drivers[i] \subseteq {"dry"}

\* "So the engine never has its rows deleted mid-run".
NeverDeletedMidRun ==
  [][\A i \in Ids : Exists(i) /\ inst[i].state \notin Terminal => inst'[i] # None]_vars
=============================================================================
