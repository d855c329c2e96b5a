--------------------------- MODULE WorkflowEngine ---------------------------
(***************************************************************************)
(* One workflow instance, the engine coroutines that drive it, the API     *)
(* handlers that pause, kill, retry and resume it, and the crash and boot  *)
(* sweep of the process they run in.                                       *)
(*                                                                         *)
(*   backend/src/workflow_platform/engine/executor.py     run, resume,     *)
(*     _drive_inner, _dispatch_loop, _run_step_with_retry, _run_step_once  *)
(*   backend/src/workflow_platform/api/workflows.py       pause, resume,   *)
(*     retry, kill handlers                                                *)
(*   backend/src/workflow_platform/recovery.py            boot sweep       *)
(*                                                                         *)
(* The process is one asyncio loop: code between two awaits is one action, *)
(* and every await is a point where another coroutine can run.  A "drive"  *)
(* is one activation of run() or resume().  The database rows (inst,       *)
(* saved, rows) outlive the process; all that a drive holds does not.      *)
(***************************************************************************)
EXTENDS Naturals, Sequences, FiniteSets, FiniteSetsExt

CONSTANTS
  Steps,        \* step ids of the workflow definition
  Edges,        \* its edges, pairs <<source, target>>
  CondEdges,    \* the edges that carry a condition
  Outcomes,     \* what evaluating a condition may give, of AllOutcomes
  Retries,      \* Retries[s]: runtime.retries of step s
  Cost,         \* Cost[s]: the tokens an attempt of s spends
  TokenCap,     \* policies.max_total_tokens (budget_action pause or escalate)
  DryRun,       \* run() was called on the dry-run engine (MockWorld)
  Drives,       \* activations of run() / resume() that may be alive at once
  Clients,      \* API requests that may be in flight at once
  Faults,       \* which of AllFaults the environment may inject
  MaxResumes,   \* bound: resumptions of the instance
  MaxRequests,  \* bound: pause / kill / retry requests
  MaxStops,     \* bound: orderly shutdowns
  MaxCrashes    \* bound: hard kills of the process

\* timeout:   policies.timeout_seconds expires
\* store:     a write after the step has run raises (a durable vault write,
\*            the COMPLETED update, the step_started audit)
\* rehydrate: resume() raises between writing RUNNING and entering _drive
\* cut:       shutdown cancels a drive that is awaiting its cancelled tasks
AllFaults == {"timeout", "store", "rehydrate", "cut"}

\* "error" stands for a condition that raises on an edge with the default
\* on_error; one with on_error: inactive is "false".
AllOutcomes == {"true", "false", "error"}

ASSUME GraphAssumption ==
  /\ Steps # {} /\ Edges \subseteq Steps \X Steps /\ CondEdges \subseteq Edges
  \* validate_and_order() refuses a cyclic definition: every set of steps has
  \* a member that depends on no member of the set.
  /\ \A S \in SUBSET Steps :
       S # {} => \E s \in S : \A e \in Edges : e[2] = s => e[1] \notin S

ASSUME ParameterAssumption ==
  /\ Retries \in [Steps -> Nat] /\ Cost \in [Steps -> Nat] /\ TokenCap \in Nat
  /\ Outcomes \subseteq AllOutcomes /\ DryRun \in BOOLEAN /\ Drives # {} /\ Faults \subseteq AllFaults
  /\ MaxResumes \in Nat /\ MaxRequests \in Nat /\ MaxStops \in Nat /\ MaxCrashes \in Nat

VARIABLES
  \* --- the database
  inst,       \* workflow_instances.state
  saved,      \* workflow_instances.context: step outputs held, dry_run flag
  rows,       \* step_executions: rows[s] is the log of attempts of s
  \* --- the process
  proc,       \* "up", "stopping" (lifespan shutdown) or "down"
  req,        \* req[c]: an API handler between its read and its write
  \* --- drive d
  pc,         \* where the coroutine is
  verdict,    \* the state _mark_instance is about to write
  sandbox,    \* the engine is the dry-run one (MockWorld)
  ctx,        \* the keys of context.steps
  tokens,     \* context.total_tokens
  scheduled,  \* `scheduled` of _dispatch_loop
  task,       \* task[d][s]: the asyncio task of s in in_progress
  batch,      \* finished tasks still to be looked at
  evalQ,      \* edges out of the completed step, still to be evaluated
  skipQ,      \* edges out of skipped steps, still to be resolved
  resolved,   \* edges counted in incoming_resolved
  active,     \* edges counted in incoming_active
  \* --- fixed by the trigger, or counting towards a bound
  cond,       \* cond[e]: what the condition of e evaluates to
  resumes, requests, stops, crashes

store    == <<inst, saved, rows>>
edgeVars == <<scheduled, evalQ, skipQ, resolved, active>>
loopVars == <<verdict, sandbox, ctx, tokens, task, batch, edgeVars>>
bounds   == <<resumes, requests, stops, crashes>>
vars     == <<store, proc, req, pc, loopVars, cond, bounds>>

InstStates == {"RUNNING", "PAUSED", "COMPLETED", "FAILED", "KILLED"}
RowStates  == {"RUNNING", "COMPLETED", "FAILED", "CANCELLED", "SKIPPED"}
Places     == {"idle", "start", "loaded", "listing", "poll", "wait",
               "process", "cancel", "mark"}
InLoop     == {"poll", "wait", "process"}

Out(s) == {e \in Edges : e[1] = s}
In(s)  == {e \in Edges : e[2] = s}

-----------------------------------------------------------------------------
(* Rows of the attempt log.                                                *)

Attempt(n, st) == [attempt |-> n, state |-> st]

HasRow(s, states) == \E i \in DOMAIN rows[s] : rows[s][i].state \in states

\* The condition on a row in resume(): any COMPLETED or SKIPPED row will do.
Settled(s) == HasRow(s, {"COMPLETED", "SKIPPED"})

\* Mutant of AlreadyDone: resume() forgets the skipped steps.
MutAlreadyDone == {s \in Steps : HasRow(s, {"COMPLETED"})}

AlreadyDone == {s \in Steps : Settled(s)}

\* max((s.attempt for s in prior ...), default=0)
LastAttempt(s) == Max({0} \cup {rows[s][i].attempt : i \in DOMAIN rows[s]})

\* Every RUNNING row of the steps in S becomes CANCELLED.
CancelRows(S) ==
  [s \in Steps |-> [i \in DOMAIN rows[s] |->
     IF s \in S /\ rows[s][i].state = "RUNNING"
     THEN Attempt(rows[s][i].attempt, "CANCELLED") ELSE rows[s][i]]]

-----------------------------------------------------------------------------
(* Tasks.  A task is created by _schedule_or_skip, reads the attempts its  *)
(* step already has ("new"), writes a RUNNING row ("create"), runs the     *)
(* step ("run"), persists the output ("save") and ends.                    *)

Task(p, n, left, i) == [pc |-> p, attempt |-> n, left |-> left, row |-> i]
NoTask  == Task("none", 0, 0, 0)
NewTask == Task("new", 0, 0, 0)
TaskPlaces == {"none", "new", "create", "run", "save", "done", "failed"}

InProgress(d) == {s \in Steps : task[d][s].pc # "none"}
Finished(d)   == {s \in Steps : task[d][s].pc \in {"done", "failed"}}

At(d, p)   == pc[d] = p
Goto(d, p) == pc' = [pc EXCEPT ![d] = p]
SetTask(d, s, t) == task' = [task EXCEPT ![d][s] = t]
SetRow(s, i, st) == rows' = [rows EXCEPT ![s][i] = Attempt(rows[s][i].attempt, st)]

\* Leave the dispatch loop; _mark_instance will write st.
Abort(d, st) == Goto(d, "cancel") /\ verdict' = [verdict EXCEPT ![d] = st]

\* Leaving _dispatch_loop discards its frame: tasks, counters, queues.
LeaveLoop(d) ==
  /\ task' = [task EXCEPT ![d] = [s \in Steps |-> NoTask]]
  /\ batch' = [batch EXCEPT ![d] = {}]
  /\ scheduled' = [scheduled EXCEPT ![d] = {}]
  /\ evalQ' = [evalQ EXCEPT ![d] = {}] /\ skipQ' = [skipQ EXCEPT ![d] = {}]
  /\ resolved' = [resolved EXCEPT ![d] = {}] /\ active' = [active EXCEPT ![d] = {}]

\* The coroutine ends and its frame goes with it.
Return(d) ==
  /\ Goto(d, "idle")
  /\ verdict' = [verdict EXCEPT ![d] = "COMPLETED"]
  /\ ctx' = [ctx EXCEPT ![d] = {}] /\ tokens' = [tokens EXCEPT ![d] = 0]
  /\ LeaveLoop(d)
  /\ UNCHANGED sandbox

-----------------------------------------------------------------------------
Init ==
  /\ inst = "RUNNING" /\ saved = [steps |-> {}, dry |-> FALSE]
  /\ rows = [s \in Steps |-> << >>]
  /\ proc = "up"
  /\ req = [c \in Clients |-> [op |-> "none", saved |-> saved]]
  /\ \E d0 \in Drives : pc = [d \in Drives |-> IF d = d0 THEN "start" ELSE "idle"]
  /\ verdict = [d \in Drives |-> "COMPLETED"]
  /\ sandbox = [d \in Drives |-> DryRun]
  /\ ctx = [d \in Drives |-> {}]
  /\ tokens = [d \in Drives |-> 0]
  /\ task = [d \in Drives |-> [s \in Steps |-> NoTask]]
  /\ scheduled = [d \in Drives |-> {}] /\ batch = [d \in Drives |-> {}]
  /\ evalQ = [d \in Drives |-> {}] /\ skipQ = [d \in Drives |-> {}]
  /\ resolved = [d \in Drives |-> {}] /\ active = [d \in Drives |-> {}]
  /\ cond \in [Edges -> Outcomes \cup {"true"}]
  /\ \A e \in Edges \ CondEdges : cond[e] = "true"
  /\ resumes = 0 /\ requests = 0 /\ stops = 0 /\ crashes = 0

-----------------------------------------------------------------------------
(* Entering the loop.                                                      *)

\* _build_dag_state: the edges out of already-done steps count as resolved
\* and as active, whatever their conditions say.
DoneEdges(done) == {e \in Edges : e[1] \in done}

EnterLoop(d, done) ==
  LET known == DoneEdges(done)
      ready == {s \in Steps \ done : In(s) \subseteq known}
  IN /\ resolved' = [resolved EXCEPT ![d] = known]
     /\ active' = [active EXCEPT ![d] = known]
     /\ scheduled' = [scheduled EXCEPT ![d] = done \cup ready]
     /\ task' = [task EXCEPT ![d] = [s \in Steps |-> IF s \in ready THEN NewTask ELSE NoTask]]
     /\ batch' = [batch EXCEPT ![d] = {}]
     /\ evalQ' = [evalQ EXCEPT ![d] = {}] /\ skipQ' = [skipQ EXCEPT ![d] = {}]
     /\ tokens' = [tokens EXCEPT ![d] = 0]
     /\ verdict' = [verdict EXCEPT ![d] = "COMPLETED"]
     /\ Goto(d, IF ready = {} THEN "mark" ELSE "poll")

\* run(): the instance row was created RUNNING (Init).
Start(d) ==
  /\ At(d, "start")
  /\ EnterLoop(d, {})
  /\ UNCHANGED <<store, proc, req, sandbox, ctx, cond, bounds>>

\* resume(), first await: read the row, refuse a dry run, insist on PAUSED.
ResumeLoad(d) ==
  /\ proc = "up" /\ At(d, "idle") /\ resumes < MaxResumes
  /\ inst = "PAUSED" /\ ~saved.dry
  /\ ctx' = [ctx EXCEPT ![d] = saved.steps]
  /\ sandbox' = [sandbox EXCEPT ![d] = FALSE]
  /\ resumes' = resumes + 1
  /\ Goto(d, "loaded")
  /\ UNCHANGED <<store, proc, req, verdict, tokens, task, batch, edgeVars, cond,
                 requests, stops, crashes>>

\* resume(), second await: write the whole row back, RUNNING.
ResumeWrite(d) ==
  /\ At(d, "loaded")
  /\ inst' = "RUNNING"
  /\ saved' = [steps |-> ctx[d], dry |-> FALSE]
  /\ Goto(d, "listing")
  /\ UNCHANGED <<rows, proc, req, loopVars, cond, bounds>>

\* resume(): list the rows, drive what is not already done.
ResumeEnter(d) ==
  /\ At(d, "listing")
  /\ EnterLoop(d, AlreadyDone)
  /\ UNCHANGED <<store, proc, req, sandbox, ctx, cond, bounds>>

\* resume() raises before _drive (rehydration fails closed): nothing has
\* taken the row out of RUNNING again.
ResumeAborts(d) ==
  /\ "rehydrate" \in Faults /\ At(d, "listing")
  /\ Return(d)
  /\ UNCHANGED <<store, proc, req, cond, bounds>>

-----------------------------------------------------------------------------
(* The dispatch loop.                                                      *)

\* _maybe_pause: the only place where a drive reads the instance row again.
Poll(d) ==
  /\ At(d, "poll")
  /\ \/ inst \in {"PAUSED", "KILLED"} /\ Abort(d, inst)
     \/ inst \notin {"PAUSED", "KILLED"} /\ Goto(d, "wait") /\ UNCHANGED verdict
  /\ UNCHANGED <<store, proc, req, sandbox, ctx, tokens, task, batch, edgeVars, cond, bounds>>

\* asyncio.wait(FIRST_COMPLETED) returns every task that is done by then.
Collect(d) ==
  /\ At(d, "wait") /\ Finished(d) # {}
  /\ batch' = [batch EXCEPT ![d] = Finished(d)]
  /\ Goto(d, "process")
  /\ UNCHANGED <<store, proc, req, verdict, sandbox, ctx, tokens, task, edgeVars, cond, bounds>>

\* The loop has dealt with the edges of the task it looked at before.
EdgesDone(d) == evalQ[d] = {} /\ skipQ[d] = {}

OverBudget(d) == tokens[d] > TokenCap

\* Mutant of Examine: task.result() is never asked for, a failure is a success.
MutExamine(d, s) ==
  /\ At(d, "process") /\ EdgesDone(d) /\ s \in batch[d]
  /\ batch' = [batch EXCEPT ![d] = @ \ {s}]
  /\ SetTask(d, s, NoTask)
  /\ evalQ' = [evalQ EXCEPT ![d] = Out(s)]
  /\ UNCHANGED <<store, proc, req, pc, verdict, sandbox, ctx, tokens, scheduled, skipQ, resolved,
                 active, cond, bounds>>

\* del in_progress[sid]; task.result(): a failure leaves the loop at once, a
\* budget breach (_check_budget) leaves it before the edges are looked at.
Examine(d, s) ==
  /\ At(d, "process") /\ EdgesDone(d) /\ s \in batch[d]
  /\ batch' = [batch EXCEPT ![d] = @ \ {s}]
  /\ SetTask(d, s, NoTask)
  /\ \/ task[d][s].pc = "failed" /\ Abort(d, "FAILED") /\ UNCHANGED evalQ
     \/ /\ task[d][s].pc = "done" /\ OverBudget(d)
        /\ Abort(d, "PAUSED") /\ UNCHANGED evalQ
     \/ /\ task[d][s].pc = "done" /\ ~OverBudget(d)
        /\ evalQ' = [evalQ EXCEPT ![d] = Out(s)]
        /\ UNCHANGED <<pc, verdict>>
  /\ UNCHANGED <<store, proc, req, sandbox, ctx, tokens, scheduled, skipQ, resolved, active,
                 cond, bounds>>

\* Mutants of ScheduleOrSkip: the first edge to arrive decides; one closed
\* edge is enough to skip.
MutScheduleEarly(d, s, res, act, queue) ==
  IF s \in scheduled[d]
  THEN skipQ' = [skipQ EXCEPT ![d] = queue] /\ UNCHANGED <<rows, scheduled, task>>
  ELSE /\ scheduled' = [scheduled EXCEPT ![d] = @ \cup {s}]
       /\ SetTask(d, s, NewTask)
       /\ skipQ' = [skipQ EXCEPT ![d] = queue]
       /\ UNCHANGED rows

\* Mutant of ScheduleOrSkip: an active edge is not enough, every edge must be.
MutSkipEagerly(d, s, res, act, queue) ==
  IF ~(In(s) \subseteq res) \/ s \in scheduled[d]
  THEN skipQ' = [skipQ EXCEPT ![d] = queue] /\ UNCHANGED <<rows, scheduled, task>>
  ELSE /\ scheduled' = [scheduled EXCEPT ![d] = @ \cup {s}]
       /\ \/ /\ ~(In(s) \subseteq act)
             /\ rows' = [rows EXCEPT ![s] = Append(@, Attempt(1, "SKIPPED"))]
             /\ skipQ' = [skipQ EXCEPT ![d] = queue \cup Out(s)]
             /\ UNCHANGED task
          \/ /\ In(s) \subseteq act
             /\ SetTask(d, s, NewTask)
             /\ skipQ' = [skipQ EXCEPT ![d] = queue]
             /\ UNCHANGED rows

\* _schedule_or_skip for the target s of an edge, once res holds every
\* resolved edge and act every active one.  A skip records a SKIPPED row
\* (attempt 1) and queues the edges out of s.
ScheduleOrSkip(d, s, res, act, queue) ==
  IF ~(In(s) \subseteq res) \/ s \in scheduled[d]
  THEN /\ skipQ' = [skipQ EXCEPT ![d] = queue]
       /\ UNCHANGED <<rows, scheduled, task>>
  ELSE /\ scheduled' = [scheduled EXCEPT ![d] = @ \cup {s}]
       /\ \/ /\ In(s) \cap act = {}
             /\ rows' = [rows EXCEPT ![s] = Append(@, Attempt(1, "SKIPPED"))]
             /\ skipQ' = [skipQ EXCEPT ![d] = queue \cup Out(s)]
             /\ UNCHANGED task
          \/ /\ In(s) \cap act # {}
             /\ SetTask(d, s, NewTask)
             /\ skipQ' = [skipQ EXCEPT ![d] = queue]
             /\ UNCHANGED rows

\* Mutant of EvalEdge: incoming_active counts every resolved edge.
MutEvalEdge(d, e) ==
  /\ At(d, "process") /\ skipQ[d] = {} /\ e \in evalQ[d]
  /\ evalQ' = [evalQ EXCEPT ![d] = @ \ {e}]
  /\ resolved' = [resolved EXCEPT ![d] = @ \cup {e}]
  /\ active' = [active EXCEPT ![d] = @ \cup {e}]
  /\ ScheduleOrSkip(d, e[2], resolved[d] \cup {e}, active[d] \cup {e}, {})
  /\ UNCHANGED <<inst, saved, proc, req, pc, verdict, sandbox, ctx, tokens, batch, cond, bounds>>

\* One edge out of the completed step.  An evaluation error with the default
\* on_error fails the instance.
EvalEdge(d, e) ==
  /\ At(d, "process") /\ skipQ[d] = {} /\ e \in evalQ[d]
  /\ evalQ' = [evalQ EXCEPT ![d] = @ \ {e}]
  /\ \/ /\ cond[e] = "error" /\ Abort(d, "FAILED")
        /\ UNCHANGED <<rows, scheduled, task, skipQ, resolved, active>>
     \/ /\ cond[e] # "error"
        /\ LET res == resolved[d] \cup {e}
               act == IF cond[e] = "true" THEN active[d] \cup {e} ELSE active[d]
           IN /\ resolved' = [resolved EXCEPT ![d] = res]
              /\ active' = [active EXCEPT ![d] = act]
              /\ ScheduleOrSkip(d, e[2], res, act, {})
        /\ UNCHANGED <<pc, verdict>>
  /\ UNCHANGED <<inst, saved, proc, req, sandbox, ctx, tokens, batch, cond, bounds>>

\* One edge out of a skipped step: resolved, never active.
SkipEdge(d, e) ==
  /\ At(d, "process") /\ e \in skipQ[d]
  /\ LET res == resolved[d] \cup {e}
     IN /\ resolved' = [resolved EXCEPT ![d] = res]
        /\ ScheduleOrSkip(d, e[2], res, active[d], skipQ[d] \ {e})
  /\ UNCHANGED <<inst, saved, proc, req, pc, verdict, sandbox, ctx, tokens, batch, evalQ, active,
                 cond, bounds>>

\* Mutant of NextTurn: the loop does not notice that nothing is in progress.
MutNextTurn(d) ==
  /\ At(d, "process") /\ EdgesDone(d) /\ batch[d] = {}
  /\ Goto(d, "poll")
  /\ UNCHANGED <<store, proc, req, loopVars, cond, bounds>>

\* Next turn of `while in_progress`; with nothing in progress the run is over.
NextTurn(d) ==
  /\ At(d, "process") /\ EdgesDone(d) /\ batch[d] = {}
  /\ \/ InProgress(d) # {} /\ Goto(d, "poll") /\ UNCHANGED <<task, batch, edgeVars>>
     \/ InProgress(d) = {} /\ Goto(d, "mark") /\ LeaveLoop(d)
  /\ UNCHANGED <<store, proc, req, verdict, sandbox, ctx, tokens, cond, bounds>>

\* Mutant of CancelPending: the tasks are cancelled, their rows are not.
MutCancelPending(d) ==
  /\ At(d, "cancel")
  /\ LeaveLoop(d)
  /\ Goto(d, "mark")
  /\ UNCHANGED <<store, proc, req, verdict, sandbox, ctx, tokens, cond, bounds>>

\* _cancel_pending: cancel the tasks in progress, await them, mark the
\* RUNNING rows of their steps (whoever wrote them) CANCELLED.
CancelPending(d) ==
  /\ At(d, "cancel")
  /\ rows' = CancelRows(InProgress(d))
  /\ LeaveLoop(d)
  /\ Goto(d, "mark")
  /\ UNCHANGED <<inst, saved, proc, req, verdict, sandbox, ctx, tokens, cond, bounds>>

\* _mark_instance: state and context are written blindly over the row.
Mark(d) ==
  /\ At(d, "mark")
  /\ inst' = verdict[d]
  /\ saved' = [steps |-> ctx[d], dry |-> sandbox[d]]
  /\ Return(d)
  /\ UNCHANGED <<rows, proc, req, cond, bounds>>

-----------------------------------------------------------------------------
(* Step tasks: _run_step_with_retry and _run_step_once.                    *)

TaskAt(d, s, p) == task[d][s].pc = p

\* base = the highest attempt this step already has.
AttemptBase(s) == LastAttempt(s)

TaskBegin(d, s) ==
  /\ TaskAt(d, s, "new")
  /\ SetTask(d, s, Task("create", AttemptBase(s) + 1, Retries[s], 0))
  /\ UNCHANGED <<store, proc, req, pc, verdict, sandbox, ctx, tokens, batch, edgeVars,
                 cond, bounds>>

TaskCreate(d, s) ==
  /\ TaskAt(d, s, "create")
  /\ rows' = [rows EXCEPT ![s] = Append(@, Attempt(task[d][s].attempt, "RUNNING"))]
  /\ SetTask(d, s, Task("run", task[d][s].attempt, task[d][s].left, Len(rows[s]) + 1))
  /\ UNCHANGED <<inst, saved, proc, req, pc, verdict, sandbox, ctx, tokens, batch, edgeVars,
                 cond, bounds>>

\* The step ran: its output is in context.steps before anything is persisted.
TaskRan(d, s) ==
  /\ TaskAt(d, s, "run")
  /\ ctx' = [ctx EXCEPT ![d] = @ \cup {s}]
  /\ tokens' = [tokens EXCEPT ![d] = @ + Cost[s]]
  /\ SetTask(d, s, Task("save", task[d][s].attempt, task[d][s].left, task[d][s].row))
  /\ UNCHANGED <<store, proc, req, pc, verdict, sandbox, batch, edgeVars, cond, bounds>>

TaskSave(d, s) ==
  /\ TaskAt(d, s, "save")
  /\ SetRow(s, task[d][s].row, "COMPLETED")
  /\ SetTask(d, s, Task("done", 0, 0, 0))
  /\ UNCHANGED <<inst, saved, proc, req, pc, verdict, sandbox, ctx, tokens, batch, edgeVars,
                 cond, bounds>>

\* The step failed (or timed out).  A StepFailure with attempts left is
\* retried under the next number; a non-retryable failure, an unexpected
\* exception or the last attempt ends the task.  Only a postcondition failure
\* has spent tokens.
TaskFailed(d, s) ==
  /\ TaskAt(d, s, "run")
  /\ SetRow(s, task[d][s].row, "FAILED")
  /\ \E spent \in {0, Cost[s]} : tokens' = [tokens EXCEPT ![d] = @ + spent]
  /\ \/ /\ task[d][s].left > 0
        /\ SetTask(d, s, Task("create", task[d][s].attempt + 1, task[d][s].left - 1, 0))
     \/ SetTask(d, s, Task("failed", 0, 0, 0))
  /\ UNCHANGED <<inst, saved, proc, req, pc, verdict, sandbox, ctx, batch, edgeVars,
                 cond, bounds>>

\* A write outside _run_step_once's try block raises: the row keeps RUNNING.
TaskStoreFails(d, s) ==
  /\ "store" \in Faults /\ task[d][s].pc \in {"run", "save"}
  /\ SetTask(d, s, Task("failed", 0, 0, 0))
  /\ UNCHANGED <<store, proc, req, pc, verdict, sandbox, ctx, tokens, batch, edgeVars,
                 cond, bounds>>

-----------------------------------------------------------------------------
(* API handlers.  Each reads the whole instance row, checks its state,     *)
(* awaits, and writes the whole row back with the new state: the context   *)
(* it writes is the one it read.  The resume handler writes nothing: it    *)
(* only starts engine.resume() in the background (ResumeLoad), which the   *)
(* retry handler does too once it has written PAUSED.                      *)

Ops == {"pause", "kill", "retry"}

Allows(op) ==
  CASE op = "pause" -> {"RUNNING"}
    [] op = "kill"  -> {"RUNNING", "PAUSED"}
    [] op = "retry" -> {"FAILED"}

Target(op) == IF op = "kill" THEN "KILLED" ELSE "PAUSED"

ApiRead(c, op) ==
  /\ proc = "up" /\ req[c].op = "none" /\ requests < MaxRequests
  /\ inst \in Allows(op)
  /\ op = "retry" => ~saved.dry
  /\ req' = [req EXCEPT ![c] = [op |-> op, saved |-> saved]]
  /\ requests' = requests + 1
  /\ UNCHANGED <<store, proc, pc, loopVars, cond, resumes, stops, crashes>>

ApiWrite(c) ==
  /\ req[c].op # "none"
  /\ inst' = Target(req[c].op)
  /\ saved' = req[c].saved
  /\ req' = [req EXCEPT ![c].op = "none"]
  /\ UNCHANGED <<rows, proc, pc, loopVars, cond, bounds>>

-----------------------------------------------------------------------------
(* The process.                                                            *)

\* policies.timeout_seconds cancels _dispatch_loop, which cancels its tasks.
Timeout(d) ==
  /\ "timeout" \in Faults /\ pc[d] \in InLoop
  /\ Abort(d, "FAILED")
  /\ UNCHANGED <<store, proc, req, sandbox, ctx, tokens, task, batch, edgeVars, cond, bounds>>

\* Orderly shutdown: every coroutine is cancelled at the await it is in.
Stop ==
  /\ proc = "up" /\ stops < MaxStops
  /\ proc' = "stopping" /\ stops' = stops + 1
  /\ UNCHANGED <<store, req, pc, loopVars, cond, resumes, requests, crashes>>

\* Inside the loop: caught by _drive_inner, the instance will be PAUSED.
Interrupt(d) ==
  /\ proc = "stopping" /\ pc[d] \in InLoop
  /\ Abort(d, "PAUSED")
  /\ UNCHANGED <<store, proc, req, sandbox, ctx, tokens, task, batch, edgeVars, cond, bounds>>

\* Outside the try of _drive_inner (before the loop, in the work that
\* precedes COMPLETED, or in a handler's own _mark_instance): nothing more
\* is written.
InterruptOutside(d) ==
  /\ proc = "stopping" /\ pc[d] \in {"start", "loaded", "listing", "mark"}
  /\ Return(d)
  /\ UNCHANGED <<store, proc, req, cond, bounds>>

\* Inside _cancel_pending, before the rows are marked.
InterruptCancel(d) ==
  /\ "cut" \in Faults /\ proc = "stopping" /\ At(d, "cancel")
  /\ LeaveLoop(d)
  /\ Goto(d, "mark")
  /\ verdict' = [verdict EXCEPT ![d] = "PAUSED"]
  /\ UNCHANGED <<store, proc, req, sandbox, ctx, tokens, cond, bounds>>

\* What dies with the process.
Forget ==
  /\ pc' = [d \in Drives |-> "idle"]
  /\ task' = [d \in Drives |-> [s \in Steps |-> NoTask]]
  /\ batch' = [d \in Drives |-> {}]
  /\ evalQ' = [d \in Drives |-> {}] /\ skipQ' = [d \in Drives |-> {}]
  /\ resolved' = [d \in Drives |-> {}] /\ active' = [d \in Drives |-> {}]
  /\ scheduled' = [d \in Drives |-> {}]
  /\ ctx' = [d \in Drives |-> {}] /\ tokens' = [d \in Drives |-> 0]
  /\ req' = [c \in Clients |-> [req[c] EXCEPT !.op = "none"]]
  /\ verdict' = [d \in Drives |-> "COMPLETED"]
  /\ UNCHANGED sandbox

Exit ==
  /\ proc = "stopping" /\ \A d \in Drives : pc[d] = "idle"
  /\ proc' = "down"
  /\ Forget
  /\ UNCHANGED <<store, cond, bounds>>

\* SIGKILL, OOM, power: no handler runs.
Crash ==
  /\ proc \in {"up", "stopping"} /\ crashes < MaxCrashes
  /\ proc' = "down" /\ crashes' = crashes + 1
  /\ Forget
  /\ UNCHANGED <<store, cond, resumes, requests, stops>>

\* Mutant of Boot: no sweep.
MutBoot ==
  /\ proc = "down" /\ proc' = "up"
  /\ UNCHANGED <<store, req, pc, loopVars, cond, bounds>>

\* sweep_interrupted_instances runs before anything else is served: an
\* instance still RUNNING has its RUNNING rows CANCELLED and becomes PAUSED.
Boot ==
  /\ proc = "down" /\ proc' = "up"
  /\ \/ /\ inst = "RUNNING"
        /\ rows' = CancelRows(Steps)
        /\ inst' = "PAUSED"
     \/ inst # "RUNNING" /\ UNCHANGED <<inst, rows>>
  /\ UNCHANGED <<saved, req, pc, loopVars, cond, bounds>>

-----------------------------------------------------------------------------
DriveStep(d) ==
  \/ Start(d) \/ ResumeWrite(d) \/ ResumeEnter(d)
  \/ Poll(d) \/ Collect(d) \/ NextTurn(d) \/ CancelPending(d) \/ Mark(d)
  \/ \E s \in Steps : Examine(d, s)
  \/ \E e \in Edges : EvalEdge(d, e) \/ SkipEdge(d, e)

TaskStep(d, s) ==
  TaskBegin(d, s) \/ TaskCreate(d, s) \/ TaskRan(d, s) \/ TaskSave(d, s) \/ TaskFailed(d, s)

Interruption(d) == Interrupt(d) \/ InterruptOutside(d) \/ InterruptCancel(d)

Next ==
  \/ \E d \in Drives :
       \/ DriveStep(d) \/ Interruption(d)
       \/ ResumeLoad(d) \/ ResumeAborts(d) \/ Timeout(d)
       \/ \E s \in Steps : TaskStep(d, s) \/ TaskStoreFails(d, s)
  \/ \E c \in Clients : ApiWrite(c) \/ \E op \in Ops : ApiRead(c, op)
  \/ Stop \/ Exit \/ Crash \/ Boot

Spec == Init /\ [][Next]_vars

\* The event loop runs every ready coroutine; a step ends, by itself or at
\* its timeout; the shutdown cancels what is left; the service manager
\* starts the process again.  Requests, resumptions and faults are not fair.
Fairness ==
  /\ \A d \in Drives : WF_vars(DriveStep(d)) /\ WF_vars(Interruption(d))
  /\ \A d \in Drives : \A s \in Steps : WF_vars(TaskStep(d, s))
  /\ \A c \in Clients : WF_vars(ApiWrite(c))
  /\ WF_vars(Exit) /\ WF_vars(Boot)

FairSpec == Spec /\ Fairness

-----------------------------------------------------------------------------
TaskType == [pc: TaskPlaces, attempt: Nat, left: Nat, row: Nat]
RowType  == [attempt: Nat \ {0}, state: RowStates]
SavedType == [steps: SUBSET Steps, dry: BOOLEAN]

TypeOK ==
  /\ inst \in InstStates /\ saved \in SavedType /\ rows \in [Steps -> Seq(RowType)]
  /\ proc \in {"up", "stopping", "down"}
  /\ req \in [Clients -> [op: Ops \cup {"none"}, saved: SavedType]]
  /\ pc \in [Drives -> Places] /\ verdict \in [Drives -> InstStates]
  /\ sandbox \in [Drives -> BOOLEAN] /\ ctx \in [Drives -> SUBSET Steps]
  /\ tokens \in [Drives -> Nat] /\ task \in [Drives -> [Steps -> TaskType]]
  /\ scheduled \in [Drives -> SUBSET Steps] /\ batch \in [Drives -> SUBSET Steps]
  /\ evalQ \in [Drives -> SUBSET Edges] /\ skipQ \in [Drives -> SUBSET Edges]
  /\ resolved \in [Drives -> SUBSET Edges] /\ active \in [Drives -> SUBSET Edges]
  /\ cond \in [Edges -> AllOutcomes]
  /\ resumes \in Nat /\ requests \in Nat /\ stops \in Nat /\ crashes \in Nat

\* No drive is alive in a process that is serving.
Quiet == proc = "up" /\ \A d \in Drives : pc[d] = "idle"

\* A step is attempted only after every step it depends on has completed or
\* been skipped, over every interleaving of loops, tasks, pauses, kills,
\* retries, resumptions, crashes and sweeps ("Steps run in dependency
\* order", EXECUTION_SEMANTICS section 3).
DependenciesSettled ==
  \A s \in Steps : rows[s] # << >> => \A e \in In(s) : Settled(e[1])

\* A step is skipped only if no way into it was open: each edge comes from a
\* skipped step or from a completed one whose condition is false.
SkipsAreSound ==
  \A s \in Steps : HasRow(s, {"SKIPPED"}) =>
    /\ In(s) # {}
    /\ \A e \in In(s) : \/ HasRow(e[1], {"SKIPPED"})
                        \/ HasRow(e[1], {"COMPLETED"}) /\ cond[e] = "false"

\* A run that was never resumed attempts a step only through an edge whose
\* condition holds and whose source completed.
FirstDriveFollowsConditions ==
  resumes = 0 =>
    \A s \in Steps : In(s) # {} /\ rows[s] # << >> /\ ~HasRow(s, {"SKIPPED"}) =>
      \E e \in In(s) : HasRow(e[1], {"COMPLETED"}) /\ cond[e] = "true"

\* COMPLETED is written only when every step has completed or been skipped.
CompletedMeansSettled == inst = "COMPLETED" => \A s \in Steps : Settled(s)

\* A row that says how an attempt ended is never rewritten, by whichever
\* drive, cancellation or sweep: COMPLETED, FAILED and SKIPPED stand.
FinishedRowsStand ==
  [][\A s \in Steps : \A i \in DOMAIN rows[s] :
       rows[s][i].state \in {"COMPLETED", "FAILED", "SKIPPED"} =>
         i \in DOMAIN rows'[s] /\ rows'[s][i].state = rows[s][i].state]_rows

\* When nobody drives the instance any more, a serving process does not hold
\* it in RUNNING, and (no crash having happened) no attempt of it is left
\* RUNNING: pause, kill, timeout, sibling failure, shutdown and the boot sweep
\* account between them for everything they interrupt.
NothingStranded ==
  Quiet => /\ inst # "RUNNING"
           /\ crashes = 0 => \A s \in Steps : ~HasRow(s, {"RUNNING"})

\* "KILLED is terminal and not resumable."
KilledIsTerminal == [][inst = "KILLED" => inst' = "KILLED"]_inst

\* A step whose incoming conditions are all false is never attempted.
ConditionsDecide ==
  \A s \in Steps : In(s) # {} /\ HasRow(s, {"RUNNING", "COMPLETED", "FAILED", "CANCELLED"}) =>
    \E e \in In(s) : HasRow(e[1], {"COMPLETED"}) /\ cond[e] = "true"

\* "Attempt N+1's row is created only after attempt N reached a terminal
\* state": two attempts of a step are never RUNNING together.
OneAttemptAtATime ==
  \A s \in Steps : Cardinality({i \in DOMAIN rows[s] : rows[s][i].state = "RUNNING"}) <= 1

\* Every drive ends, whatever fails, is requested or is shut down.
DrivesEnd == \A d \in Drives : pc[d] # "idle" ~> pc[d] = "idle"

\* An instance whose steps are being dispatched leaves RUNNING: its drive
\* says how it ended, or the boot sweep says it was interrupted.
DrivenRunSettles == \A d \in Drives : pc[d] \in InLoop ~> inst # "RUNNING"

Log == INSTANCE AttemptLog WITH
  Steps <- Steps, Edges <- Edges, inst <- inst, rows <- rows, cond <- cond

\* The rows and the instance state behave as the immutable-attempt log.
ImplementsAttemptLog == Log!LogSpec
=============================================================================
