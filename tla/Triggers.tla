------------------------------- MODULE Triggers -------------------------------
(* The process around the engine: its boot (main.py lifespan), the sweep of   *)
(* what the last process left running (recovery.py), the orchestrator that    *)
(* loads the definitions and starts their triggers (orchestrator.py), and the *)
(* schedule, webhook and file triggers with the runs they fire.  The email    *)
(* trigger is the module GmailPoll; a run is its instance row's state.        *)
EXTENDS Naturals, Sequences, FiniteSets, SequencesExt

CONSTANTS
  Files,      \* the definition files in their sorted order: what each one declares
  Production, \* AUTH_MODE is not dev
  MaxRuns, MaxEvents, MaxBoots, MaxFaults

VARIABLES
  phase,      \* where the process is in its life
  boot,       \* which process this is
  next,       \* the file the orchestrator is at
  stored,     \* the definitions saved in the repository
  started,    \* the orchestrator's list of started triggers
  registry,   \* the webhook registry: trigger id -> file
  runs,       \* the instances, in their order of creation
  busy,       \* scheduled file -> the run its loop is awaiting, or 0
  due,        \* file events dispatched to the loop and not yet begun
  posts,      \* webhook requests awaiting their secret
  events, faults,
  unswept     \* runs whose sweep failed before the instance row was written
vars == <<phase, boot, next, stored, started, registry, runs, busy, due, posts, events, faults, unswept>>

Indexes == DOMAIN Files
Kind(d) == Files[d].kind
IsRunning(i) == runs[i].state = "running"
Alive   == phase \in {"sweeping", "starting", "up", "stopping", "stopped"}
Serving == phase \in {"up"}

Init ==
  /\ phase = "down" /\ boot = 0 /\ next = 1
  /\ stored = {} /\ started = <<>> /\ registry = [t \in {Files[d].id : d \in Indexes} |-> 0]
  /\ runs = <<>> /\ busy = [d \in Indexes |-> 0] /\ due = {} /\ posts = {}
  /\ events = 0 /\ faults = 0 /\ unswept = {}

Fault == faults < MaxFaults /\ faults' = faults + 1

-----------------------------------------------------------------------------
\* Mutant of Boot: the triggers start before the sweep has run.
MutBoot ==
  /\ phase = "down" /\ boot < MaxBoots
  /\ phase' = "starting" /\ boot' = boot + 1 /\ next' = 1
  /\ UNCHANGED <<stored, started, registry, runs, busy, due, posts, events, faults, unswept>>

(* A process starts.                                                          *)
Boot ==
  /\ phase = "down" /\ boot < MaxBoots
  /\ phase' = "sweeping" /\ boot' = boot + 1 /\ next' = 1
  /\ UNCHANGED <<stored, started, registry, runs, busy, due, posts, events, faults, unswept>>

(* sweep_interrupted_instances: each instance that is still running has its   *)
(* step rows cancelled, is paused, and is audited; one that fails on the way  *)
(* is passed over and the sweep goes on, and it never keeps the boot back.    *)
Sweep ==
  /\ phase = "sweeping"
  /\ \E i \in DOMAIN runs :
       /\ IsRunning(i) /\ i \notin unswept
       /\ \/ /\ runs' = [runs EXCEPT ![i].state = "paused", ![i].by = "sweep"]
             /\ UNCHANGED <<faults, unswept>>
          \/ Fault /\ unswept' = unswept \cup {i} /\ UNCHANGED runs
  /\ UNCHANGED <<phase, boot, next, stored, started, registry, busy, due, posts, events>>
Swept ==
  /\ phase = "sweeping" /\ \A i \in DOMAIN runs : IsRunning(i) => i \in unswept
  /\ phase' = "starting"
  /\ UNCHANGED <<boot, next, stored, started, registry, runs, busy, due, posts, events, faults, unswept>>

\* Mutant of Makes: an unsigned webhook is served in production.
MutMakes(d) == Kind(d) \in {"schedule", "webhook", "file_watch"}

(* _make_trigger: what a definition's trigger comes to; nothing for a manual  *)
(* one, one it does not know, and an unsigned webhook in production.          *)
Makes(d) ==
  /\ Kind(d) \in {"schedule", "webhook", "file_watch"}
  /\ Kind(d) = "webhook" /\ Production => Files[d].secret

(* start, one file: parsed, saved, its trigger made and started; a file that  *)
(* does not parse, a trigger that cannot be made and one that cannot be       *)
(* started (a webhook whose id is taken) are passed over.                     *)
RegisterOne ==
  /\ phase = "starting" /\ next \in Indexes
  /\ next' = next + 1
  /\ stored' = IF Files[next].parses THEN stored \cup {next} ELSE stored
  /\ LET starts == /\ Files[next].parses /\ Makes(next)
                   /\ Kind(next) = "webhook" => registry[Files[next].id] = 0
     IN /\ started' = IF starts THEN Append(started, next) ELSE started
        /\ registry' = IF starts /\ Kind(next) = "webhook"
                       THEN [registry EXCEPT ![Files[next].id] = next] ELSE registry
  /\ UNCHANGED <<phase, boot, runs, busy, due, posts, events, faults, unswept>>
Started ==
  /\ phase = "starting" /\ next \notin Indexes
  /\ phase' = "up"
  /\ UNCHANGED <<boot, next, stored, started, registry, runs, busy, due, posts, events, faults, unswept>>

-----------------------------------------------------------------------------
(* The callback of a trigger: engine.run, and nothing it raises gets out.     *)
NewRun(d, event, signed) ==
  [of |-> d, event |-> event, boot |-> boot, state |-> "running", by |-> "engine", signed |-> signed]
HasRoom == Len(runs) < MaxRuns
IsStarted(d) == \E k \in DOMAIN started : started[k] = d
NextEvent == events < MaxEvents /\ events' = events + 1

\* Mutant of Fire: a run of the schedule starts beside the last one.
MutFire(d) ==
  /\ Alive /\ Kind(d) = "schedule" /\ IsStarted(d) /\ HasRoom /\ NextEvent
  /\ runs' = Append(runs, NewRun(d, events', TRUE))
  /\ busy' = [busy EXCEPT ![d] = Len(runs')]
  /\ UNCHANGED <<phase, boot, next, stored, started, registry, due, posts, faults, unswept>>

(* The schedule's loop fires when its time has come and awaits the run; the   *)
(* next time is computed after it.                                            *)
Fire(d) ==
  /\ Alive /\ Kind(d) = "schedule" /\ IsStarted(d) /\ busy[d] = 0 /\ HasRoom /\ NextEvent
  /\ runs' = Append(runs, NewRun(d, events', TRUE))
  /\ busy' = [busy EXCEPT ![d] = Len(runs')]
  /\ UNCHANGED <<phase, boot, next, stored, started, registry, due, posts, faults, unswept>>

(* A file appears: every watcher of its folder dispatches it to the loop from *)
(* its own thread; without a process, or before the watcher started, nobody   *)
(* sees it.  A dispatched event begins its run whenever the loop gets to it.  *)
FileCreated ==
  /\ NextEvent
  /\ due' = due \cup {[of |-> d, event |-> events'] :
               d \in {d \in Indexes : Alive /\ Kind(d) = "file_watch" /\ IsStarted(d)}}
  /\ UNCHANGED <<phase, boot, next, stored, started, registry, runs, busy, posts, faults, unswept>>
Invoke ==
  /\ Alive /\ HasRoom
  /\ \E e \in due : due' = due \ {e} /\ runs' = Append(runs, NewRun(e.of, e.event, TRUE))
  /\ UNCHANGED <<phase, boot, next, stored, started, registry, busy, posts, events, faults, unswept>>

(* fire_webhook: without a secret the callback is looked up and called at     *)
(* once; with one the secret is fetched first (a store without it is a 503),  *)
(* then the signature compared, then the callback looked up.                  *)
Post(id) ==
  /\ Serving /\ NextEvent
  /\ LET d == registry[id] IN
     /\ d # 0
     /\ \E signed \in BOOLEAN :
          IF Files[d].secret
          THEN posts' = posts \cup {[id |-> id, event |-> events', signed |-> signed]} /\ UNCHANGED runs
          ELSE HasRoom /\ runs' = Append(runs, NewRun(d, events', signed)) /\ UNCHANGED posts
  /\ UNCHANGED <<phase, boot, next, stored, started, registry, busy, due, faults, unswept>>

\* Mutant of Accepted: the signature is not looked at.
MutAccepted(p) == TRUE

Accepted(p) == p.signed

Verify ==
  /\ Alive /\ HasRoom
  /\ \E p \in posts :
       /\ posts' = posts \ {p}
       /\ \/ UNCHANGED runs                                   \* 503, 401 or 404
          \/ /\ Accepted(p) /\ registry[p.id] # 0
             /\ runs' = Append(runs, NewRun(registry[p.id], p.event, p.signed))
  /\ UNCHANGED <<phase, boot, next, stored, started, registry, busy, due, events, faults, unswept>>

(* A run ends; the loop that awaited it goes on.                              *)
Finish(i) ==
  /\ Alive /\ IsRunning(i) /\ runs[i].boot = boot
  /\ runs' = [runs EXCEPT ![i].state = "ended"]
  /\ busy' = [d \in Indexes |-> IF busy[d] = i THEN 0 ELSE busy[d]]
  /\ UNCHANGED <<phase, boot, next, stored, started, registry, due, posts, events, faults, unswept>>

-----------------------------------------------------------------------------
(* stop, one trigger after the other: a schedule's run that does not end      *)
(* within the wait is cancelled and pauses its instance; a webhook is taken   *)
(* out of the registry; a watcher is joined, what it dispatched stays.        *)
Stopping ==
  /\ phase = "up" /\ phase' = "stopping"
  /\ UNCHANGED <<boot, next, stored, started, registry, runs, busy, due, posts, events, faults, unswept>>
StopOne ==
  /\ phase = "stopping" /\ started # <<>>
  /\ LET d == Head(started) IN
     /\ started' = Tail(started)
     /\ registry' = IF Kind(d) = "webhook" THEN [registry EXCEPT ![Files[d].id] = 0] ELSE registry
     /\ runs' = IF busy[d] # 0 THEN [runs EXCEPT ![busy[d]].state = "paused", ![busy[d]].by = "stop"]
                ELSE runs
     /\ busy' = [busy EXCEPT ![d] = 0]
  /\ UNCHANGED <<phase, boot, next, stored, due, posts, events, faults, unswept>>
Stopped ==
  /\ phase = "stopping" /\ started = <<>>
  /\ phase' = "stopped"
  /\ UNCHANGED <<boot, next, stored, started, registry, runs, busy, due, posts, events, faults, unswept>>

(* The process goes: after its shutdown, the loop cancelling what is left     *)
(* (which pauses it, or is too late to), or at any moment.                    *)
Exit ==
  /\ \/ phase = "stopped" /\ UNCHANGED faults
     \/ Alive /\ Fault
  /\ phase' = "down" /\ started' = <<>> /\ due' = {} /\ posts' = {}
  /\ registry' = [t \in DOMAIN registry |-> 0] /\ busy' = [d \in Indexes |-> 0]
  /\ \E paused \in SUBSET {i \in DOMAIN runs : phase = "stopped" /\ IsRunning(i) /\ runs[i].boot = boot} :
       runs' = [i \in DOMAIN runs |-> IF i \in paused
                                      THEN [runs[i] EXCEPT !.state = "paused", !.by = "stop"] ELSE runs[i]]
  /\ unswept' = {}
  /\ UNCHANGED <<boot, next, stored, events>>

Next ==
  \/ Boot \/ Sweep \/ Swept \/ RegisterOne \/ Started \/ FileCreated \/ Invoke \/ Verify
  \/ Stopping \/ StopOne \/ Stopped \/ Exit
  \/ \E d \in Indexes : Fire(d)
  \/ \E id \in DOMAIN registry : Post(id)
  \/ \E i \in DOMAIN runs : Finish(i)

Spec == Init /\ [][Next]_vars

-----------------------------------------------------------------------------
(* Once a process has swept, every instance that says it is running is one   *)
(* this process drives, or one whose sweep failed; the sweep never takes one  *)
(* of this process's own; and a scheduled workflow never has two runs of its  *)
(* trigger going, not even across a restart.                                  *)
RunningMeansDriven ==
  /\ phase \in {"starting", "up", "stopping", "stopped"} =>
       \A i \in DOMAIN runs : IsRunning(i) => runs[i].boot = boot \/ i \in unswept
  /\ \A i \in DOMAIN runs : runs[i].by = "sweep" => runs[i].state = "paused" /\ runs[i].boot < boot
  /\ phase \notin {"down", "sweeping"} => \A d \in Indexes : Kind(d) = "schedule" =>
       Cardinality({i \in DOMAIN runs : runs[i].of = d /\ IsRunning(i) /\ i \notin unswept}) <= 1

(* A run answers one event of its own definition, once; a webhook with a     *)
(* secret runs only on a signed post, in production there is no other        *)
(* webhook, and of two definitions that claim one id only the first runs.    *)
RunsAreCalledFor ==
  /\ \A i, j \in DOMAIN runs : i # j => runs[i].event # runs[j].event \/ runs[i].of # runs[j].of
  /\ \A i \in DOMAIN runs : Kind(runs[i].of) = "webhook" =>
       /\ Files[runs[i].of].secret => runs[i].signed
       /\ Production => Files[runs[i].of].secret
       /\ \A d \in Indexes : Kind(d) = "webhook" /\ Files[d].parses /\ Makes(d) /\ Files[d].id = Files[runs[i].of].id
            => runs[i].of <= d
  /\ \A i \in DOMAIN runs : runs[i].of \in stored
=============================================================================
