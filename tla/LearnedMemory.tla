----------------------------- MODULE LearnedMemory -----------------------------
(* The learned memory of workflows: the one service a process has           *)
(* (memory/learned.py), with its lock, its worker threads and the call      *)
(* adapter they share, the engine's use of it around a run (recall before a *)
(* step, observations after the last one, the correction a fork records),   *)
(* and the pages that list and show a namespace.  The store itself (the     *)
(* veracium library) is external: a set of facts.                           *)
EXTENDS Naturals, FiniteSets, Sequences

CONSTANTS
  Runs, Nobody,
  Org, Account,      \* of each run: the instance's org_id, the spec's user_id
  Renders,           \* of each run: what each observation renders to
  Source,            \* of each run: the run it forks, or Nobody
  Verdicts,          \* what the runs' "record" steps may come to: category, and whether the
                     \* first attempt was the one that recorded it
  Configured, Keyed, \* the service exists; the pseudonym key is set
  MaxFaults          \* cancellations, crashes and failed calls, together

VARIABLES
  run,     \* run -> its phase, observation, take and totals
  lock,    \* the holder of the service's asyncio.Lock, or Nobody
  adapter, \* the shared _BedrockComplete: its loop is set, its usage_records
  thread,  \* run -> its worker thread inside remember()
  store,   \* the facts
  judged,  \* the outcomes recorded against facts
  log,     \* the audit entries
  faults   \* how many so far, and whether one was a cancellation
vars == <<run, lock, adapter, thread, store, judged, log, faults>>

Orgs       == {Org[r] : r \in Runs}

\* Mutant of Namespace: the organisation is left out of the key.
MutNamespace(r) == <<"default", Account[r]>>

(* memory_namespace: the organisation is part of the key.                   *)
Namespace(r) == <<Org[r], Account[r]>>

(* normalize_entity, as subject_from_namespace uses it: an address loses its *)
(* case and its plus tag, so that one mailbox has one pseudonym, keyed over  *)
(* the organisation; anything else is a subject nobody can name.             *)
Subject(r) ==
  IF ~Account[r].address THEN [kind |-> "unknown", org |-> Org[r], ref |-> <<>>]
  ELSE [kind |-> "mailbox", org |-> Org[r],
        ref |-> IF Keyed THEN <<Account[r].mailbox, Org[r]>> ELSE <<>>]

FactsOf(ns) == {f \in store : f.ns = ns}
Entry(action, r, i, spend) ==
  [action |-> action, run |-> r, index |-> i, take |-> run[r].take, spend |-> spend,
   subject |-> Subject(r)]

Init ==
  /\ \E verdict \in Verdicts : run = [r \in Runs |->
       [phase |-> "driving", index |-> 0, take |-> 1, total |-> 0, recalled |-> {},
        category |-> verdict[r].category, first |-> verdict[r].first]]
  /\ lock = Nobody /\ adapter = [loop |-> FALSE, records |-> <<>>]
  /\ thread = [r \in Runs |-> "none"]
  /\ store = {} /\ judged = {} /\ log = {}
  /\ faults = [count |-> 0, cancelled |-> FALSE]

-----------------------------------------------------------------------------
(* The dispatch loop, up to its last step.  Before an agentic step           *)
(* _recall_learned_memory reads, under the lock; a failure is audited and    *)
(* the step goes on without memory.  A fork is of a finished run.            *)
Drive(r) ==
  /\ run[r].phase = "driving"
  /\ Source[r] # Nobody => run[Source[r]].phase \in {"corrected", "completed"}
  /\ LET driven == [run[r] EXCEPT !.phase = "next", !.index = 1] IN
     \/ /\ ~Configured
        /\ run' = [run EXCEPT ![r] = driven] /\ UNCHANGED <<log, faults>>
     \/ /\ Configured /\ lock = Nobody
        /\ run' = [run EXCEPT ![r] = [driven EXCEPT !.recalled = FactsOf(Namespace(r))]]
        /\ log' = log \cup {Entry("memory_recalled", r, 0, 0)} /\ UNCHANGED faults
     \/ /\ Configured /\ lock = Nobody /\ faults.count < MaxFaults
        /\ faults' = [faults EXCEPT !.count = @ + 1]
        /\ run' = [run EXCEPT ![r] = driven]
        /\ log' = log \cup {Entry("memory_recall_failed", r, 0, 0)}
  /\ UNCHANGED <<lock, adapter, thread, store, judged>>

(* _observe_learned_memory, one observation of the spec after the other: a   *)
(* skipped one is audited and passed.                                        *)
Skip(r) ==
  /\ run[r].phase = "next" /\ run[r].index <= Len(Renders[r])
  /\ IF ~Configured
     THEN /\ log' = log \cup {Entry("memory_observe_skipped", r, 0, 0)}
          /\ run' = [run EXCEPT ![r].index = Len(Renders[r]) + 1]
     ELSE /\ Renders[r][run[r].index] = "empty"
          /\ log' = log \cup {Entry("memory_observe_skipped", r, run[r].index, 0)}
          /\ run' = [run EXCEPT ![r].index = @ + 1]
  /\ UNCHANGED <<lock, adapter, thread, store, judged, faults>>

Asking(r) ==
  /\ Configured /\ run[r].phase = "next"
  /\ run[r].index <= Len(Renders[r]) /\ Renders[r][run[r].index] # "empty"

\* Mutant of Take: the calls of the last observation are still recorded.
MutTake(r) ==
  /\ Asking(r) /\ lock = Nobody
  /\ lock' = r /\ adapter' = [adapter EXCEPT !.loop = TRUE]
  /\ thread' = [thread EXCEPT ![r] = "started"]
  /\ run' = [run EXCEPT ![r].phase = "inside"]
  /\ UNCHANGED <<store, judged, log, faults>>

(* Another waits for the lock: observe takes it, sets the adapter up and     *)
(* starts the thread.                                                        *)
Take(r) ==
  /\ Asking(r) /\ lock = Nobody
  /\ lock' = r /\ adapter' = [loop |-> TRUE, records |-> <<>>]
  /\ thread' = [thread EXCEPT ![r] = "started"]
  /\ run' = [run EXCEPT ![r].phase = "inside"]
  /\ UNCHANGED <<store, judged, log, faults>>

(* The thread's one distillation call, through the adapter as it finds it:   *)
(* without a loop it raises.                                                 *)
Ask(r) ==
  /\ thread[r] = "started"
  /\ thread' = [thread EXCEPT ![r] = IF adapter.loop THEN "asked" ELSE "raised"]
  /\ UNCHANGED <<run, lock, adapter, store, judged, log, faults>>

(* The answer's usage is appended to whatever list the adapter has by then,  *)
(* and remember() goes on to write the facts.                                *)
Answered(r) ==
  /\ thread[r] = "asked"
  /\ \/ /\ adapter' = [adapter EXCEPT !.records = Append(@, r)]
        /\ store' = store \cup
             {[ns |-> Namespace(r), run |-> r, index |-> run[r].index, take |-> run[r].take]}
        /\ thread' = [thread EXCEPT ![r] = "stored"] /\ UNCHANGED faults
     \/ /\ faults.count < MaxFaults
        /\ faults' = [faults EXCEPT !.count = @ + 1]
        /\ thread' = [thread EXCEPT ![r] = "raised"] /\ UNCHANGED <<adapter, store>>
  /\ UNCHANGED <<run, lock, judged, log>>

(* observe returns or raises: the adapter is reset, the lock given back, the *)
(* spend added to the run and the result audited; a failure only audited.    *)
Settle(r) ==
  LET spend == Len(adapter.records) IN
  /\ run[r].phase = "inside" /\ thread[r] \in {"stored", "raised"}
  /\ adapter' = [adapter EXCEPT !.loop = FALSE] /\ lock' = Nobody
  /\ thread' = [thread EXCEPT ![r] = "none"]
  /\ IF thread[r] = "stored"
     THEN /\ log' = log \cup {Entry("memory_observed", r, run[r].index, spend)}
          /\ run' = [run EXCEPT ![r].phase = "next", ![r].index = @ + 1, ![r].total = @ + spend]
     ELSE /\ log' = log \cup {Entry("memory_observe_failed", r, run[r].index, 0)}
          /\ run' = [run EXCEPT ![r].phase = "next", ![r].index = @ + 1]
  /\ UNCHANGED <<store, judged, faults>>

(* The COMPLETED mark, once the observations are behind.                     *)
Complete(r) ==
  /\ run[r].phase = "next" /\ run[r].index > Len(Renders[r])
  /\ run' = [run EXCEPT ![r].phase = "completed"]
  /\ UNCHANGED <<lock, adapter, thread, store, judged, log, faults>>

\* Mutant of Correct: the fork corrects whether or not it disagrees.
MutCorrect(r) ==
  /\ run[r].phase = "completed" /\ Source[r] # Nobody /\ Configured /\ lock = Nobody
  /\ judged' = judged \cup {[fact |-> f, by |-> r, ref |-> Source[r], value |-> run[r].category] :
                              f \in FactsOf(Namespace(r))}
  /\ run' = [run EXCEPT ![r].phase = "corrected"]
  /\ UNCHANGED <<lock, adapter, thread, store, log, faults>>

(* _record_fork_correction: after a completed fork, the first row of the     *)
(* source's "record" step is compared with the fork's verdict; a different   *)
(* one marks the facts recalled now as corrected, under the source's id.     *)
Correct(r) ==
  /\ run[r].phase = "completed" /\ Source[r] # Nobody /\ Configured /\ lock = Nobody
  /\ LET source == run[Source[r]]
         differs == source.first /\ source.category # run[r].category
     IN judged' = judged \cup
          {[fact |-> f, by |-> r, ref |-> Source[r], value |-> run[r].category] :
             f \in IF differs THEN FactsOf(Namespace(r)) ELSE {}}
  /\ run' = [run EXCEPT ![r].phase = "corrected"]
  /\ UNCHANGED <<lock, adapter, thread, store, log, faults>>

(* A cancellation of the run while it observes: observe's finally resets the *)
(* adapter and the lock is given back, the thread goes on, and the mark that *)
(* the dispatch loop's own handler would have made is not made.              *)
Cancel(r) ==
  /\ Asking(r) \/ run[r].phase = "inside"
  /\ faults.count < MaxFaults
  /\ faults' = [count |-> faults.count + 1, cancelled |-> TRUE]
  /\ run' = [run EXCEPT ![r].phase = "stranded"]
  /\ IF run[r].phase = "inside"
     THEN adapter' = [adapter EXCEPT !.loop = FALSE] /\ lock' = Nobody
     ELSE UNCHANGED <<adapter, lock>>
  /\ UNCHANGED <<thread, store, judged, log>>

(* The process dies and starts again: the sweep pauses what it left running; *)
(* a paused run is resumed, its steps all done, with its totals at zero.     *)
Crash ==
  /\ faults.count < MaxFaults
  /\ faults' = [faults EXCEPT !.count = @ + 1]
  /\ run' = [r \in Runs |-> IF run[r].phase \in {"completed", "corrected"} THEN run[r]
                            ELSE [run[r] EXCEPT !.phase = "paused", !.recalled = {}]]
  /\ lock' = Nobody /\ adapter' = [loop |-> FALSE, records |-> <<>>]
  /\ thread' = [r \in Runs |-> "none"]
  /\ UNCHANGED <<store, judged, log>>
Resume(r) ==
  /\ run[r].phase = "paused"
  /\ run' = [run EXCEPT ![r].phase = "driving", ![r].take = @ + 1, ![r].total = 0]
  /\ UNCHANGED <<lock, adapter, thread, store, judged, log, faults>>

-----------------------------------------------------------------------------
(* memory_summary and memory_introspect: an organisation's administrator     *)
(* (scope is its org) sees that organisation only; facts need a covering     *)
(* grant and both release entries, and an entry that cannot be written leaves *)
(* the counts.                                                               *)
Visible(scope) == {ns \in {f.ns : f \in store} : scope = Nobody \/ ns[1] = scope}

\* Mutant of Shown: the release is not committed before the facts are shown.
MutShown(scope, ns, granted, attempt, decision, fits) ==
  IF ns \in Visible(scope) /\ granted /\ attempt /\ fits THEN FactsOf(ns) ELSE {}

Shown(scope, ns, granted, attempt, decision, fits) ==
  IF ns \in Visible(scope) /\ granted /\ attempt /\ fits /\ decision THEN FactsOf(ns) ELSE {}

Next ==
  \/ \E r \in Runs :
       \/ Drive(r) \/ Skip(r) \/ Take(r) \/ Ask(r) \/ Answered(r)
       \/ Settle(r) \/ Complete(r) \/ Correct(r) \/ Cancel(r) \/ Resume(r)
  \/ Crash

Spec == Init /\ [][Next]_vars

-----------------------------------------------------------------------------
(* What a run's memory comes to.  A run is completed only with one entry for *)
(* each of its observations in its last take: observed with the fact in the  *)
(* store, or failed with none.  Its own distillation call is always in the   *)
(* spend of an observed one, and while no observation has been cancelled     *)
(* nobody else's is: the lock makes the shared adapter one observation's.    *)
(* Its total is the calls its entries account for, each counted once.  A fact *)
(* has a second copy only from an interrupted take.                          *)
Settled(r) == run[r].phase \in {"completed", "corrected"}
Take1(r, i) == {e \in log : e.run = r /\ e.index = i /\ e.take = run[r].take}
Charges(r) == UNION {{e} \X (1 .. e.spend) : e \in {x \in log : x.run = r /\ x.take = run[r].take}}
FactsFrom(r, i, t) == {f \in store : f.run = r /\ f.index = i /\ f.take = t}
ObservationsAreAccountedFor ==
  /\ Configured => \A r \in Runs : Settled(r) =>
       \A i \in 1 .. Len(Renders[r]) :
         /\ Cardinality(Take1(r, i)) = 1
         /\ \A e \in Take1(r, i) :
              (e.action = "memory_observed") <=> (FactsFrom(r, i, e.take) # {})
  /\ \A e \in log : e.action = "memory_observed" =>
       e.spend >= 1 /\ (~faults.cancelled => e.spend = 1)
  /\ \A r \in Runs : Settled(r) => run[r].total = Cardinality(Charges(r))

(* Memory is a tenant's.  A run recalls only what runs of its own            *)
(* organisation observed; the entries of two organisations never share a     *)
(* subject; an organisation's page lists and shows only its own facts, and   *)
(* facts are shown only under a grant and with both release entries written. *)
MemoryStaysWithItsTenant ==
  /\ \A r \in Runs : \A f \in run[r].recalled : Org[f.run] = Org[r]
  /\ \A d, e \in log : d.subject.ref = e.subject.ref /\ e.subject.ref # <<>> =>
       Org[d.run] = Org[e.run]
  /\ \A scope \in Orgs, ns \in {f.ns : f \in store} : \A granted, attempt, decision, fits \in BOOLEAN :
       Shown(scope, ns, granted, attempt, decision, fits) # {} =>
         /\ granted /\ attempt /\ decision
         /\ \A f \in Shown(scope, ns, granted, attempt, decision, fits) : Org[f.run] = scope

(* A fact is marked corrected only by a completed fork that disagreed with   *)
(* what the run it forked had recorded, and under that run's id.             *)
CorrectionsAreDisagreements ==
  \A j \in judged :
    /\ Settled(j.by) /\ Source[j.by] = j.ref
    /\ run[j.ref].category # j.value /\ j.fact.ns = Namespace(j.by)

(* "the memory uses recorded under the SOURCE instance are upgraded to       *)
(* `corrected`": what is corrected is what the source had consulted.         *)
CorrectedWereConsulted == \A j \in judged : j.fact \in run[j.ref].recalled
=============================================================================
