----------------------------- MODULE ShadowStore -----------------------------
(***************************************************************************)
(* Concurrent runs scheduling questions against the Postgres store: the    *)
(* expiry sweep and the create of each, statement by statement, with the   *)
(* row locks of READ COMMITTED.                                            *)
(*                                                                         *)
(*   backend/src/workflow_platform/elicitation/scheduler.py  schedule      *)
(*   backend/src/workflow_platform/elicitation/store.py   PostgresShadowStore *)
(*                                                                         *)
(* The variables hold what is committed.  What a transaction has written   *)
(* and locked follows from how far it has come (run[w]), and is visible to *)
(* nobody else.  One UPDATE of several rows locks them in one step: sweeps *)
(* scan shadow_questions in the same order.                                *)
(***************************************************************************)
EXTENDS QuestionStore

CONSTANT Runs  \* workflow runs that may be scheduling at the same time

VARIABLES
  seeded,    \* recipients with a row in shadow_capacity
  capacity,  \* its `outstanding`; 0 where there is no row
  due,       \* pending questions whose expires_at has passed
  run        \* run[w]: where the run is, and its transaction

vars == <<asked, questions, seeded, capacity, due, run>>

Idle == [pc |-> "idle"]

At(w, pc) == run[w].pc = pc
Become(w, local) == run' = [run EXCEPT ![w] = local]
GoOn(w, pc) == Become(w, [pc |-> pc, ask |-> run[w].ask])
Others(w) == Runs \ {w}

Init ==
  /\ StoreInit
  /\ seeded = {} /\ due = {}
  /\ capacity = [r \in Recipients |-> 0]
  /\ run = [w \in Runs |-> Idle]

-----------------------------------------------------------------------------
(* Row locks.                                                              *)

\* Transaction w has inserted the shadow_asked row of key k.
LocksKey(w, k) == run[w].pc \in {"seed", "take", "record"} /\ run[w].ask.key = k

\* Transaction w has inserted or updated the shadow_capacity row of r: it
\* seeded it, took a slot or gave some back.
LocksCapacity(w, r) ==
  \/ At(w, "take") /\ run[w].ask.to = r /\ r \notin seeded
  \/ At(w, "record") /\ run[w].ask.to = r
  \/ At(w, "release") /\ \E k \in run[w].freed : questions[k].to = r

CapacityFree(w, r) == \A v \in Others(w) : ~LocksCapacity(v, r)

-----------------------------------------------------------------------------
(* schedule(): the sweep, then the create.                                 *)

\* The candidate names a catalogued topic and no answer is known.
Begin(w) ==
  /\ At(w, "idle")
  /\ \E a \in Asks : Become(w, [pc |-> "sweep", ask |-> a])
  /\ UNCHANGED <<asked, questions, seeded, capacity, due>>

\* The UPDATE's snapshot: what is pending and due as it starts.
SweepRead(w) ==
  /\ At(w, "sweep")
  /\ Become(w, [pc |-> "lock", ask |-> run[w].ask, seen |-> {k \in due : Pending(k)}])
  /\ UNCHANGED <<asked, questions, seeded, capacity, due>>

\* Mutant of SweepTakes: the sweep counts what its snapshot showed.
MutSweepTakes(w) == run[w].seen

\* Once it has a row's lock, the UPDATE looks at `status` again.
SweepTakes(w) == {k \in run[w].seen : Pending(k)}

\* Rows another sweep has updated, of those this one is after.
Contested(w) == {k \in run[w].seen : \E v \in Others(w) : At(v, "release") /\ k \in run[v].taken}

SweepLock(w) ==
  /\ At(w, "lock") /\ Contested(w) = {}
  /\ Become(w, [pc |-> "release", ask |-> run[w].ask, taken |-> SweepTakes(w), freed |-> {}])
  /\ UNCHANGED <<asked, questions, seeded, capacity, due>>

\* One decrement for each row the UPDATE returned.
Release(w) ==
  /\ At(w, "release")
  /\ \E k \in run[w].taken \ run[w].freed :
       /\ CapacityFree(w, questions[k].to)
       /\ Become(w, [pc |-> "release", ask |-> run[w].ask, taken |-> run[w].taken,
                     freed |-> run[w].freed \cup {k}])
  /\ UNCHANGED <<asked, questions, seeded, capacity, due>>

\* greatest(outstanding - 1, 0), n times.
Less(n, m) == IF n > m THEN n - m ELSE 0

\* Mutant of SweepCommit: one transaction for the sweep and the create.
MutSweepCommit(w) ==
  /\ At(w, "release") /\ run[w].freed = run[w].taken
  /\ \A v \in Others(w) : ~LocksKey(v, run[w].ask.key)
  /\ questions' = Expired(run[w].taken)
  /\ capacity' = [r \in Recipients |->
       Less(capacity[r], Cardinality({k \in run[w].taken : questions[k].to = r}))]
  /\ GoOn(w, "ask")
  /\ UNCHANGED <<asked, seeded, due>>

SweepCommit(w) ==
  /\ At(w, "release") /\ run[w].freed = run[w].taken
  /\ questions' = Expired(run[w].taken)
  /\ capacity' = [r \in Recipients |->
       Less(capacity[r], Cardinality({k \in run[w].taken : questions[k].to = r}))]
  /\ GoOn(w, "ask")
  /\ UNCHANGED <<asked, seeded, due>>

\* Mutant of InsertAsked: a key another transaction is inserting is not waited for.
MutInsertAsked(w) ==
  /\ At(w, "ask")
  /\ IF run[w].ask.key \in asked THEN Become(w, Idle) ELSE GoOn(w, "seed")
  /\ UNCHANGED <<asked, questions, seeded, capacity, due>>

\* insert into shadow_asked .. on conflict do nothing: waits for a transaction
\* that has inserted the same key, and ends here if it committed.
InsertAsked(w) ==
  LET k == run[w].ask.key IN
  /\ At(w, "ask")
  /\ \A v \in Others(w) : ~LocksKey(v, k)
  /\ IF k \in asked THEN Become(w, Idle) ELSE GoOn(w, "seed")
  /\ UNCHANGED <<asked, questions, seeded, capacity, due>>

\* insert into shadow_capacity .. on conflict do nothing.
SeedCapacity(w) ==
  /\ At(w, "seed")
  /\ run[w].ask.to \in seeded \/ CapacityFree(w, run[w].ask.to)
  /\ GoOn(w, "take")
  /\ UNCHANGED <<asked, questions, seeded, capacity, due>>

\* update shadow_capacity .. where outstanding < :cap: waits for the row's
\* lock and evaluates the predicate on what is committed then.
TakeSlot(w) ==
  LET a == run[w].ask IN
  /\ At(w, "take")
  /\ capacity[a.to] < a.cap
  /\ CapacityFree(w, a.to)
  /\ GoOn(w, "record")
  /\ UNCHANGED <<asked, questions, seeded, capacity, due>>

\* Mutant of Refuse: the refusal returns instead of unwinding, so the asked
\* row and the seeded counter are committed.
MutRefuse(w) ==
  LET a == run[w].ask IN
  /\ At(w, "take")
  /\ capacity[a.to] >= a.cap
  /\ asked' = asked \cup {a.key}
  /\ seeded' = seeded \cup {a.to}
  /\ Become(w, Idle)
  /\ UNCHANGED <<questions, capacity, due>>

\* _CapacityRefused: the transaction unwinds, the asked row with it.
Refuse(w) ==
  LET a == run[w].ask IN
  /\ At(w, "take")
  /\ capacity[a.to] >= a.cap
  /\ Become(w, Idle)
  /\ UNCHANGED <<asked, questions, seeded, capacity, due>>

\* insert into shadow_questions, and the commit.
Record(w) ==
  LET a == run[w].ask IN
  /\ At(w, "record")
  /\ asked' = asked \cup {a.key}
  /\ seeded' = seeded \cup {a.to}
  /\ capacity' = [capacity EXCEPT ![a.to] = @ + 1]
  /\ questions' = [questions EXCEPT ![a.key] = [status |-> "pending", to |-> a.to]]
  /\ Become(w, Idle)
  /\ UNCHANGED due

\* A statement raises, the connection is lost or the process dies: what is
\* not committed is gone.  The engine logs it and the run is over.
Fails(w) ==
  /\ ~At(w, "idle")
  /\ Become(w, Idle)
  /\ UNCHANGED <<asked, questions, seeded, capacity, due>>

\* expires_at passes.
Lapse ==
  /\ \E k \in Keys \ due : Pending(k) /\ due' = due \cup {k}
  /\ UNCHANGED <<asked, questions, seeded, capacity, run>>

-----------------------------------------------------------------------------
Sweep(w)  == SweepRead(w) \/ SweepLock(w) \/ Release(w) \/ SweepCommit(w)
Ask(w)    == InsertAsked(w) \/ SeedCapacity(w) \/ TakeSlot(w) \/ Refuse(w) \/ Record(w)

Next == (\E w \in Runs : Begin(w) \/ Sweep(w) \/ Ask(w) \/ Fails(w)) \/ Lapse

Spec == Init /\ [][Next]_vars

\* A statement that waits for a lock gets it: Postgres queues for a row in
\* order of arrival, so no one is passed over for ever.
Fairness == \A w \in Runs : SF_vars(Sweep(w)) /\ SF_vars(Ask(w))

LiveSpec == Spec /\ Fairness

-----------------------------------------------------------------------------
Asking   == [pc: {"sweep", "ask", "seed", "take", "record"}, ask: Asks]
Sweeping == [pc: {"lock"}, ask: Asks, seen: SUBSET Keys]
            \cup [pc: {"release"}, ask: Asks, taken: SUBSET Keys, freed: SUBSET Keys]

TypeOK ==
  /\ asked \subseteq Keys /\ due \subseteq Keys /\ seeded \subseteq Recipients
  /\ questions \in [Keys -> Question \cup {None}]
  /\ capacity \in [Recipients -> Nat]
  /\ run \in [Runs -> {Idle} \cup Sweeping \cup Asking]

\* The counter the conditional update reads is the number of questions
\* pending for that recipient: every expiry releases its slot exactly once,
\* however many sweeps meet, and no refusal or failure leaks one.
CountIsTrue == \A r \in Recipients : capacity[r] = Cardinality(PendingTo(r))

\* The cap holds across runs: two transactions cannot both take the last slot.
CapRespected ==
  \A r \in Recipients :
    PendingTo(r) # {} => \E a \in Asks : a.to = r /\ Cardinality(PendingTo(r)) <= a.cap

\* A key is on record as asked exactly when a question was created for it,
\* pending or expired: a refused or crashed create leaves no trace, and
\* nothing that was asked is forgotten.
AskedIsOnRecord == asked = {k \in Keys : questions[k] # None}

\* Transactions never wait for each other for ever: each scheduling call ends.
SchedulingEnds == \A w \in Runs : ~At(w, "idle") ~> At(w, "idle")

\* The committed rows behave as the store the scheduler was written against.
ImplementsStore == StoreSpec
=============================================================================
