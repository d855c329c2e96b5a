------------------------------- MODULE RawReads -------------------------------
(***************************************************************************)
(* Reading raw traces back over HTTP (api/workflows.py): the instance, a    *)
(* step's explanation, the audit log, the escalations and learned memory;   *)
(* and asking for and resolving an escalation.  Every surface records the   *)
(* attempt, fetches from the vault, records what it did, and answers        *)
(* (api/raw_trace_audit.py); recording and fetching may each fail.          *)
(*                                                                         *)
(* An item is what a surface shows: a field of the instance or one audit    *)
(* entry.  It is stored raw, or projected with its raw in the vault.        *)
(***************************************************************************)
EXTENDS Naturals, Sequences, FiniteSets

CONSTANTS
  Grants,      \* the grants a reader may hold: organizations, or "platform"
  MaxEntries,  \* bound: audit entries about escalations
  Window,      \* the entries list_recent returns (2000 in the code)
  MaxReads     \* bound: requests made

Fields == {"output", "error"}   \* the trigger payload is restored as an output is
Org    == "acme"              \* the instance's organization
Sound  == {"raw", "present"}  \* stored raw, or projected and in the vault
States == Sound \cup {"absent", "broken"}   \* its raw is not there, or does not open

VARIABLES
  field,     \* the state of each field of the instance
  facts,     \* whether learned memory fits under the byte cap
  log,       \* audit entries: requests for a review, and their resolutions
  exists,    \* the instance is there
  flip,      \* WORKFLOW_PLATFORM_TRACE_SAFE_ONLY
  grants,    \* the reader's grants
  call,      \* the request in flight
  resolver,  \* a second user, resolving: the escalation found open, or 0
  attempts,  \* requests with a raw_trace_access_attempted entry
  decisions, \* request -> the outcome of its raw_trace_release_decided entry
  answers,   \* what was answered, and the escalations resolved by then
  n          \* requests made

vars == <<field, facts, log, exists, flip, grants, call, resolver, attempts, decisions, answers, n>>

Idle     == [pc |-> "idle"]
Requests == {i \in DOMAIN log : log[i].kind = "requested"}
Resolved(known) == {log[i].of : i \in {j \in known : log[j].kind = "resolved"}}
Recent   == {i \in DOMAIN log : i > Len(log) - Window}

Init ==
  /\ flip \in BOOLEAN /\ exists = TRUE /\ facts \in BOOLEAN
  /\ field \in [Fields -> IF flip THEN States ELSE {"raw"}]
  /\ log = <<>> /\ grants \in SUBSET Grants
  /\ call = Idle /\ resolver = 0
  /\ attempts = {} /\ decisions = <<>> /\ answers = {} /\ n = 0

-----------------------------------------------------------------------------
(* Escalations.                                                            *)

\* Mutant of Kept: the entry is projected and nothing kept it.
MutKept(vaulted) == IF ~flip THEN "raw" ELSE IF exists THEN "absent" ELSE "refused"

\* request_human_review: what projection would take is vaulted first, under the
\* entry's id; without an instance to vault it against, the tool refuses.
Kept(vaulted) == IF ~flip THEN "raw" ELSE IF exists THEN vaulted ELSE "refused"

RequestReview ==
  /\ Len(log) < MaxEntries
  /\ LET how == Kept("present")
     IN log' = IF how = "refused" THEN log ELSE Append(log, [kind |-> "requested", state |-> how])
  /\ UNCHANGED <<field, facts, exists, flip, grants, call, resolver, attempts, decisions, answers, n>>

\* resolve_escalation: found in the recent entries, and no resolution there.
ResolveBegins ==
  /\ resolver = 0
  /\ \E i \in Requests \cap Recent : i \notin Resolved(Recent) /\ resolver' = i
  /\ UNCHANGED <<field, facts, log, exists, flip, grants, call, attempts, decisions, answers, n>>

ResolveEnds ==
  /\ resolver # 0 /\ Len(log) < MaxEntries
  /\ log' = Append(log, [kind |-> "resolved", of |-> resolver])
  /\ resolver' = 0
  /\ UNCHANGED <<field, facts, exists, flip, grants, call, attempts, decisions, answers, n>>

\* Mutant of Pending: what was resolved is looked for among the entries asked for.
MutPending(known) == {i \in known \cap Requests : i \notin Resolved(known \cap Requests)}

Pending(known) == {i \in known \cap Requests : i \notin Resolved(known)}

-----------------------------------------------------------------------------
(* Reading.                                                                *)

Surfaces == {"detail", "explain", "audit", "recent", "escalations", "memory"}

\* An organization's grant covers it; every organization's data needs the
\* platform's.
RawReader(target) == "platform" \in grants \/ target \in grants
Target(surface, scoped) ==
  IF surface = "recent" \/ (surface = "escalations" /\ ~scoped) THEN "platform" ELSE Org

FieldItems    == {[field |-> f] : f \in Fields}
EntryItems(s) == {[entry |-> i] : i \in s}

\* An escalation whose instance is gone is in no organization's list.
Items(surface, scoped) ==
  CASE surface = "detail"      -> FieldItems
    [] surface = "explain"     -> FieldItems
    [] surface = "memory"      -> {[facts |-> TRUE]}
    [] surface = "audit"       -> EntryItems(Requests)
    [] surface = "recent"      -> EntryItems(Recent \cap Requests)
    [] surface = "escalations" -> IF exists \/ ~scoped THEN EntryItems(Pending(Recent)) ELSE {}

IsEntry(item) == "entry" \in DOMAIN item

\* An entry is opened under the organization of its instance.
OwnerKnown(item) == IsEntry(item) => exists

\* memory_introspect, categories: the facts, unless they exceed the byte cap.
FactsState == IF facts THEN "raw" ELSE "absent"

StateOf(item) ==
  CASE IsEntry(item)           -> log[item.entry].state
    [] "field" \in DOMAIN item -> field[item.field]
    [] OTHER                   -> FactsState

\* _visible_instance, the grant, and begin_raw_release.  Below grant, or when
\* the attempt cannot be recorded, the answer is projected.
Begin(surface) ==
  /\ call = Idle /\ n < MaxReads /\ n' = n + 1
  /\ surface \in {"recent", "escalations", "memory"} \/ exists
  /\ surface = "memory" => RawReader(Org)
  /\ \E scoped, recorded \in BOOLEAN :
       LET read == [pc |-> "fetch", surface |-> surface, items |-> Items(surface, scoped), got |-> {},
                    granted |-> RawReader(Target(surface, scoped)), id |-> n']
       IN /\ recorded => read.granted /\ (surface = "escalations" => read.items # {})
          /\ attempts' = IF recorded THEN attempts \cup {n'} ELSE attempts
          /\ call' = IF recorded THEN read ELSE [read EXCEPT !.pc = "answer"]
  /\ UNCHANGED <<field, facts, log, exists, flip, grants, resolver, decisions, answers>>

\* rehydrate_audit_detail raises for an entry whose raw is not to be had or
\* whose instance is gone, and only that entry stays projected.
Recovered(items) ==
  {i \in items : StateOf(i) = "raw" \/ (StateOf(i) = "present" /\ OwnerKnown(i))}

\* merge_output and its like hand back the projection when there is no raw,
\* and raise when it does not open: then the whole surface is projected.
Fetch ==
  /\ call.pc = "fetch"
  /\ LET items  == call.items
         raises == \E i \in items : ~IsEntry(i) /\ StateOf(i) = "broken"
     IN call' = [call EXCEPT !.pc = "commit", !.got = IF raises THEN {} ELSE Recovered(items)]
  /\ UNCHANGED <<field, facts, log, exists, flip, grants, resolver, attempts, decisions, answers, n>>

\* What the surface tells commit_raw_release it returned.  The detail and the
\* explanation say all or nothing; the audit surfaces say both halves.
Outcome(surface, items, got) ==
  IF got = items THEN "released"
  ELSE IF surface \in {"detail", "explain", "memory"} \/ got = {} THEN "retrieval_failed"
  ELSE "partial"

\* Mutant of Leaves: what was fetched is answered whether or not the decision
\* could be recorded.
MutLeaves(read, recorded) == read.got

\* An explanation is of the recovered output or of the stored projection.
Explained(got, items) == IF got = items THEN got ELSE {}

\* What leaves: nothing when the decision was not recorded; of an explanation
\* and of memory all or nothing; of the rest what came back.
Leaves(read, recorded) ==
  IF ~recorded THEN {}
  ELSE IF read.surface \in {"explain", "memory"} THEN Explained(read.got, read.items)
  ELSE read.got

Commit ==
  /\ call.pc = "commit"
  /\ \E recorded \in BOOLEAN :
       /\ decisions' = IF recorded
                       THEN [i \in DOMAIN decisions \cup {call.id} |->
                               IF i = call.id THEN Outcome(call.surface, call.items, call.got)
                               ELSE decisions[i]]
                       ELSE decisions
       /\ call' = [call EXCEPT !.pc = "answer", !.got = Leaves(call, recorded)]
  /\ UNCHANGED <<field, facts, log, exists, flip, grants, resolver, attempts, answers, n>>

\* raw_included: per row on the escalations, whole on the others.
Answer ==
  /\ call.pc = "answer"
  /\ answers' = answers \cup {[id |-> call.id, surface |-> call.surface, granted |-> call.granted,
                               items |-> call.items, raw |-> call.got,
                               complete |-> call.got # {} /\ call.got = call.items]}
  /\ call' = Idle
  /\ UNCHANGED <<field, facts, log, exists, flip, grants, resolver, attempts, decisions, n>>

\* Meanwhile: the instance is deleted, its vault rows with it; the grant ends.
DeleteInstance ==
  /\ exists /\ exists' = FALSE
  /\ field' = [f \in Fields |-> IF field[f] = "raw" THEN "raw" ELSE "absent"]
  /\ UNCHANGED <<facts, log, flip, grants, call, resolver, attempts, decisions, answers, n>>

GrantEnds ==
  /\ \E g \in grants : grants' = grants \ {g}
  /\ UNCHANGED <<field, facts, log, exists, flip, call, resolver, attempts, decisions, answers, n>>

Next ==
  \/ RequestReview \/ ResolveBegins \/ ResolveEnds \/ DeleteInstance \/ GrantEnds
  \/ \E s \in Surfaces : Begin(s)
  \/ Fetch \/ Commit \/ Answer

Spec == Init /\ [][Next]_vars

-----------------------------------------------------------------------------
(* Properties.                                                             *)

\* "A release we could not record is a release we do not make", and an answer
\* that says it is whole is: raw left only to a reader whose grant covered it
\* when asked, after the attempt and the decision were recorded, and an answer
\* with everything in it is recorded as released.
RawReadsAreHonest ==
  \A a \in answers : a.raw # {} =>
    /\ a.granted /\ a.id \in attempts /\ a.id \in DOMAIN decisions
    /\ a.complete <=> decisions[a.id] = "released"

\* What the safe-only store took out of an escalation is in the vault as long
\* as its instance is, and an escalation shown pending had not been resolved.
EscalationsAreKept ==
  /\ \A i \in Requests : log[i].state \in Sound
  /\ \A i \in Pending(Recent) : \A j \in DOMAIN log : log[j].kind = "resolved" => log[j].of # i

\* commit_raw_release: "the ACTUAL outcome, determined AFTER the fetch ... and
\* the exact returned/withheld kind lists".
DecisionsNameWhatLeft ==
  \A a \in answers : a.raw # {} => decisions[a.id] # "retrieval_failed"
=============================================================================
