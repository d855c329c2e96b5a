------------------------------ MODULE TraceFeed ------------------------------
(***************************************************************************)
(* How an audit entry is written, mirrored to the live feed and shown raw  *)
(* to a subscriber who holds a grant.                                      *)
(*                                                                         *)
(*   backend/src/workflow_platform/audit_writer.py        append           *)
(*   backend/src/workflow_platform/events.py              publish          *)
(*   backend/src/workflow_platform/api/ws.py              events_socket    *)
(*   backend/src/workflow_platform/api/raw_trace_audit.py the release pair *)
(*   backend/src/workflow_platform/trace_rehydrate.py     the vault read   *)
(*                                                                         *)
(* One process.  Every await is a point where a writer, another socket, a  *)
(* revocation, a disconnect or the end of the process can come in between. *)
(* A detail is its having raw in it or not; what projection does to it is  *)
(* that the raw is gone.  The records of raw access are entries of the     *)
(* same log, but carry no raw and are not published: they are kept apart.  *)
(***************************************************************************)
EXTENDS Naturals, Sequences

CONSTANTS
  Entries,    \* ids of audit entries
  Orgs,       \* organizations; an entry of an instance belongs to one
  NoOrg,      \* the "organization" of an entry without an instance
  All,        \* the scope of an Administrator's subscription
  Writers,    \* concurrent calls of AuditWriter.append
  Sockets,    \* WebSocket connections
  QueueSize,  \* length of a subscriber's queue (256 in the code)
  MaxFaults   \* bound: failing statements, disconnects and crashes

ASSUME FeedAssumption ==
  /\ NoOrg \notin Orgs /\ All \notin Orgs \cup {NoOrg}
  /\ QueueSize \in Nat \ {0} /\ MaxFaults \in Nat

VARIABLES
  \* --- the database
  vault,      \* entries with a raw_traces row
  log,        \* audit_log: the entry, or Absent
  release,    \* release[s][e]: the release records of e on connection s
  access,     \* access[s][e]: the system-access records of that vault read
  covered,    \* covered[s]: an active grant of the subscriber covers its scope
  deleted,    \* entries whose instance has been deleted
  \* --- the process
  safeOnly,   \* WORKFLOW_PLATFORM_TRACE_SAFE_ONLY, read when it starts
  writer,     \* writer[w]: where append() is and the entry it writes
  queue,      \* queue[s]: events waiting for connection s
  conn,       \* conn[s]: where events_socket is and the frame it has in hand
  scope,      \* scope[s]: subscriber_org, resolved when s was accepted
  \* --- history
  sent,       \* frames sent
  cut,        \* cut[s]: entries whose frame met a failing record or a lost connection
  faults

vars == <<vault, log, release, access, covered, deleted, safeOnly, writer, queue, conn, scope, sent, cut, faults>>

database == <<vault, log, release, access, covered, deleted>>

Absent == [org |-> "absent"]
Entry  == [org: Orgs \cup {NoOrg}, raw: BOOLEAN, stamped: BOOLEAN]

\* An event: the entry's id, and the org_id publish() has put on it.
Event  == [id: Entries, org: Orgs \cup {NoOrg}]

Idle    == [pc |-> "idle"]
Closed  == [pc |-> "closed"]
Waiting == [pc |-> "wait"]

InHand(s, e) == conn[s].pc \notin {"closed", "wait"} /\ conn[s].id = e

\* A statement that can fail does so at most MaxFaults times in all.
Fault == faults < MaxFaults /\ faults' = faults + 1

Init ==
  /\ vault = {} /\ log = [e \in Entries |-> Absent]
  /\ release = [s \in Sockets |-> [e \in Entries |-> "none"]]
  /\ access = [s \in Sockets |-> [e \in Entries |-> "none"]]
  /\ covered \in [Sockets -> BOOLEAN] /\ deleted = {}
  /\ safeOnly \in BOOLEAN /\ writer = [w \in Writers |-> Idle]
  /\ queue = [s \in Sockets |-> << >>] /\ conn = [s \in Sockets |-> Closed]
  /\ scope = [s \in Sockets |-> All] /\ sent = {} /\ cut = [s \in Sockets |-> {}] /\ faults = 0

-----------------------------------------------------------------------------
(* AuditWriter.append.                                                     *)

Become(w, local) == writer' = [writer EXCEPT ![w] = local]

Unused(e) == log[e] = Absent /\ e \notin vault /\ \A w \in Writers : writer[w] # Idle => writer[w].id # e

\* The entry id is minted before any I/O.  Under the flip a detail that
\* projection would cut is vaulted first, and refused if it has no instance.
Write(w, e) ==
  /\ writer[w] = Idle /\ Unused(e)
  /\ \E org \in Orgs \cup {NoOrg}, raw \in BOOLEAN :
       /\ ~(safeOnly /\ raw /\ org = NoOrg)
       /\ Become(w, [pc |-> IF safeOnly /\ raw THEN "vault" ELSE "append",
                     id |-> e, org |-> org, raw |-> raw])
  /\ UNCHANGED <<database, safeOnly, queue, conn, scope, sent, cut, faults>>

\* record_audit_detail, of an instance that is there (org_for, and the foreign
\* key of raw_traces): durable, the entry is not appended if it fails.
Vault(w) ==
  /\ writer[w].pc = "vault" /\ writer[w].id \notin deleted
  /\ vault' = vault \cup {writer[w].id}
  /\ Become(w, [writer[w] EXCEPT !.pc = "append"])
  /\ UNCHANGED <<log, release, access, covered, deleted, safeOnly, queue, conn, scope, sent, cut, faults>>

Row(w) == [org |-> writer[w].org, raw |-> writer[w].raw, stamped |-> safeOnly /\ writer[w].raw]

AppendEntry(w) ==
  /\ writer[w].pc = "append"
  /\ log' = [log EXCEPT ![writer[w].id] = Row(w)]
  /\ Become(w, [writer[w] EXCEPT !.pc = "publish"])
  /\ UNCHANGED <<vault, release, access, covered, deleted, safeOnly, queue, conn, scope, sent, cut, faults>>

\* Mutant of WriteFails: a vault write that fails is logged, as in the dark
\* dual-write.
MutWriteFails(w) ==
  /\ Fault
  /\ writer[w].pc = "vault" /\ Become(w, [writer[w] EXCEPT !.pc = "append"])
  /\ UNCHANGED <<database, safeOnly, queue, conn, scope, sent, cut>>

\* A statement of append() raises, before or after the database took it; the
\* vault write of an instance that is gone always does.
WriteFails(w) ==
  /\ \/ /\ writer[w].pc = "vault" /\ writer[w].id \in deleted
        /\ UNCHANGED <<vault, log, faults>>
     \/ /\ writer[w].pc = "vault" /\ writer[w].id \notin deleted /\ Fault
        /\ vault' \in {vault, vault \cup {writer[w].id}} /\ UNCHANGED log
     \/ /\ writer[w].pc = "append" /\ Fault
        /\ log' \in {log, [log EXCEPT ![writer[w].id] = Row(w)]} /\ UNCHANGED vault
  /\ Become(w, Idle)
  /\ UNCHANGED <<release, access, covered, deleted, safeOnly, queue, conn, scope, sent, cut>>

\* EventBus.publish, once the organization is known: a full queue misses the
\* event.  A lookup that fails, or finds no instance, leaves it without org_id.
Publish(w) ==
  /\ writer[w].pc = "publish"
  /\ \E org \in {writer[w].org, NoOrg} :
       /\ IF org = writer[w].org \/ writer[w].id \in deleted THEN UNCHANGED faults ELSE Fault
       /\ queue' = [s \in Sockets |->
            IF conn[s] # Closed /\ Len(queue[s]) < QueueSize
            THEN Append(queue[s], [id |-> writer[w].id, org |-> org]) ELSE queue[s]]
  /\ Become(w, Idle)
  /\ UNCHANGED <<database, safeOnly, conn, scope, sent, cut>>

-----------------------------------------------------------------------------
(* events_socket.                                                          *)

Goto(s, pc) == conn' = [conn EXCEPT ![s].pc = pc]
Hold(s, pc, full) == conn' = [conn EXCEPT ![s].pc = pc, ![s].full = full]
At(s, pc) == conn[s].pc = pc
Record(table, s, what) == [table EXCEPT ![s][conn[s].id] = what]

\* The frame in hand is no longer accounted for.
Cut(s) == cut' = [cut EXCEPT ![s] = @ \cup {conn[s].id}]

Connect(s) ==
  /\ conn[s] = Closed
  /\ conn' = [conn EXCEPT ![s] = Waiting]
  /\ \E to \in Orgs \cup {All} : scope' = [scope EXCEPT ![s] = to]
  /\ UNCHANGED <<database, safeOnly, writer, queue, sent, cut, faults>>

\* event_deliverable.
Deliverable(s, event) == scope[s] = All \/ event.org = scope[s]

\* full: the frame carries the raw.  fresh: the grant has covered the
\* subscriber at some moment since the frame was taken (history).
Frame(s, event, pc) ==
  [pc |-> pc, id |-> event.id,
   full |-> log[event.id].raw /\ ~log[event.id].stamped, fresh |-> covered[s]]

\* Mutant of Take: an event that is not for this subscriber stays first.
MutTake(s) ==
  /\ At(s, "wait") /\ queue[s] # << >>
  /\ LET event == Head(queue[s]) IN
       /\ Deliverable(s, event)
       /\ conn' = [conn EXCEPT ![s] = Frame(s, event, IF log[event.id].raw THEN "check" ELSE "send")]
  /\ queue' = [queue EXCEPT ![s] = Tail(@)]
  /\ UNCHANGED <<database, safeOnly, writer, scope, sent, cut, faults>>

\* Takes the next event.  One that carries no raw is sent as it is; one that
\* does, inline or in the vault, goes to the grant check.
Take(s) ==
  /\ At(s, "wait") /\ queue[s] # << >>
  /\ LET event == Head(queue[s]) IN
       conn' = [conn EXCEPT ![s] =
         IF ~Deliverable(s, event) THEN Waiting
         ELSE Frame(s, event, IF log[event.id].raw THEN "check" ELSE "send")]
  /\ queue' = [queue EXCEPT ![s] = Tail(@)]
  /\ UNCHANGED <<database, safeOnly, writer, scope, sent, cut, faults>>

\* Mutant of Check: the grant is looked at when the connection is accepted.
MutCheck(s) ==
  /\ At(s, "check")
  /\ \/ Goto(s, "begin")
     \/ ~covered[s] /\ Hold(s, "send", FALSE)
  /\ UNCHANGED <<database, safeOnly, writer, queue, scope, sent, cut, faults>>

\* _covers_now(), once per frame; below grant the frame is projected.
Check(s) ==
  /\ At(s, "check")
  /\ \/ covered[s] /\ Goto(s, "begin")
     \/ ~covered[s] /\ Hold(s, "send", FALSE)
  /\ UNCHANGED <<database, safeOnly, writer, queue, scope, sent, cut, faults>>

\* begin_raw_release: raw_trace_access_attempted, before anything is fetched.
\* The append may raise with or without the record in the table.
Begin(s) ==
  /\ At(s, "begin")
  /\ \/ /\ release' = Record(release, s, "attempted")
        /\ Goto(s, IF log[conn[s].id].stamped THEN "access" ELSE "commit")
        /\ UNCHANGED <<cut, faults>>
     \/ /\ Fault /\ Cut(s)
        /\ release' \in {release, Record(release, s, "attempted")}
        /\ Hold(s, "send", FALSE)
  /\ UNCHANGED <<vault, log, access, covered, deleted, safeOnly, writer, queue, scope, sent>>

\* An instance that is gone is not looked up in the vault.  Then
\* RawTraceRehydrator._begin: no record of the access, no fetch.
Access(s) ==
  /\ At(s, "access")
  /\ \/ conn[s].id \in deleted /\ Hold(s, "commit", FALSE) /\ UNCHANGED <<access, cut, faults>>
     \/ /\ conn[s].id \notin deleted
        /\ access' = Record(access, s, "attempted") /\ Goto(s, "fetch") /\ UNCHANGED <<cut, faults>>
     \/ /\ conn[s].id \notin deleted /\ Fault /\ Cut(s)
        /\ access' \in {access, Record(access, s, "attempted")}
        /\ Hold(s, "commit", FALSE)
  /\ UNCHANGED <<vault, log, release, covered, deleted, safeOnly, writer, queue, scope, sent>>

\* Mutant of Fetch: a lookup that fails escapes as itself, past the record
\* of its completion.
MutFetch(s) ==
  /\ At(s, "fetch")
  /\ \/ conn[s].id \in vault /\ Hold(s, "complete", TRUE) /\ UNCHANGED faults
     \/ Fault /\ Hold(s, "send", FALSE)
  /\ UNCHANGED <<database, safeOnly, writer, queue, scope, sent, cut>>

\* The vault row is there, opens and agrees with the entry; or one of these
\* fails, which is an outcome and is recorded like the other.
Fetch(s) ==
  /\ At(s, "fetch")
  /\ \/ conn[s].id \in vault /\ Hold(s, "complete", TRUE) /\ UNCHANGED faults
     \/ conn[s].id \notin vault /\ Hold(s, "complete", FALSE) /\ UNCHANGED faults
     \/ Fault /\ Hold(s, "complete", FALSE)
  /\ UNCHANGED <<database, safeOnly, writer, queue, scope, sent, cut>>

\* RawTraceRehydrator._complete: best-effort.
Complete(s) ==
  /\ At(s, "complete")
  /\ \/ access' = Record(access, s, IF conn[s].full THEN "succeeded" ELSE "failed") /\ UNCHANGED <<cut, faults>>
     \/ Fault /\ Cut(s) /\ UNCHANGED access
  /\ Goto(s, "commit")
  /\ UNCHANGED <<vault, log, release, covered, deleted, safeOnly, writer, queue, scope, sent>>

Outcome(s) == IF conn[s].full THEN "released" ELSE "retrieval_failed"

\* Mutant of Commit: a record that fails is logged, and the frame is sent.
MutCommit(s) ==
  /\ At(s, "commit")
  /\ \/ release' = Record(release, s, Outcome(s)) /\ Goto(s, "send") /\ UNCHANGED <<cut, faults>>
     \/ Fault /\ Cut(s) /\ UNCHANGED release /\ Goto(s, "send")
  /\ UNCHANGED <<vault, log, access, covered, deleted, safeOnly, writer, queue, scope, sent>>

\* commit_raw_release: raw_trace_release_decided with the actual outcome; if
\* it cannot be recorded the frame is projected.
Commit(s) ==
  /\ At(s, "commit")
  /\ \/ release' = Record(release, s, Outcome(s)) /\ Goto(s, "send") /\ UNCHANGED <<cut, faults>>
     \/ /\ Fault /\ Cut(s)
        /\ release' \in {release, Record(release, s, Outcome(s))}
        /\ Hold(s, "send", FALSE)
  /\ UNCHANGED <<vault, log, access, covered, deleted, safeOnly, writer, queue, scope, sent>>

Send(s) ==
  /\ At(s, "send")
  /\ sent' = sent \cup {[to |-> s, id |-> conn[s].id, full |-> conn[s].full, fresh |-> conn[s].fresh]}
  /\ conn' = [conn EXCEPT ![s] = Waiting]
  /\ UNCHANGED <<database, safeOnly, writer, queue, scope, cut, faults>>

\* A disconnect, an exception of the grant check or of the instance lookup,
\* or the cancellation of the handler: the queue is given up.
Close(s) ==
  /\ conn[s] # Closed /\ Fault
  /\ conn' = [conn EXCEPT ![s] = Closed]
  /\ queue' = [queue EXCEPT ![s] = << >>]
  /\ IF At(s, "wait") THEN UNCHANGED cut ELSE Cut(s)
  /\ UNCHANGED <<database, safeOnly, writer, scope, sent>>

-----------------------------------------------------------------------------
(* The instance, the grant, and the process.                               *)

\* delete_instance: the audit entries are left, the rows of raw_traces go with
\* the instance.  A workflow deleted with force takes running ones with it.
Delete(e) ==
  /\ e \notin deleted
  /\ \/ log[e].org \in Orgs
     \/ \E w \in Writers : writer[w] # Idle /\ writer[w].id = e /\ writer[w].org \in Orgs
  /\ deleted' = deleted \cup {e} /\ vault' = vault \ {e}
  /\ UNCHANGED <<log, release, access, covered, safeOnly, writer, queue, conn, scope, sent, cut, faults>>

\* A grant is activated, or is revoked or expires.
Grant(s) ==
  /\ ~covered[s] /\ covered' = [covered EXCEPT ![s] = TRUE]
  /\ conn' = [conn EXCEPT ![s] =
       IF @.pc \in {"closed", "wait"} THEN @ ELSE [@ EXCEPT !.fresh = TRUE]]
  /\ UNCHANGED <<vault, log, release, access, deleted, safeOnly, writer, queue, scope, sent, cut, faults>>

Lapse(s) ==
  /\ covered[s] /\ covered' = [covered EXCEPT ![s] = FALSE]
  /\ UNCHANGED <<vault, log, release, access, deleted, safeOnly, writer, queue, conn, scope, sent, cut, faults>>

\* The process ends, and starts again, perhaps with the other setting.
Crash ==
  /\ Fault
  /\ safeOnly' \in BOOLEAN /\ writer' = [w \in Writers |-> Idle]
  /\ queue' = [s \in Sockets |-> << >>] /\ conn' = [s \in Sockets |-> Closed]
  /\ cut' = [s \in Sockets |-> cut[s] \cup {e \in Entries : InHand(s, e)}]
  /\ UNCHANGED <<database, scope, sent>>

WriterStep(w) == Vault(w) \/ AppendEntry(w) \/ Publish(w)

SocketStep(s) ==
  Take(s) \/ Check(s) \/ Begin(s) \/ Access(s) \/ Fetch(s) \/ Complete(s) \/ Commit(s) \/ Send(s)

Next ==
  \/ \E w \in Writers : WriterStep(w) \/ WriteFails(w) \/ \E e \in Entries : Write(w, e)
  \/ \E s \in Sockets : Connect(s) \/ SocketStep(s) \/ Close(s) \/ Grant(s) \/ Lapse(s)
  \/ \E e \in Entries : Delete(e)
  \/ Crash

Spec == Init /\ [][Next]_vars

\* The event loop runs every ready coroutine, and a statement ends.
Fairness == \A s \in Sockets : WF_vars(SocketStep(s))

FairSpec == Spec /\ Fairness

-----------------------------------------------------------------------------
WriterType == {Idle} \cup
  [pc: {"vault", "append", "publish"}, id: Entries, org: Orgs \cup {NoOrg}, raw: BOOLEAN]
FramePlaces == {"check", "begin", "access", "fetch", "complete", "commit", "send"}
ConnType == {Closed, Waiting} \cup [pc: FramePlaces, id: Entries, full: BOOLEAN, fresh: BOOLEAN]

TypeOK ==
  /\ vault \subseteq Entries /\ log \in [Entries -> Entry \cup {Absent}]
  /\ release \in [Sockets -> [Entries -> {"none", "attempted", "released", "retrieval_failed"}]]
  /\ access \in [Sockets -> [Entries -> {"none", "attempted", "succeeded", "failed"}]]
  /\ covered \in [Sockets -> BOOLEAN] /\ deleted \subseteq Entries /\ safeOnly \in BOOLEAN
  /\ writer \in [Writers -> WriterType]
  /\ queue \in [Sockets -> Seq(Event)] /\ \A s \in Sockets : Len(queue[s]) <= QueueSize
  /\ conn \in [Sockets -> ConnType]
  /\ scope \in [Sockets -> Orgs \cup {All}]
  /\ sent \subseteq [to: Sockets, id: Entries, full: BOOLEAN, fresh: BOOLEAN]
  /\ cut \in [Sockets -> SUBSET Entries] /\ faults \in 0 .. MaxFaults

\* The raw of an entry that was projected at rest is in the vault for as long
\* as its instance is there, whatever fails or dies between the two writes of
\* append().
NothingLostAtRest ==
  \A e \in Entries \ deleted : log[e] # Absent /\ log[e].stamped => e \in vault

\* "No raw byte crosses the boundary unless release_decided committed", and
\* said so: nor did any come from the vault without a record of the access.
RawLeavesOnRecord ==
  \A f \in sent : f.full =>
    /\ release[f.to][f.id] = "released"
    /\ log[f.id].stamped => access[f.to][f.id] # "none"

\* A raw frame is sent only to a subscriber whose grant was active at some
\* moment since the frame was taken: "a revoked/expired grant stops raw on
\* the next frame".
RevocationStopsRaw == \A f \in sent : f.full => f.fresh

\* The records agree with what happened: of a frame that is done, unless a
\* record failed or the connection was lost under it, the attempt was
\* decided and the vault access completed, and RELEASED was recorded exactly
\* if the raw was sent.
RecordsAreTrue ==
  \A s \in Sockets : \A e \in Entries \ cut[s] : ~InHand(s, e) =>
    /\ release[s][e] # "attempted" /\ access[s][e] # "attempted"
    /\ release[s][e] = "released" <=> \E f \in sent : f.to = s /\ f.id = e /\ f.full
    /\ access[s][e] = "failed" => release[s][e] = "retrieval_failed"

\* An event that has reached a connection's queue is dealt with.
FeedMoves ==
  \A s \in Sockets : \A e \in Entries :
    InHand(s, e) \/ (\E i \in DOMAIN queue[s] : queue[s][i].id = e)
      ~> ~InHand(s, e) /\ ~(\E i \in DOMAIN queue[s] : queue[s][i].id = e)
=============================================================================
