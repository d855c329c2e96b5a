------------------------------ MODULE GmailPoll ------------------------------
(***************************************************************************)
(* The Gmail poll trigger of one workflow: its cursor and its ring of seen *)
(* message ids, the state it persists, and what of it survives a restart.  *)
(*                                                                         *)
(*   backend/src/workflow_platform/triggers/gmail_poll.py                  *)
(*   backend/src/workflow_platform/connectors/email/gmail.py  poll_inbox   *)
(*   backend/src/workflow_platform/orchestrator.py            the callback *)
(*                                                                         *)
(* Time is counted in seconds, the grain of Gmail's `after:`.  A message's *)
(* stamp is Gmail's internal date, which may lie before its arrival.  Only *)
(* messages the trigger's label and query match are messages here.         *)
(***************************************************************************)
EXTENDS Naturals, Sequences, FiniteSets, Functions, FiniteSetsExt

CONSTANTS
  Messages,     \* the messages that may arrive
  Pages,        \* what max_messages of a trigger may be configured as
  Ring,         \* maxlen of _seen_order (500 in the code)
  Lookback,     \* lookback_hours, in seconds
  Delays,       \* how long before its arrival a message may be stamped
  Faults,       \* which of AllFaults the environment may inject
  MaxNow,       \* bound: seconds
  MaxFaults,    \* bound: faults
  MaxRestarts   \* bound: shutdowns and crashes

\* poll:     the listing or a fetch raises, GmailAuthRevoked included
\* config:   it raises GmailAuthMisconfigured
\* persist:  cursor_store.set raises
\* load:     cursor_store.get raises
\* label:    removing UNREAD raises
\* dispatch: building the payload, or creating the instance, raises
AllFaults == {"poll", "config", "persist", "load", "label", "dispatch"}

NoMessage == "none"

ASSUME MailAssumption ==
  /\ NoMessage \notin Messages /\ Pages \subseteq Nat \ {0} /\ Ring \in Nat \ {0} /\ Lookback \in Nat
  /\ Delays \subseteq Nat /\ Faults \subseteq AllFaults
  /\ MaxNow \in Nat /\ MaxFaults \in Nat /\ MaxRestarts \in Nat

VARIABLES
  now,
  page,       \* max_messages: how many messages a poll takes
  \* --- the mailbox
  box,        \* the messages that have arrived
  stamp,      \* stamp[m]: internal date of m
  unread,     \* the messages that carry UNREAD
  \* --- the store
  saved,      \* trigger_cursors row: is there one, its cursor, its seen ids
  \* --- the trigger
  proc,       \* "up" or "down"
  stop,       \* the _stop event
  pc,         \* where _loop is
  cursor, seen,
  batch,      \* messages of this poll still to be dispatched
  current,    \* the message whose callback is awaited
  dispatched, \* this poll has dispatched something
  \* --- history
  due,        \* messages the trigger promised to deliver
  abandoned,  \* messages given up: dispatch raised, or a start without a position
  ran,        \* messages whose run was created and has ended
  completed,  \* those of them whose run ended COMPLETED
  handled,    \* messages this process knows to have been dispatched
  kept,       \* the value of handled when the row was last written
  refired,    \* messages dispatched although they were handled
  faults, restarts

mail    == <<box, stamp>>
trigger == <<stop, pc, cursor, seen, batch, current, dispatched>>
history == <<due, abandoned, ran, completed, handled, kept, refired>>
bounds  == <<faults, restarts>>
vars    == <<now, page, mail, unread, saved, proc, trigger, history, bounds>>

Places == {"off", "list", "fetch", "dispatch", "call", "sleep"}

Fault(f) == f \in Faults /\ faults < MaxFaults /\ faults' = faults + 1

Init ==
  /\ now = 0 /\ page \in Pages /\ box = {} /\ stamp = [m \in Messages |-> 0] /\ unread = {}
  /\ \E known \in BOOLEAN : saved = [known |-> known, cursor |-> 0, seen |-> << >>]
  /\ proc = "down" /\ stop = FALSE /\ pc = "off" /\ cursor = 0 /\ seen = << >>
  /\ batch = {} /\ current = NoMessage /\ dispatched = FALSE
  /\ due = {} /\ abandoned = {} /\ ran = {} /\ completed = {}
  /\ handled = {} /\ kept = {} /\ refired = {}
  /\ faults = 0 /\ restarts = 0

-----------------------------------------------------------------------------
(* The mailbox.                                                            *)

\* A message is owed once the trigger has run, here or before (a shutdown or
\* a crash implies that it has), unless it is stamped further back than the
\* trigger looks.
Arrive(m) ==
  /\ m \notin box
  /\ \E d \in Delays :
       /\ d <= now
       /\ stamp' = [stamp EXCEPT ![m] = now - d]
       /\ due' = IF d <= Lookback /\ (saved.known \/ proc = "up" \/ restarts > 0) THEN due \cup {m} ELSE due
  /\ box' = box \cup {m} /\ unread' = unread \cup {m}
  /\ UNCHANGED <<now, page, saved, proc, trigger, abandoned, ran, completed, handled, kept, refired, bounds>>

Tick ==
  /\ now < MaxNow /\ now' = now + 1
  /\ UNCHANGED <<page, mail, unread, saved, proc, trigger, history, bounds>>

-----------------------------------------------------------------------------
(* start() in a new process.                                               *)

\* The query `after:<cursor - lookback>`: inclusive.
Listed(c) == {m \in box : stamp[m] + Lookback >= c}

Resume(c, q, known) ==
  /\ proc = "down" /\ proc' = "up" /\ pc' = "list" /\ stop' = FALSE
  /\ cursor' = c /\ seen' = q /\ handled' = known
  /\ UNCHANGED <<now, page, mail, unread, saved, batch, current, dispatched,
                 due, ran, completed, kept, refired, restarts>>

\* What a start from "now" will never list.
StepOver == abandoned' = abandoned \cup (due \ Listed(now))

\* Without a stored row, or when it cannot be read, the trigger starts from
\* "now", and stores nothing yet.
Start ==
  \/ saved.known /\ Resume(saved.cursor, saved.seen, kept) /\ UNCHANGED <<abandoned, faults>>
  \/ ~saved.known /\ Resume(now, << >>, kept) /\ StepOver /\ UNCHANGED faults
  \/ saved.known /\ Fault("load") /\ Resume(now, << >>, {}) /\ StepOver

-----------------------------------------------------------------------------
(* The loop.                                                               *)

\* Mutant of OldestOf: Gmail's own order, newest first.
MutOldestOf(S) ==
  {B \in SUBSET S : /\ Cardinality(B) = Min({page, Cardinality(S)})
                    /\ \A a \in B, b \in S \ B : stamp[a] >= stamp[b]}

\* The oldest page of S; messages of one second come in any order.
OldestOf(S) ==
  {B \in SUBSET S : /\ Cardinality(B) = Min({page, Cardinality(S)})
                    /\ \A a \in B, b \in S \ B : stamp[a] <= stamp[b]}

\* poll_inbox lists the ids; seen ones are dropped before the cut.
List ==
  /\ pc = "list" /\ ~stop
  /\ batch' \in OldestOf(Listed(cursor) \ Range(seen))
  /\ pc' = "fetch"
  /\ UNCHANGED <<now, page, mail, unread, saved, proc, stop, cursor, seen, current, dispatched,
                 history, bounds>>

\* max(cursor, newest received_at of the batch)
Advanced(B) == Max({cursor} \cup {stamp[m] : m \in B})

\* The messages have been fetched: the cursor moves before any is dispatched.
Fetch ==
  /\ pc = "fetch"
  /\ cursor' = Advanced(batch)
  /\ dispatched' = FALSE
  /\ pc' = "dispatch"
  /\ UNCHANGED <<now, page, mail, unread, saved, proc, stop, seen, batch, current, history, bounds>>

\* The poll raises.  The loop sleeps, longer if the token was revoked; a
\* misconfigured account ends it for good.
PollFails ==
  /\ pc \in {"list", "fetch"} /\ (pc = "list" => ~stop)
  /\ batch' = {}
  /\ \/ Fault("poll") /\ pc' = "sleep"
     \/ Fault("config") /\ pc' = "off"
  /\ UNCHANGED <<now, page, mail, unread, saved, proc, stop, cursor, seen, current, dispatched,
                 history, restarts>>

\* Mutant of MarkSeen: an id is only added once the ring has room.
MutMarkSeen(m) == IF Len(seen) = Ring THEN seen ELSE Append(seen, m)

\* _mark_seen: a full ring forgets its oldest id.
MarkSeen(m) == Append(IF Len(seen) = Ring THEN Tail(seen) ELSE seen, m)

\* The oldest message left is marked seen and its callback called.  (The
\* loop's own test of seen_ids never fails: skip_ids has dropped those.)
Dispatch(m) ==
  /\ pc = "dispatch" /\ ~stop
  /\ m \in batch /\ \A n \in batch : stamp[m] <= stamp[n]
  /\ batch' = batch \ {m} /\ current' = m /\ dispatched' = TRUE
  /\ seen' = MarkSeen(m)
  /\ handled' = handled \cup {m}
  /\ refired' = IF m \in handled THEN refired \cup {m} ELSE refired
  /\ pc' = "call"
  /\ UNCHANGED <<now, page, mail, unread, saved, proc, stop, cursor, due, abandoned, ran, completed, kept,
                 bounds>>

\* Mutant of Called: any run that ended marks its message read.
MutCalled ==
  /\ pc = "call"
  /\ ran' = ran \cup {current}
  /\ \E outcome \in {"COMPLETED", "other"} :
       /\ completed' = IF outcome = "COMPLETED" THEN completed \cup {current} ELSE completed
       /\ unread' = unread \ {current}
  /\ pc' = "dispatch" /\ current' = NoMessage
  /\ UNCHANGED <<now, page, mail, saved, proc, stop, cursor, seen, batch, dispatched,
                 due, abandoned, handled, kept, refired, bounds>>

\* The callback returns: the run it created has ended, COMPLETED or not.
\* mark_read_after_success drops UNREAD only in the first case, if it can.
Called ==
  /\ pc = "call"
  /\ ran' = ran \cup {current}
  /\ \/ /\ completed' = completed \cup {current}
        /\ \/ unread' = unread \ {current} /\ UNCHANGED faults
           \/ Fault("label") /\ UNCHANGED unread
     \/ UNCHANGED <<completed, unread, faults>>
  /\ pc' = "dispatch" /\ current' = NoMessage
  /\ UNCHANGED <<now, page, mail, saved, proc, stop, cursor, seen, batch, dispatched,
                 due, abandoned, handled, kept, refired, restarts>>

\* Nothing was created for the message; the loop logs it and goes on, and the
\* message stays marked seen.
CallFails ==
  /\ pc = "call" /\ Fault("dispatch")
  /\ abandoned' = abandoned \cup {current}
  /\ pc' = "dispatch" /\ current' = NoMessage
  /\ UNCHANGED <<now, page, mail, unread, saved, proc, stop, cursor, seen, batch, dispatched,
                 due, ran, completed, handled, kept, refired, restarts>>

\* Mutant of EndBatch: the position is written although the stop event cut
\* the batch short.
MutEndBatch ==
  /\ pc = "dispatch" /\ (batch = {} \/ stop)
  /\ saved' = [known |-> TRUE, cursor |-> cursor, seen |-> seen] /\ kept' = handled
  /\ batch' = {}
  /\ pc' = "sleep"
  /\ UNCHANGED <<now, page, mail, unread, proc, stop, cursor, seen, current, dispatched,
                 due, abandoned, ran, completed, handled, refired, bounds>>

\* The batch is through: _persist_cursor, if anything was dispatched; a
\* failure to write is only logged.
EndBatch ==
  /\ pc = "dispatch" /\ batch = {}
  /\ \/ /\ dispatched
        /\ saved' = [known |-> TRUE, cursor |-> cursor, seen |-> seen] /\ kept' = handled
        /\ UNCHANGED faults
     \/ dispatched /\ Fault("persist") /\ UNCHANGED <<saved, kept>>
     \/ ~dispatched /\ UNCHANGED <<saved, kept, faults>>
  /\ pc' = "sleep"
  /\ UNCHANGED <<now, page, mail, unread, proc, stop, cursor, seen, batch, current, dispatched,
                 due, abandoned, ran, completed, handled, refired, restarts>>

\* The interval (or the back-off) is over.
Wake ==
  /\ pc = "sleep" /\ ~stop /\ pc' = "list"
  /\ UNCHANGED <<now, page, mail, unread, saved, proc, stop, cursor, seen, batch, current, dispatched,
                 history, bounds>>

-----------------------------------------------------------------------------
(* stop(), and the process.                                                *)

Frozen == UNCHANGED <<now, page, mail, unread, saved, due, abandoned, ran, completed, kept, refired, faults>>

Stop ==
  /\ proc = "up" /\ ~stop /\ restarts < MaxRestarts
  /\ stop' = TRUE /\ restarts' = restarts + 1
  /\ UNCHANGED <<proc, pc, cursor, seen, batch, current, dispatched, handled>> /\ Frozen

\* The loop sees the event at its head, between two messages, or while it
\* sleeps; after five seconds it is cancelled wherever it is.  Either way
\* nothing is persisted.
Halt ==
  /\ stop /\ pc # "off"
  /\ pc' = "off" /\ batch' = {} /\ current' = NoMessage
  /\ UNCHANGED <<proc, stop, cursor, seen, dispatched, handled, restarts>> /\ Frozen

\* The process ends: the trigger's memory is gone.
Forget ==
  /\ proc' = "down" /\ pc' = "off" /\ stop' = FALSE
  /\ cursor' = 0 /\ seen' = << >> /\ batch' = {} /\ current' = NoMessage
  /\ dispatched' = FALSE /\ handled' = {}
  /\ Frozen

Exit  == proc = "up" /\ stop /\ pc = "off" /\ Forget /\ UNCHANGED restarts

Crash == proc = "up" /\ restarts < MaxRestarts /\ Forget /\ restarts' = restarts + 1

-----------------------------------------------------------------------------
LoopStep ==
  \/ List \/ Fetch \/ Called \/ EndBatch \/ Wake
  \/ \E m \in Messages : Dispatch(m)

Next ==
  \/ \E m \in Messages : Arrive(m)
  \/ Tick \/ Start \/ LoopStep \/ PollFails \/ CallFails
  \/ Stop \/ Halt \/ Exit \/ Crash

Spec == Init /\ [][Next]_vars

\* The event loop runs the trigger's task, a run it awaits ends, stop() gives
\* up after five seconds, and the service manager starts the process again.
\* Polls may fail, but only MaxFaults times.
Fairness == WF_vars(LoopStep) /\ WF_vars(Halt) /\ WF_vars(Exit) /\ WF_vars(Start)

FairSpec == Spec /\ Fairness

-----------------------------------------------------------------------------
StoredType == [known: BOOLEAN, cursor: 0 .. MaxNow, seen: Seq(Messages)]

TypeOK ==
  /\ now \in 0 .. MaxNow /\ page \in Pages /\ box \subseteq Messages /\ stamp \in [Messages -> 0 .. MaxNow]
  /\ unread \subseteq box /\ saved \in StoredType /\ proc \in {"up", "down"}
  /\ stop \in BOOLEAN /\ pc \in Places /\ cursor \in 0 .. MaxNow
  /\ seen \in Seq(Messages) /\ Len(seen) <= Ring /\ Len(saved.seen) <= Ring
  /\ batch \subseteq box /\ current \in box \cup {NoMessage}
  /\ (pc = "call" <=> current # NoMessage)
  /\ dispatched \in BOOLEAN
  /\ due \subseteq box /\ abandoned \subseteq box /\ completed \subseteq ran /\ ran \subseteq box
  /\ kept \subseteq box /\ handled \subseteq box /\ refired \subseteq handled \cup box
  /\ faults \in 0 .. MaxFaults /\ restarts \in 0 .. MaxRestarts

\* A position (cursor c, ring q) has not stepped over m.
Reaches(c, q, m) == m \in Listed(c) /\ m \notin Range(q)

\* "a cursor that advances to the newest one returned never steps over a
\* message it has not seen": neither the position in memory nor the stored
\* one ever passes a message that is owed a run and has not had it, over
\* late mail, backlogs, failed polls, failed writes, stops and crashes.
NothingSteppedOver ==
  \A m \in due \ (ran \cup abandoned) :
    /\ saved.known => Reaches(saved.cursor, saved.seen, m)
    /\ pc # "off" => m = current \/ m \in batch \/ Reaches(cursor, seen, m)

\* A message that was dispatched is dispatched again by the same process, or
\* by one that loaded the row written after it, only if the ring was too
\* small for the mail stamped within the look-back of it ("the window must
\* hold fewer messages than the ring").
RefiresOnlyPastTheRing ==
  \A m \in refired :
    Cardinality({n \in box \ {m} :
      stamp[n] <= stamp[m] + Lookback /\ stamp[m] <= stamp[n] + Lookback}) >= Ring

\* "unread count becomes a real backlog signal": a message whose runs all
\* failed, or never ended, stays unread.
ReadMeansCompleted == box \ unread \subseteq completed

\* "mail that arrived while the daemon was down fires on the first poll"
\* (module docstring): without a failure of a store or of Gmail, no start
\* steps over a message that arrived since the trigger first ran.
DownMailFires == abandoned = {}

\* Every message owed a run gets one, unless the trigger has switched itself
\* off for good: "mail that arrived while the daemon was down fires on the
\* first poll", and so does whatever a poll, a stop or a crash interrupted.
MailIsRun ==
  \A m \in Messages : m \in due ~> m \in ran \cup abandoned \/ (proc = "up" /\ ~stop /\ pc = "off")
=============================================================================
