--------------------------- MODULE RawTraceGrants ---------------------------
(***************************************************************************)
(* The raw-trace read grant: its rows, the service calls that move them,   *)
(* and the deactivation of the user they are for.                          *)
(*                                                                         *)
(*   backend/src/workflow_platform/auth/raw_trace_grants.py                *)
(*   backend/src/workflow_platform/persistence/postgres.py   the grant repo*)
(*   backend/src/workflow_platform/api/users.py              update_user   *)
(*                                                                         *)
(* Every await of a call is a point where another call can run, so a call  *)
(* is a small program: what it read stays in its locals (draft, todo) while *)
(* the rows move on.  The refs, the reason code and the audit entries are  *)
(* left out; a failing audit append is a failing call.                     *)
(***************************************************************************)
EXTENDS Naturals

CONSTANTS
  Principals,   \* users a grant may be for
  Admins,       \* the users who may call the service
  Orgs,         \* organizations
  Platform,     \* the scope of a platform-wide grant (org_id NULL)
  Expiries,     \* the expires_at a request may carry
  DualControl,  \* WORKFLOW_PLATFORM_RAW_GRANT_DUAL_CONTROL
  UniqueIndex,  \* the store has migration 0009's unique index
  Servers,      \* processes, each with an _activation_lock of its own
  Calls,        \* calls in flight
  Server,       \* Server[c]: the process that runs call c
  MaxGrants,    \* bound: rows
  MaxNow,       \* bound: the clock
  MaxFaults     \* bound: calls that die half-way

Never == 0
Free  == "free"
Ids    == 1 .. MaxGrants
Scopes == Orgs \cup {Platform}

\* One process, or the index that guards the activation across processes.
ASSUME ServersAssumption ==
  /\ UniqueIndex \in BOOLEAN /\ DualControl \in BOOLEAN
  /\ Server \in [Calls -> Servers]
  /\ UniqueIndex \/ \A c, d \in Calls : Server[c] = Server[d]

ASSUME GrantAssumption ==
  /\ Platform \notin Orgs /\ Free \notin Calls /\ Expiries \subseteq Nat
  /\ MaxGrants \in Nat /\ MaxNow \in Nat /\ MaxFaults \in Nat

VARIABLES
  now,
  grants,   \* raw_trace_grants: the row of each id, or Absent
  lock,     \* lock[s]: the call that holds the _activation_lock of s, or Free
  call,     \* call[c]: where the call is and what it holds in its locals
  swept,    \* history: rows listed by a revocation of all grants that has ended
  faults

vars == <<now, grants, lock, call, swept, faults>>

Absent == [state |-> "absent"]
Nobody == "nobody"

States == {"pending", "active", "cancelled", "revoked", "expired"}
Live   == {"active", "pending"}
Dead   == {"cancelled", "revoked", "expired"}
Modes  == {"dual_administrator", "tenant_authorized"}

Grant == [state: States, principal: Principals, scope: Scopes, mode: Modes,
          requester: Admins, approver: Admins \cup {Nobody}, expires: Nat]

Present == {i \in Ids : grants[i] # Absent}

\* A result set: the rows S as they are now.
Listing(S) == [i \in Ids |-> IF i \in S THEN grants[i] ELSE Absent]

\* is_active(): expiry counts from the moment the caller looked at the clock.
Unexpired(g, t) == g.expires = Never \/ g.expires > t
IsActive(g, t)  == g.state = "active" /\ Unexpired(g, t)

SameScope(g, h) == g.principal = h.principal /\ g.scope = h.scope

Idle == [pc |-> "idle"]

\* A call that is about to activate row id, as draft says.
Activation(id, draft, observed) ==
  [pc |-> "lock", id |-> id, draft |-> draft, observed |-> observed, at |-> now]

IsIdle(c) == call[c] = Idle
At(c, pc) == call[c].pc = pc
Left(c) == {i \in Ids : call[c].todo[i] # Absent}
Become(c, local) == call' = [call EXCEPT ![c] = local]

\* The ids no row and no call has taken.
FreeIds == Ids \ (Present \cup {call[c].id : c \in {d \in Calls : call[d].pc \in {"lock", "list", "clear"}}})

Init ==
  /\ now = 0
  /\ grants = [i \in Ids |-> Absent]
  /\ lock = [s \in Servers |-> Free]
  /\ call = [c \in Calls |-> Idle]
  /\ swept = {} /\ faults = 0

Tick == now < MaxNow /\ now' = now + 1 /\ UNCHANGED <<grants, lock, call, swept, faults>>

-----------------------------------------------------------------------------
(* request() and approve().                                                *)

\* An org-scoped grant in the default mode needs no second administrator.
Immediate(scope, mode) ==
  scope # Platform /\ ~DualControl /\ mode = "dual_administrator"

\* Never for oneself, and a platform-wide grant must expire.
MayRequest(p, scope, by, expires) == by # p /\ (scope = Platform => expires # Never)

Request(c, p, scope, mode, by, expires) ==
  /\ IsIdle(c) /\ FreeIds # {} /\ MayRequest(p, scope, by, expires)
  /\ LET id    == CHOOSE i \in FreeIds : TRUE
         draft == [state |-> "pending", principal |-> p, scope |-> scope, mode |-> mode,
                   requester |-> by, approver |-> Nobody, expires |-> expires]
     IN \/ /\ Immediate(scope, mode)
           /\ Become(c, Activation(id, [draft EXCEPT !.state = "active", !.approver = by], "absent"))
           /\ UNCHANGED grants
        \/ /\ ~Immediate(scope, mode)
           /\ grants' = [grants EXCEPT ![id] = draft]
           /\ UNCHANGED call
  /\ UNCHANGED <<now, lock, swept, faults>>

\* Mutant of Approve: nobody checks that the approver is not the requester.
MutApprove(c, id, by) ==
  /\ IsIdle(c) /\ id \in Present /\ grants[id].state = "pending"
  /\ by # grants[id].principal
  /\ Become(c, Activation(id, [grants[id] EXCEPT !.state = "active", !.approver = by], "pending"))
  /\ UNCHANGED <<now, grants, lock, swept, faults>>

\* approve(), up to the lock: the row is read and the approver checked.
Approve(c, id, by) ==
  /\ IsIdle(c) /\ id \in Present /\ grants[id].state = "pending"
  /\ by # grants[id].principal /\ by # grants[id].requester
  /\ Become(c, Activation(id, [grants[id] EXCEPT !.state = "active", !.approver = by], "pending"))
  /\ UNCHANGED <<now, grants, lock, swept, faults>>

\* Mutant of Acquire: the activation does not wait for the lock.
MutAcquire(c) ==
  /\ At(c, "lock")
  /\ lock' = [lock EXCEPT ![Server[c]] = c]
  /\ Become(c, [call[c] EXCEPT !.pc = "list"])
  /\ UNCHANGED <<now, grants, swept, faults>>

\* async with self._activation_lock: one call of a process at a time.
Acquire(c) ==
  /\ At(c, "lock") /\ lock[Server[c]] = Free
  /\ lock' = [lock EXCEPT ![Server[c]] = c]
  /\ Become(c, [call[c] EXCEPT !.pc = "list"])
  /\ UNCHANGED <<now, grants, swept, faults>>

\* _clear_stale_active, first await: the principal's active rows of this scope.
ListActive(c) ==
  /\ At(c, "list")
  /\ Become(c, [pc |-> "clear", id |-> call[c].id, draft |-> call[c].draft,
                observed |-> call[c].observed, at |-> call[c].at,
                todo |-> Listing({i \in Present : /\ grants[i].state = "active"
                                                  /\ SameScope(grants[i], call[c].draft)})])
  /\ UNCHANGED <<now, grants, lock, swept, faults>>

\* A row past its expiry is written back, whole, as EXPIRED.
ClearStale(c, i) ==
  /\ At(c, "clear") /\ i \in Left(c)
  /\ ~IsActive(call[c].todo[i], call[c].at)
  /\ grants' = [grants EXCEPT ![i] = [call[c].todo[i] EXCEPT !.state = "expired"]]
  /\ Become(c, [call[c] EXCEPT !.todo[i] = Absent])
  /\ UNCHANGED <<now, lock, swept, faults>>

\* The call ends and, if it holds the lock, lets go of it.
End(c) ==
  /\ Become(c, Idle)
  /\ lock' = [s \in Servers |-> IF lock[s] = c THEN Free ELSE lock[s]]

\* A live grant for the scope: DuplicateActiveGrant.
Refuse(c) ==
  /\ At(c, "clear")
  /\ \E i \in Left(c) : IsActive(call[c].todo[i], call[c].at)
  /\ End(c)
  /\ UNCHANGED <<now, grants, swept, faults>>

\* The unique index over (principal, scope) of the active rows.
IndexRefuses(id, draft) ==
  /\ UniqueIndex
  /\ \E j \in Present \ {id} : grants[j].state = "active" /\ SameScope(grants[j], draft)

StateOf(id) == grants[id].state

\* Mutant of Activate: a plain save in place of the compare-and-set.
MutActivate(c) ==
  /\ At(c, "clear") /\ Left(c) = {}
  /\ LET id == call[c].id  draft == call[c].draft
     IN IF ~IndexRefuses(id, draft)
        THEN grants' = [grants EXCEPT ![id] = draft] ELSE UNCHANGED grants
  /\ End(c)
  /\ UNCHANGED <<now, swept, faults>>

\* create() of an active row, or the compare-and-set from PENDING; either
\* raises if the index refuses, the second also if the row has moved.
Activate(c) ==
  /\ At(c, "clear") /\ Left(c) = {}
  /\ LET id == call[c].id  draft == call[c].draft
     IN \/ /\ StateOf(id) = call[c].observed /\ ~IndexRefuses(id, draft)
           /\ grants' = [grants EXCEPT ![id] = draft]
        \/ /\ StateOf(id) # call[c].observed \/ IndexRefuses(id, draft)
           /\ UNCHANGED grants
  /\ End(c)
  /\ UNCHANGED <<now, swept, faults>>

-----------------------------------------------------------------------------
(* revoke().                                                               *)

Revoked(st) == IF st = "active" THEN "revoked" ELSE "cancelled"

RevokeRead(c, id) ==
  /\ IsIdle(c) /\ id \in Present /\ grants[id].state \in Live
  /\ Become(c, [pc |-> "revoke", id |-> id, observed |-> grants[id].state,
                draft |-> [grants[id] EXCEPT !.state = Revoked(@)]])
  /\ UNCHANGED <<now, grants, lock, swept, faults>>

\* The compare-and-set from the state that was read.
RevokeWrite(c) ==
  /\ At(c, "revoke")
  /\ \/ /\ StateOf(call[c].id) = call[c].observed
        /\ grants' = [grants EXCEPT ![call[c].id] = call[c].draft]
     \/ StateOf(call[c].id) # call[c].observed /\ UNCHANGED grants
  /\ End(c)
  /\ UNCHANGED <<now, swept, faults>>

-----------------------------------------------------------------------------
(* update_user has saved a deactivation, or a move to another organization; *)
(* revoke_all_for_principal follows.                                       *)

Leave(c, p) ==
  /\ IsIdle(c)
  /\ Become(c, [pc |-> "listall", principal |-> p])
  /\ UNCHANGED <<now, grants, lock, swept, faults>>

ListLive(c) ==
  /\ At(c, "listall")
  /\ LET live == {i \in Present : /\ grants[i].principal = call[c].principal
                                  /\ grants[i].state \in Live}
     IN Become(c, [pc |-> "sweep", listed |-> live, todo |-> Listing(live)])
  /\ UNCHANGED <<now, grants, lock, swept, faults>>

\* Mutant of SweepOne: only a row still in the state that was listed moves.
MutSweepOne(c, i) ==
  /\ At(c, "sweep") /\ i \in Left(c)
  /\ IF StateOf(i) = call[c].todo[i].state
     THEN grants' = [grants EXCEPT ![i] = [call[c].todo[i] EXCEPT !.state = Revoked(@)]]
     ELSE UNCHANGED grants
  /\ Become(c, [call[c] EXCEPT !.todo[i] = Absent])
  /\ UNCHANGED <<now, lock, swept, faults>>

\* A plain save: the row as it was listed, with its new state.
SweepOne(c, i) ==
  /\ At(c, "sweep") /\ i \in Left(c)
  /\ grants' = [grants EXCEPT ![i] = [call[c].todo[i] EXCEPT !.state = Revoked(@)]]
  /\ Become(c, [call[c] EXCEPT !.todo[i] = Absent])
  /\ UNCHANGED <<now, lock, swept, faults>>

SweepEnds(c) ==
  /\ At(c, "sweep") /\ Left(c) = {}
  /\ swept' = swept \cup call[c].listed
  /\ End(c)
  /\ UNCHANGED <<now, grants, faults>>

-----------------------------------------------------------------------------
\* A store or audit write raises, or the client goes away: the call ends
\* where it is, and `async with` gives the lock back.
Abort(c) ==
  /\ ~IsIdle(c) /\ faults < MaxFaults /\ faults' = faults + 1
  /\ End(c)
  /\ UNCHANGED <<now, grants, swept>>

CallStep(c) ==
  \/ Acquire(c) \/ ListActive(c) \/ Refuse(c) \/ Activate(c) \/ RevokeWrite(c) \/ ListLive(c) \/ SweepEnds(c)
  \/ \E i \in Ids : ClearStale(c, i) \/ SweepOne(c, i)

Next ==
  \/ Tick
  \/ \E c \in Calls :
       \/ CallStep(c) \/ Abort(c)
       \/ \E p \in Principals, scope \in Scopes, mode \in Modes, by \in Admins, e \in Expiries :
            Request(c, p, scope, mode, by, e)
       \/ \E id \in Ids : RevokeRead(c, id) \/ \E by \in Admins : Approve(c, id, by)
       \/ \E p \in Principals : Leave(c, p)

Spec == Init /\ [][Next]_vars

-----------------------------------------------------------------------------
\* A platform-wide grant has an expiry.
Granted == {g \in Grant : g.scope = Platform => g.expires # Never}
Row     == Granted \cup {Absent}

\* The locals of a call, by where it is.
ActivateLocal ==
  [pc: {"lock", "list"}, id: Ids, draft: Granted, observed: {"absent", "pending"}, at: Nat]
ClearLocal    ==
  [pc: {"clear"}, id: Ids, draft: Granted, observed: {"absent", "pending"}, at: Nat, todo: [Ids -> Row]]
RevokeLocal   == [pc: {"revoke"}, id: Ids, draft: {g \in Granted : g.state \in Dead}, observed: Live]
LeaveLocal    == [pc: {"listall"}, principal: Principals]
SweepLocal    == [pc: {"sweep"}, listed: SUBSET Ids, todo: [Ids -> Row]]

LocalType == {Idle} \cup ActivateLocal \cup ClearLocal \cup RevokeLocal \cup LeaveLocal \cup SweepLocal

TypeOK ==
  /\ now \in Nat /\ faults \in Nat
  /\ grants \in [Ids -> Row]
  /\ lock \in [Servers -> Calls \cup {Free}]
  /\ call \in [Calls -> LocalType]
  /\ swept \subseteq Ids

\* A principal holds at most one active row for a scope, whichever calls
\* race to activate one: the check and the activation are one critical
\* section in a process, and the index decides between processes.
OneActivePerScope ==
  \A i, j \in Present : i # j /\ grants[i].state = "active" /\ grants[j].state = "active" =>
    ~SameScope(grants[i], grants[j])

\* "The activator must be a DISTINCT administrator -- never the recipient,
\* never the requester": of every active grant that needs two of them.
TwoPersonRule ==
  \A i \in Present : grants[i].state = "active" =>
    /\ grants[i].approver \in Admins \ {grants[i].principal}
    /\ grants[i].requester # grants[i].principal
    /\ ~Immediate(grants[i].scope, grants[i].mode) => grants[i].approver # grants[i].requester

\* A grant that was revoked, cancelled or expired is never live again: "a
\* blind save here would RESURRECT a cancelled grant to active".
DeadStaysDead ==
  [][\A i \in Ids : grants[i].state \in Dead => grants'[i].state \in Dead]_grants

\* Every grant a revocation of all grants found live is dead when it ends,
\* even one that was approved behind its back.
SweepRevokes == \A i \in swept : grants[i].state \in Dead

\* The lock is held by a call inside the critical section and by no other:
\* no way out of it, a refusal, a lost race or an exception, keeps the lock
\* from every later activation.
LockIsGivenBack ==
  \A s \in Servers : lock[s] # Free => At(lock[s], "list") \/ At(lock[s], "clear")

\* "Legal transitions: pending -> {active, rejected, cancelled};
\* active -> {revoked, expired}."
LegalTransitions ==
  [][\A i \in Ids : grants'[i].state # grants[i].state =>
       <<grants[i].state, grants'[i].state>> \in
         {<<"absent", "pending">>, <<"absent", "active">>, <<"pending", "active">>,
          <<"pending", "cancelled">>, <<"active", "revoked">>, <<"active", "expired">>}]_grants
=============================================================================
