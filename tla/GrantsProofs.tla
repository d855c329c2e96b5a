---------------------------- MODULE GrantsProofs ----------------------------
(***************************************************************************)
(* Theorems about RawTraceGrants, for any number of users, organizations,  *)
(* grants, calls, processes and faults.                                    *)
(***************************************************************************)
EXTENDS RawTraceGrants, TLAPS

-----------------------------------------------------------------------------
(* Types.                                                                  *)

\* Where a call is tells what it holds.
LEMMA LocalFacts ==
  ASSUME TypeOK, NEW c \in Calls
  PROVE  /\ At(c, "lock") \/ At(c, "list") => call[c] \in ActivateLocal
         /\ At(c, "clear") => call[c] \in ClearLocal
         /\ At(c, "revoke") => call[c] \in RevokeLocal
         /\ At(c, "listall") => call[c] \in LeaveLocal
         /\ At(c, "sweep") => call[c] \in SweepLocal
BY DEF TypeOK, LocalType, ActivateLocal, ClearLocal, RevokeLocal, LeaveLocal, SweepLocal, Idle, At

\* A fresh id names no row.
LEMMA FreshFacts ==
  ASSUME FreeIds # {}
  PROVE  LET id == CHOOSE i \in FreeIds : TRUE IN id \in Ids /\ grants[id] = Absent
BY DEF FreeIds, Present

\* A request either creates a pending row under a fresh id, or leaves the rows
\* alone and has an approved draft to activate.
LEMMA RequestFacts ==
  ASSUME NEW c \in Calls, NEW p, NEW scope, NEW mode, NEW by, NEW e, Request(c, p, scope, mode, by, e)
  PROVE  /\ by # p
         /\ \/ /\ UNCHANGED grants
               /\ \E id \in Ids : \E g :
                    /\ call' = [call EXCEPT ![c] = Activation(id, g, "absent")]
                    /\ g.principal = p /\ g.requester = by /\ g.approver = by
                    /\ Immediate(g.scope, g.mode)
            \/ /\ UNCHANGED call
               /\ \E id \in Ids : \E g :
                    /\ grants[id] = Absent /\ grants' = [grants EXCEPT ![id] = g]
                    /\ g.principal = p /\ g.requester = by /\ g.state = "pending"
<1> DEFINE fresh == CHOOSE i \in FreeIds : TRUE
           draft == [state |-> "pending", principal |-> p, scope |-> scope, mode |-> mode,
                     requester |-> by, approver |-> Nobody, expires |-> e]
<1>1. fresh \in Ids /\ grants[fresh] = Absent
  BY FreshFacts DEF Request
<1>2. by # p
  BY DEF Request, MayRequest
<1> HIDE DEF fresh
<1>3. CASE /\ UNCHANGED grants /\ Immediate(scope, mode)
           /\ Become(c, Activation(fresh, [draft EXCEPT !.state = "active", !.approver = by], "absent"))
  <2> DEFINE g == [draft EXCEPT !.state = "active", !.approver = by]
  <2>1. /\ g.principal = p /\ g.requester = by /\ g.approver = by
        /\ g.scope = scope /\ g.mode = mode
    OBVIOUS
  <2> HIDE DEF g
  <2>. QED
    BY <1>1, <1>2, <1>3, <2>1 DEF Become, g
<1>4. CASE UNCHANGED call /\ grants' = [grants EXCEPT ![fresh] = draft]
  <2>1. draft.principal = p /\ draft.requester = by /\ draft.state = "pending"
    OBVIOUS
  <2> HIDE DEF draft
  <2>. QED
    BY <1>1, <1>2, <1>4, <2>1
<1>. QED
  BY <1>3, <1>4 DEF Request, fresh

\* What the store returns are rows.
LEMMA ListingFacts ==
  ASSUME TypeOK, NEW S, S \subseteq Present
  PROVE  /\ Listing(S) \in [Ids -> Row]
         /\ \A i \in Ids : Listing(S)[i] # Absent <=> i \in S
BY DEF TypeOK, Listing, Present, Row

\* What is left to write back are rows that were there.
LEMMA LeftFacts ==
  ASSUME TypeOK, NEW c \in Calls, At(c, "clear") \/ At(c, "sweep"), NEW i \in Left(c)
  PROVE  call[c].todo[i] \in Granted
BY LocalFacts DEF Left, ClearLocal, SweepLocal, Row

\* A row moved to a dead state is a row.
LEMMA DeadFacts ==
  ASSUME NEW g \in Granted, NEW st \in Dead
  PROVE  [g EXCEPT !.state = st] \in Granted /\ [g EXCEPT !.state = st].state \in Dead
BY DEF Granted, Grant, Dead, States

\* Revocation ends in a dead state.
LEMMA RevokedFacts == \A st \in States : Revoked(st) \in Dead
BY DEF Revoked, Dead, States

\* What type correctness says of one grant.
LEMMA StateFacts ==
  ASSUME TypeOK, NEW i \in Ids
  PROVE  /\ grants[i] \in Row
         /\ i \in Present <=> grants[i] \in Granted
         /\ grants[i] = Absent <=> StateOf(i) = "absent"
         /\ i \in Present => StateOf(i) \in States
BY DEF TypeOK, Row, Granted, Grant, Present, Absent, States, StateOf

\* Type correctness is inductive.
LEMMA TypeStep ==
  ASSUME TypeOK, [Next]_vars
  PROVE  TypeOK'
<1>1. CASE UNCHANGED vars
  BY <1>1 DEF TypeOK, vars
<1>2. ASSUME Tick
     PROVE  TypeOK'
  BY <1>2 DEF Tick, TypeOK
<1>3. ASSUME NEW c \in Calls, NEW p \in Principals, NEW scope \in Scopes, NEW mode \in Modes,
                NEW by \in Admins, NEW e \in Expiries, Request(c, p, scope, mode, by, e)
     PROVE  TypeOK'
  <2> DEFINE id    == CHOOSE i \in FreeIds : TRUE
             draft == [state |-> "pending", principal |-> p, scope |-> scope, mode |-> mode,
                       requester |-> by, approver |-> Nobody, expires |-> e]
  <2>1. id \in Ids
    BY <1>3, FreshFacts DEF Request
  <2>2. draft \in Granted /\ [draft EXCEPT !.state = "active", !.approver = by] \in Granted
    BY <1>3, GrantAssumption DEF Request, MayRequest, Granted, Grant, States
  <2> HIDE DEF draft, id
  <2>3. CASE /\ Become(c, Activation(id, [draft EXCEPT !.state = "active", !.approver = by], "absent"))
             /\ UNCHANGED grants
    <3>1. Activation(id, [draft EXCEPT !.state = "active", !.approver = by], "absent") \in LocalType
      BY <2>1, <2>2 DEF Activation, LocalType, ActivateLocal, TypeOK
    <3>. QED
      BY <2>3, <3>1, <1>3 DEF Become, TypeOK, Request
  <2>4. CASE grants' = [grants EXCEPT ![id] = draft] /\ UNCHANGED call
    BY <2>4, <2>1, <2>2, <1>3 DEF TypeOK, Row, Request
  <2>. QED
    BY <2>3, <2>4, <1>3 DEF Request, id, draft
<1>4. ASSUME NEW c \in Calls, NEW id \in Ids, NEW by \in Admins, Approve(c, id, by)
     PROVE  TypeOK'
  <2>1. [grants[id] EXCEPT !.state = "active", !.approver = by] \in Granted
    BY <1>4, StateFacts DEF Approve, Granted, Grant, States
  <2>2. Activation(id, [grants[id] EXCEPT !.state = "active", !.approver = by], "pending") \in LocalType
    BY <2>1 DEF Activation, LocalType, ActivateLocal, TypeOK
  <2>. QED
    BY <2>2, <1>4 DEF Approve, Become, TypeOK
<1>5. ASSUME NEW c \in Calls, NEW id \in Ids, RevokeRead(c, id)
     PROVE  TypeOK'
  <2>1. grants[id] \in Granted
    BY <1>5, StateFacts DEF RevokeRead
  <2>2. [grants[id] EXCEPT !.state = Revoked(@)] \in {g \in Granted : g.state \in Dead}
    BY <2>1, RevokedFacts DEF Granted, Grant, Dead, States
  <2>3. [pc |-> "revoke", id |-> id, observed |-> grants[id].state,
         draft |-> [grants[id] EXCEPT !.state = Revoked(@)]] \in LocalType
    BY <2>2, <1>5 DEF LocalType, RevokeLocal, RevokeRead
  <2>. QED
    BY <2>3, <1>5 DEF RevokeRead, Become, TypeOK
<1>6. ASSUME NEW c \in Calls, NEW p \in Principals, Leave(c, p)
     PROVE  TypeOK'
  BY <1>6 DEF Leave, Become, TypeOK, LocalType, LeaveLocal
<1>7. ASSUME NEW c \in Calls, Acquire(c)
     PROVE  TypeOK'
  <2>1. [call[c] EXCEPT !.pc = "list"] \in LocalType
    BY <1>7, LocalFacts DEF Acquire, LocalType, ActivateLocal
  <2>. QED
    BY <2>1, <1>7 DEF Acquire, Become, TypeOK
<1>8. ASSUME NEW c \in Calls, ListActive(c)
     PROVE  TypeOK'
  <2> DEFINE S == {i \in Present : grants[i].state = "active" /\ SameScope(grants[i], call[c].draft)}
  <2>1. Listing(S) \in [Ids -> Row]
    BY ListingFacts
  <2>2. call[c] \in ActivateLocal
    BY <1>8, LocalFacts DEF ListActive
  <2> HIDE DEF S
  <2>3. [pc |-> "clear", id |-> call[c].id, draft |-> call[c].draft, observed |-> call[c].observed,
         at |-> call[c].at, todo |-> Listing(S)] \in LocalType
    BY <2>1, <2>2 DEF LocalType, ActivateLocal, ClearLocal
  <2>. QED
    BY <2>3, <1>8 DEF ListActive, Become, TypeOK, S
<1>9. ASSUME NEW c \in Calls, NEW i \in Ids, ClearStale(c, i)
     PROVE  TypeOK'
  <2>1. call[c] \in ClearLocal /\ call[c].todo[i] \in Granted
    BY <1>9, LocalFacts, LeftFacts DEF ClearStale
  <2>2. [call[c].todo[i] EXCEPT !.state = "expired"] \in Row
    BY <2>1, DeadFacts DEF Row, Dead
  <2>3. [call[c] EXCEPT !.todo[i] = Absent] \in ClearLocal
    BY <2>1 DEF ClearLocal, Row
  <2>4. [call[c] EXCEPT !.todo[i] = Absent] \in LocalType
    BY <2>3 DEF LocalType
  <2>. QED
    BY <2>2, <2>4, <1>9 DEF ClearStale, Become, TypeOK
<1>10. ASSUME NEW c \in Calls, Refuse(c)
     PROVE  TypeOK'
  BY <1>10 DEF Refuse, End, Become, TypeOK, LocalType
<1>11. ASSUME NEW c \in Calls, Activate(c)
     PROVE  TypeOK'
  <2>1. call[c] \in ClearLocal
    BY <1>11, LocalFacts DEF Activate
  <2>2. call[c].id \in Ids /\ call[c].draft \in Row
    BY <2>1 DEF ClearLocal, Row
  <2>. QED
    BY <2>2, <1>11 DEF Activate, End, Become, TypeOK, LocalType
<1>12. ASSUME NEW c \in Calls, RevokeWrite(c)
     PROVE  TypeOK'
  <2>1. call[c] \in RevokeLocal
    BY <1>12, LocalFacts DEF RevokeWrite
  <2>2. call[c].id \in Ids /\ call[c].draft \in Row
    BY <2>1 DEF RevokeLocal, Row
  <2>. QED
    BY <2>2, <1>12 DEF RevokeWrite, End, Become, TypeOK, LocalType
<1>13. ASSUME NEW c \in Calls, ListLive(c)
     PROVE  TypeOK'
  <2> DEFINE S == {i \in Present : grants[i].principal = call[c].principal /\ grants[i].state \in Live}
  <2>1. Listing(S) \in [Ids -> Row] /\ S \subseteq Ids
    BY ListingFacts DEF Present
  <2> HIDE DEF S
  <2>2. [pc |-> "sweep", listed |-> S, todo |-> Listing(S)] \in LocalType
    BY <2>1 DEF LocalType, SweepLocal
  <2>. QED
    BY <2>2, <1>13 DEF ListLive, Become, TypeOK, S
<1>14. ASSUME NEW c \in Calls, NEW i \in Ids, SweepOne(c, i)
     PROVE  TypeOK'
  <2>1. call[c] \in SweepLocal /\ call[c].todo[i] \in Granted
    BY <1>14, LocalFacts, LeftFacts DEF SweepOne
  <2>2. [call[c].todo[i] EXCEPT !.state = Revoked(@)] \in Row
    BY <2>1, DeadFacts, RevokedFacts DEF Row, Granted, Grant
  <2>3. [call[c] EXCEPT !.todo[i] = Absent] \in SweepLocal
    BY <2>1 DEF SweepLocal, Row
  <2>4. [call[c] EXCEPT !.todo[i] = Absent] \in LocalType
    BY <2>3 DEF LocalType
  <2>. QED
    BY <2>2, <2>4, <1>14 DEF SweepOne, Become, TypeOK
<1>15. ASSUME NEW c \in Calls, SweepEnds(c)
     PROVE  TypeOK'
  <2>1. call[c] \in SweepLocal
    BY <1>15, LocalFacts DEF SweepEnds
  <2>. QED
    BY <2>1, <1>15 DEF SweepEnds, End, Become, TypeOK, LocalType, SweepLocal
<1>16. ASSUME NEW c \in Calls, Abort(c)
     PROVE  TypeOK'
  BY <1>16 DEF Abort, End, Become, TypeOK, LocalType
<1>. QED
  BY <1>1, <1>2, <1>3, <1>4, <1>5, <1>6, <1>7, <1>8, <1>9, <1>10, <1>11, <1>12, <1>13, <1>14, <1>15, <1>16 DEF Next, CallStep

\* Every variable, row and local stays within its type, and a platform-wide
\* grant always carries an expiry (RawTraceGrant.expires_at).
THEOREM TypeCorrect == Spec => []TypeOK
<1>1. Init => TypeOK
  BY DEF Init, TypeOK, Row, LocalType
<1>2. TypeOK /\ [Next]_vars => TypeOK'
  BY TypeStep
<1>. QED
  BY <1>1, <1>2, PTL DEF Spec

-----------------------------------------------------------------------------
(* The lock.                                                               *)

\* The lock of a process is held by the one call of it that is inside the
\* critical section.
LockInv ==
  /\ \A s \in Servers : lock[s] # Free =>
       lock[s] \in Calls /\ Server[lock[s]] = s /\ (At(lock[s], "list") \/ At(lock[s], "clear"))
  /\ \A c \in Calls : At(c, "list") \/ At(c, "clear") => lock[Server[c]] = c

\* The lock is taken and given back by the call that is inside.
LEMMA LockStep ==
  ASSUME TypeOK, LockInv, [Next]_vars
  PROVE  LockInv'
<1>1. CASE UNCHANGED vars
  BY <1>1 DEF LockInv, At, vars
<1>2. ASSUME Tick
     PROVE  LockInv'
  BY <1>2 DEF Tick, LockInv, At, TypeOK, IsIdle, Idle
<1>3. ASSUME NEW c \in Calls, NEW p \in Principals, NEW scope \in Scopes, NEW mode \in Modes,
                NEW by \in Admins, NEW e \in Expiries, Request(c, p, scope, mode, by, e)
     PROVE  LockInv'
  BY <1>3, ServersAssumption, GrantAssumption DEF Request, Activation, Become, LockInv, At, TypeOK, IsIdle, Idle
<1>4. ASSUME NEW c \in Calls, NEW id \in Ids, NEW by \in Admins, Approve(c, id, by)
     PROVE  LockInv'
  BY <1>4, ServersAssumption, GrantAssumption DEF Approve, Activation, Become, LockInv, At, TypeOK, IsIdle, Idle
<1>5. ASSUME NEW c \in Calls, NEW id \in Ids, RevokeRead(c, id)
     PROVE  LockInv'
  BY <1>5, ServersAssumption, GrantAssumption DEF RevokeRead, Become, LockInv, At, TypeOK, IsIdle, Idle
<1>6. ASSUME NEW c \in Calls, NEW p \in Principals, Leave(c, p)
     PROVE  LockInv'
  BY <1>6, ServersAssumption, GrantAssumption DEF Leave, Become, LockInv, At, TypeOK, IsIdle, Idle
<1>7. ASSUME NEW c \in Calls, Acquire(c)
     PROVE  LockInv'
  <2>1. call'[c].pc = "list" /\ (\A d \in Calls \ {c} : call'[d] = call[d]) /\ At(c, "lock")
    BY <1>7, LocalFacts DEF Acquire, Become, TypeOK, ActivateLocal
  <2>2. lock[Server[c]] = Free /\ lock' = [lock EXCEPT ![Server[c]] = c]
    BY <1>7 DEF Acquire
  <2>3. Server \in [Calls -> Servers] /\ Free \notin Calls
    BY ServersAssumption, GrantAssumption
  <2>. QED
    BY <2>1, <2>2, <2>3 DEF LockInv, At, TypeOK
<1>8. ASSUME NEW c \in Calls, ListActive(c)
     PROVE  LockInv'
  BY <1>8, ServersAssumption, GrantAssumption DEF ListActive, Become, LockInv, At, TypeOK, IsIdle, Idle
<1>9. ASSUME NEW c \in Calls, NEW i \in Ids, ClearStale(c, i)
     PROVE  LockInv'
  BY <1>9, ServersAssumption, GrantAssumption DEF ClearStale, Become, LockInv, At, TypeOK, IsIdle, Idle
<1>10. ASSUME NEW c \in Calls, Refuse(c)
     PROVE  LockInv'
  BY <1>10, ServersAssumption, GrantAssumption DEF Refuse, Become, End, LockInv, At, TypeOK, IsIdle, Idle
<1>11. ASSUME NEW c \in Calls, Activate(c)
     PROVE  LockInv'
  BY <1>11, ServersAssumption, GrantAssumption DEF Activate, Become, End, LockInv, At, TypeOK, IsIdle, Idle
<1>12. ASSUME NEW c \in Calls, RevokeWrite(c)
     PROVE  LockInv'
  BY <1>12, ServersAssumption, GrantAssumption DEF RevokeWrite, Become, End, LockInv, At, TypeOK, IsIdle, Idle
<1>13. ASSUME NEW c \in Calls, ListLive(c)
     PROVE  LockInv'
  BY <1>13, ServersAssumption, GrantAssumption DEF ListLive, Become, LockInv, At, TypeOK, IsIdle, Idle
<1>14. ASSUME NEW c \in Calls, NEW i \in Ids, SweepOne(c, i)
     PROVE  LockInv'
  BY <1>14, ServersAssumption, GrantAssumption DEF SweepOne, Become, LockInv, At, TypeOK, IsIdle, Idle
<1>15. ASSUME NEW c \in Calls, SweepEnds(c)
     PROVE  LockInv'
  BY <1>15, ServersAssumption, GrantAssumption DEF SweepEnds, Become, End, LockInv, At, TypeOK, IsIdle, Idle
<1>16. ASSUME NEW c \in Calls, Abort(c)
     PROVE  LockInv'
  BY <1>16, ServersAssumption, GrantAssumption DEF Abort, Become, End, LockInv, At, TypeOK, IsIdle, Idle
<1>. QED
  BY <1>1, <1>2, <1>3, <1>4, <1>5, <1>6, <1>7, <1>8, <1>9, <1>10, <1>11, <1>12, <1>13, <1>14, <1>15, <1>16 DEF Next, CallStep

-----------------------------------------------------------------------------
(* The rows.                                                               *)

\* Every write to a row that is dead leaves it dead.
LEMMA DeadStep ==
  ASSUME TypeOK, NEW j \in Ids, grants[j].state \in Dead, [Next]_vars
  PROVE  grants'[j].state \in Dead
<1>1. CASE UNCHANGED vars
  BY <1>1 DEF vars
<1>2. ASSUME Tick
     PROVE  grants'[j].state \in Dead
  BY <1>2 DEF Tick, TypeOK
<1>3. ASSUME NEW c \in Calls, NEW p \in Principals, NEW scope \in Scopes, NEW mode \in Modes,
                NEW by \in Admins, NEW e \in Expiries, Request(c, p, scope, mode, by, e)
     PROVE  grants'[j].state \in Dead
  <2>1. grants[j] # Absent
    BY DEF Dead, Absent
  <2>. QED
    BY <1>3, <2>1, RequestFacts DEF TypeOK
<1>4. ASSUME NEW c \in Calls, NEW id \in Ids, NEW by \in Admins, Approve(c, id, by)
     PROVE  grants'[j].state \in Dead
  BY <1>4 DEF Approve, TypeOK
<1>5. ASSUME NEW c \in Calls, NEW id \in Ids, RevokeRead(c, id)
     PROVE  grants'[j].state \in Dead
  BY <1>5 DEF RevokeRead, TypeOK
<1>6. ASSUME NEW c \in Calls, NEW p \in Principals, Leave(c, p)
     PROVE  grants'[j].state \in Dead
  BY <1>6 DEF Leave, TypeOK
<1>7. ASSUME NEW c \in Calls, Acquire(c)
     PROVE  grants'[j].state \in Dead
  BY <1>7 DEF Acquire, TypeOK
<1>8. ASSUME NEW c \in Calls, ListActive(c)
     PROVE  grants'[j].state \in Dead
  BY <1>8 DEF ListActive, TypeOK
<1>9. ASSUME NEW c \in Calls, NEW i \in Ids, ClearStale(c, i)
     PROVE  grants'[j].state \in Dead
  <2>1. [call[c].todo[i] EXCEPT !.state = "expired"].state \in Dead
    BY <1>9, LeftFacts, DeadFacts DEF ClearStale, Dead
  <2>. QED
    BY <1>9, <2>1 DEF ClearStale, TypeOK
<1>10. ASSUME NEW c \in Calls, Refuse(c)
     PROVE  grants'[j].state \in Dead
  BY <1>10 DEF Refuse, TypeOK
<1>11. ASSUME NEW c \in Calls, Activate(c)
     PROVE  grants'[j].state \in Dead
  <2>1. call[c].observed \notin Dead
    BY <1>11, LocalFacts DEF Activate, ClearLocal, Dead
  <2>. QED
    BY <1>11, <2>1 DEF Activate, TypeOK, StateOf
<1>12. ASSUME NEW c \in Calls, RevokeWrite(c)
     PROVE  grants'[j].state \in Dead
  <2>1. call[c].draft.state \in Dead
    BY <1>12, LocalFacts DEF RevokeWrite, RevokeLocal
  <2>. QED
    BY <1>12, <2>1 DEF RevokeWrite, TypeOK
<1>13. ASSUME NEW c \in Calls, ListLive(c)
     PROVE  grants'[j].state \in Dead
  BY <1>13 DEF ListLive, TypeOK
<1>14. ASSUME NEW c \in Calls, NEW i \in Ids, SweepOne(c, i)
     PROVE  grants'[j].state \in Dead
  <2>1. [call[c].todo[i] EXCEPT !.state = Revoked(@)].state \in Dead
    BY <1>14, LeftFacts, RevokedFacts DEF SweepOne, Granted, Grant
  <2>. QED
    BY <1>14, <2>1 DEF SweepOne, TypeOK
<1>15. ASSUME NEW c \in Calls, SweepEnds(c)
     PROVE  grants'[j].state \in Dead
  BY <1>15 DEF SweepEnds, TypeOK
<1>16. ASSUME NEW c \in Calls, Abort(c)
     PROVE  grants'[j].state \in Dead
  BY <1>16 DEF Abort, TypeOK
<1>. QED
  BY <1>1, <1>2, <1>3, <1>4, <1>5, <1>6, <1>7, <1>8, <1>9, <1>10, <1>11, <1>12, <1>13, <1>14, <1>15, <1>16 DEF Next, CallStep

\* A grant that was revoked, cancelled or expired is never live again: the
\* compare-and-set of approve() and revoke() and the states the blind saves
\* write see to it, whatever the calls race with.
THEOREM DeadRowsStayDead == Spec => DeadStaysDead
<1>1. TypeOK /\ [Next]_vars => [\A i \in Ids : grants[i].state \in Dead => grants'[i].state \in Dead]_grants
  BY DeadStep
<1>. QED
  BY <1>1, TypeCorrect, PTL DEF Spec, DeadStaysDead

\* A sweep has dealt with the rows it listed, up to those it has left.
SweepInv ==
  /\ SweepRevokes
  /\ \A c \in Calls : At(c, "sweep") =>
       \A i \in call[c].listed : i \in Left(c) \/ grants[i].state \in Dead

\* A listed row is dead once it has been swept, and stays dead.
LEMMA SweepStep ==
  ASSUME TypeOK, SweepInv, [Next]_vars
  PROVE  SweepInv'
<1>a. \A i \in Ids : grants[i].state \in Dead => grants'[i].state \in Dead
  BY DeadStep
<1>1. CASE UNCHANGED vars
  BY <1>1 DEF SweepInv, SweepRevokes, Left, At, vars
<1>2. ASSUME Tick
     PROVE  SweepInv'
  BY <1>2, <1>a DEF Tick, SweepInv, SweepRevokes, Left, At, TypeOK, IsIdle, Idle
<1>3. ASSUME NEW c \in Calls, NEW p \in Principals, NEW scope \in Scopes, NEW mode \in Modes,
                NEW by \in Admins, NEW e \in Expiries, Request(c, p, scope, mode, by, e)
     PROVE  SweepInv'
  <2>1. \A d \in Calls : At(d, "sweep")' => call'[d] = call[d]
    BY <1>3 DEF Request, Become, TypeOK, At, Activation
  <2>2. \A d \in Calls : At(d, "sweep") => \A k \in call[d].listed : k \in Ids
    BY LocalFacts DEF SweepLocal
  <2>3. swept' = swept
    BY <1>3 DEF Request
  <2>. QED
    BY <1>a, <2>1, <2>2, <2>3 DEF SweepInv, SweepRevokes, At, Left, TypeOK
<1>4. ASSUME NEW c \in Calls, NEW id \in Ids, NEW by \in Admins, Approve(c, id, by)
     PROVE  SweepInv'
  BY <1>4, <1>a DEF Approve, Become, Activation, SweepInv, SweepRevokes, Left, At, TypeOK, IsIdle, Idle
<1>5. ASSUME NEW c \in Calls, NEW id \in Ids, RevokeRead(c, id)
     PROVE  SweepInv'
  BY <1>5, <1>a DEF RevokeRead, Become, SweepInv, SweepRevokes, Left, At, TypeOK, IsIdle, Idle
<1>6. ASSUME NEW c \in Calls, NEW p \in Principals, Leave(c, p)
     PROVE  SweepInv'
  BY <1>6, <1>a DEF Leave, Become, SweepInv, SweepRevokes, Left, At, TypeOK, IsIdle, Idle
<1>7. ASSUME NEW c \in Calls, Acquire(c)
     PROVE  SweepInv'
  BY <1>7, <1>a DEF Acquire, Become, SweepInv, SweepRevokes, Left, At, TypeOK, IsIdle, Idle
<1>8. ASSUME NEW c \in Calls, ListActive(c)
     PROVE  SweepInv'
  BY <1>8, <1>a DEF ListActive, Become, SweepInv, SweepRevokes, Left, At, TypeOK, IsIdle, Idle
<1>9. ASSUME NEW c \in Calls, NEW i \in Ids, ClearStale(c, i)
     PROVE  SweepInv'
  <2>1. \A d \in Calls : At(d, "sweep")' => call'[d] = call[d]
    BY <1>9, LocalFacts DEF ClearStale, Become, TypeOK, At, ClearLocal
  <2>2. \A d \in Calls : At(d, "sweep") => \A k \in call[d].listed : k \in Ids
    BY LocalFacts DEF SweepLocal
  <2>3. swept' = swept
    BY <1>9 DEF ClearStale
  <2>. QED
    BY <1>a, <2>1, <2>2, <2>3 DEF SweepInv, SweepRevokes, At, Left, TypeOK
<1>10. ASSUME NEW c \in Calls, Refuse(c)
     PROVE  SweepInv'
  BY <1>10, <1>a DEF Refuse, Become, End, SweepInv, SweepRevokes, Left, At, TypeOK, IsIdle, Idle
<1>11. ASSUME NEW c \in Calls, Activate(c)
     PROVE  SweepInv'
  <2>1. \A d \in Calls : At(d, "sweep")' => call'[d] = call[d]
    BY <1>11 DEF Activate, Become, TypeOK, At, End, Idle
  <2>2. \A d \in Calls : At(d, "sweep") => \A k \in call[d].listed : k \in Ids
    BY LocalFacts DEF SweepLocal
  <2>3. swept' = swept
    BY <1>11 DEF Activate
  <2>. QED
    BY <1>a, <2>1, <2>2, <2>3 DEF SweepInv, SweepRevokes, At, Left, TypeOK
<1>12. ASSUME NEW c \in Calls, RevokeWrite(c)
     PROVE  SweepInv'
  <2>1. \A d \in Calls : At(d, "sweep")' => call'[d] = call[d]
    BY <1>12 DEF RevokeWrite, Become, TypeOK, At, End, Idle
  <2>2. \A d \in Calls : At(d, "sweep") => \A k \in call[d].listed : k \in Ids
    BY LocalFacts DEF SweepLocal
  <2>3. swept' = swept
    BY <1>12 DEF RevokeWrite
  <2>. QED
    BY <1>a, <2>1, <2>2, <2>3 DEF SweepInv, SweepRevokes, At, Left, TypeOK
<1>13. ASSUME NEW c \in Calls, ListLive(c)
     PROVE  SweepInv'
  <2> DEFINE S == {i \in Present : grants[i].principal = call[c].principal /\ grants[i].state \in Live}
  <2>1. \A i \in S : i \in Ids /\ Listing(S)[i] # Absent
    BY ListingFacts DEF Present
  <2> HIDE DEF S
  <2>2. call' = [call EXCEPT ![c] = [pc |-> "sweep", listed |-> S, todo |-> Listing(S)]]
    BY <1>13 DEF ListLive, Become, S
  <2>3. UNCHANGED <<grants, swept>>
    BY <1>13 DEF ListLive
  <2>. QED
    BY <2>1, <2>2, <2>3 DEF SweepInv, SweepRevokes, Left, At, TypeOK
<1>14. ASSUME NEW c \in Calls, NEW i \in Ids, SweepOne(c, i)
     PROVE  SweepInv'
  <2>1. call[c] \in SweepLocal /\ i \in Ids /\ call[c].todo[i] \in Granted
    BY <1>14, LocalFacts, LeftFacts DEF SweepOne
  <2>2. [call[c].todo[i] EXCEPT !.state = Revoked(@)].state \in Dead
    BY <2>1, RevokedFacts DEF Granted, Grant
  <2>3. grants'[i].state \in Dead
    BY <1>14, <2>2 DEF SweepOne, TypeOK
  <2>4. call'[c].listed = call[c].listed /\ \A k \in Left(c) : k # i => k \in Left(c)'
    BY <1>14, <2>1 DEF SweepOne, Become, Left, TypeOK, SweepLocal
  <2>5. \A d \in Calls : d # c => call'[d] = call[d]
    BY <1>14 DEF SweepOne, Become, TypeOK
  <2>6. \A k \in call[c].listed : k \in Ids
    BY <2>1 DEF SweepLocal
  <2>7. At(c, "sweep") /\ swept' = swept
    BY <1>14 DEF SweepOne
  <2>8. \A k \in call[c].listed : k \in Left(c)' \/ grants'[k].state \in Dead
    BY <1>a, <2>3, <2>4, <2>6, <2>7 DEF SweepInv
  <2>9. \A d \in Calls : At(d, "sweep") => \A k \in call[d].listed : k \in Ids
    BY LocalFacts DEF SweepLocal
  <2>10. \A d \in Calls \ {c} : At(d, "sweep")' =>
           \A k \in call'[d].listed : k \in Left(d)' \/ grants'[k].state \in Dead
    BY <1>a, <2>5, <2>9 DEF SweepInv, At, Left
  <2>. QED
    BY <1>a, <2>4, <2>7, <2>8, <2>10 DEF SweepInv, SweepRevokes, TypeOK
<1>15. ASSUME NEW c \in Calls, SweepEnds(c)
     PROVE  SweepInv'
  <2>1. \A k \in call[c].listed : grants[k].state \in Dead
    BY <1>15 DEF SweepEnds, SweepInv
  <2>. QED
    BY <1>15, <2>1 DEF SweepEnds, Become, End, Idle, SweepInv, SweepRevokes, Left, At, TypeOK
<1>16. ASSUME NEW c \in Calls, Abort(c)
     PROVE  SweepInv'
  BY <1>16, <1>a DEF Abort, Become, End, SweepInv, SweepRevokes, Left, At, TypeOK, IsIdle, Idle
<1>. QED
  BY <1>1, <1>2, <1>3, <1>4, <1>5, <1>6, <1>7, <1>8, <1>9, <1>10, <1>11, <1>12, <1>13, <1>14, <1>15, <1>16 DEF Next, CallStep

-----------------------------------------------------------------------------
(* Activation.                                                             *)

\* No step but an activation makes a row active, or changes one that stays so.
LEMMA OnlyActivateActivates ==
  ASSUME TypeOK, NEW j \in Ids, grants'[j].state = "active", \A c \in Calls : ~Activate(c), [Next]_vars
  PROVE  grants'[j] = grants[j]
<1>1. CASE UNCHANGED vars
  BY <1>1 DEF vars
<1>2. ASSUME Tick
     PROVE  grants'[j] = grants[j]
  BY <1>2 DEF Tick, TypeOK
<1>3. ASSUME NEW c \in Calls, NEW p \in Principals, NEW scope \in Scopes, NEW mode \in Modes,
                NEW by \in Admins, NEW e \in Expiries, Request(c, p, scope, mode, by, e)
     PROVE  grants'[j] = grants[j]
  BY <1>3, RequestFacts DEF TypeOK
<1>4. ASSUME NEW c \in Calls, NEW id \in Ids, NEW by \in Admins, Approve(c, id, by)
     PROVE  grants'[j] = grants[j]
  BY <1>4 DEF Approve, TypeOK
<1>5. ASSUME NEW c \in Calls, NEW id \in Ids, RevokeRead(c, id)
     PROVE  grants'[j] = grants[j]
  BY <1>5 DEF RevokeRead, TypeOK
<1>6. ASSUME NEW c \in Calls, NEW p \in Principals, Leave(c, p)
     PROVE  grants'[j] = grants[j]
  BY <1>6 DEF Leave, TypeOK
<1>7. ASSUME NEW c \in Calls, Acquire(c)
     PROVE  grants'[j] = grants[j]
  BY <1>7 DEF Acquire, TypeOK
<1>8. ASSUME NEW c \in Calls, ListActive(c)
     PROVE  grants'[j] = grants[j]
  BY <1>8 DEF ListActive, TypeOK
<1>9. ASSUME NEW c \in Calls, NEW i \in Ids, ClearStale(c, i)
     PROVE  grants'[j] = grants[j]
  <2>1. [call[c].todo[i] EXCEPT !.state = "expired"].state # "active"
    BY <1>9, LeftFacts, DeadFacts DEF ClearStale, Dead
  <2>. QED
    BY <1>9, <2>1 DEF ClearStale, TypeOK
<1>10. ASSUME NEW c \in Calls, Refuse(c)
     PROVE  grants'[j] = grants[j]
  BY <1>10 DEF Refuse, TypeOK
<1>11. ASSUME NEW c \in Calls, Activate(c)
     PROVE  grants'[j] = grants[j]
  BY <1>11
<1>12. ASSUME NEW c \in Calls, RevokeWrite(c)
     PROVE  grants'[j] = grants[j]
  <2>1. call[c].draft.state # "active"
    BY <1>12, LocalFacts DEF RevokeWrite, RevokeLocal, Dead
  <2>. QED
    BY <1>12, <2>1 DEF RevokeWrite, TypeOK
<1>13. ASSUME NEW c \in Calls, ListLive(c)
     PROVE  grants'[j] = grants[j]
  BY <1>13 DEF ListLive, TypeOK
<1>14. ASSUME NEW c \in Calls, NEW i \in Ids, SweepOne(c, i)
     PROVE  grants'[j] = grants[j]
  <2>1. [call[c].todo[i] EXCEPT !.state = Revoked(@)].state # "active"
    BY <1>14, LeftFacts, RevokedFacts DEF SweepOne, Granted, Grant, Dead
  <2>. QED
    BY <1>14, <2>1 DEF SweepOne, TypeOK
<1>15. ASSUME NEW c \in Calls, SweepEnds(c)
     PROVE  grants'[j] = grants[j]
  BY <1>15 DEF SweepEnds, TypeOK
<1>16. ASSUME NEW c \in Calls, Abort(c)
     PROVE  grants'[j] = grants[j]
  BY <1>16 DEF Abort, TypeOK
<1>. QED
  BY <1>1, <1>2, <1>3, <1>4, <1>5, <1>6, <1>7, <1>8, <1>9, <1>10, <1>11, <1>12, <1>13, <1>14, <1>15, <1>16 DEF Next, CallStep

\* An activation writes one row, which the index lets in.
LEMMA ActivateFacts ==
  ASSUME TypeOK, NEW c \in Calls, Activate(c)
  PROVE  \/ UNCHANGED grants
         \/ /\ call[c].id \in Ids /\ call[c].draft \in Granted
            /\ grants' = [grants EXCEPT ![call[c].id] = call[c].draft]
            /\ ~IndexRefuses(call[c].id, call[c].draft)
  BY LocalFacts DEF Activate, ClearLocal

\* Within a process, the rows that could clash with an activation are those
\* the call has still to look at: nobody else activates while it looks.
ScopeInv ==
  /\ OneActivePerScope
  /\ ~UniqueIndex => \A c \in Calls : At(c, "clear") =>
       \A j \in Present : grants[j].state = "active" /\ SameScope(grants[j], call[c].draft) => j \in Left(c)

\* Every step keeps ScopeInv.
LEMMA ScopeStep ==
  ASSUME TypeOK, LockInv, ScopeInv, [Next]_vars
  PROVE  ScopeInv'
<1>1. CASE \A c \in Calls : ~Activate(c)
  <2>1. \A j \in Ids : grants'[j].state = "active" => grants'[j] = grants[j]
    BY <1>1, OnlyActivateActivates
  <2>2. \A j \in Present' : grants'[j].state = "active" => j \in Present /\ grants'[j] = grants[j]
    BY <2>1 DEF Present, Absent
  <2>3. OneActivePerScope'
    BY <2>2 DEF ScopeInv, OneActivePerScope, SameScope
  <2>4. ASSUME NEW d \in Calls, At(d, "clear")', call'[d] = call[d], ~UniqueIndex
        PROVE  \A j \in Present' : grants'[j].state = "active" /\ SameScope(grants[j], call[d].draft)'
                 => j \in Left(d)'
    BY <2>2, <2>4 DEF ScopeInv, At, SameScope, Left
  <2>5. ASSUME NEW d \in Calls, ListActive(d)
        PROVE  \A j \in Present' : grants'[j].state = "active" /\ SameScope(grants[j], call[d].draft)'
                 => j \in Left(d)'
    <3> DEFINE S == {i \in Present : grants[i].state = "active" /\ SameScope(grants[i], call[d].draft)}
    <3>1. \A i \in S : i \in Ids /\ Listing(S)[i] # Absent
      BY ListingFacts DEF Present
    <3>2. UNCHANGED grants
      BY <2>5 DEF ListActive
    <3>3. call'[d].draft = call[d].draft /\ call'[d].todo = Listing(S)
      BY <2>5 DEF ListActive, Become, TypeOK
    <3>4. \A i \in S : i \in Left(d)'
      BY <3>1, <3>3 DEF Left
    <3>. QED
      BY <2>2, <3>2, <3>3, <3>4 DEF SameScope
  <2>6. ASSUME NEW d \in Calls, NEW i \in Ids, ClearStale(d, i), ~UniqueIndex
        PROVE  \A j \in Present' : grants'[j].state = "active" /\ SameScope(grants[j], call[d].draft)'
                 => j \in Left(d)'
    <3>1. call[d] \in ClearLocal /\ call[d].todo[i] \in Granted
      BY <2>6, LocalFacts, LeftFacts DEF ClearStale
    <3>2. grants'[i].state # "active"
      BY <2>6, <3>1, DeadFacts DEF ClearStale, TypeOK, Dead
    <3>3. call'[d].draft = call[d].draft /\ \A j \in Left(d) \ {i} : j \in Left(d)'
      BY <2>6, <3>1 DEF ClearStale, Become, Left, TypeOK, ClearLocal
    <3>4. At(d, "clear")
      BY <2>6 DEF ClearStale
    <3>. QED
      BY <2>2, <2>6, <3>2, <3>3, <3>4 DEF ScopeInv, SameScope
  <2>7. ASSUME NEW d \in Calls, At(d, "clear")'
        PROVE  call'[d] = call[d] \/ ListActive(d) \/ \E i \in Ids : ClearStale(d, i)
    <3>1. CASE UNCHANGED vars
      BY <3>1 DEF vars
    <3>2. CASE Tick
      BY <3>2 DEF Tick
    <3>3. ASSUME NEW c \in Calls, c # d, CallStep(c) \/ Abort(c)
          PROVE  call'[d] = call[d]
      BY <3>3 DEF CallStep, Abort, Acquire, ListActive, Refuse, Activate, RevokeWrite, ListLive, SweepEnds,
                  ClearStale, SweepOne, End, Become, TypeOK
    <3>4. ASSUME CallStep(d) \/ Abort(d)
          PROVE  ListActive(d) \/ \E i \in Ids : ClearStale(d, i)
      <4>1. CASE Acquire(d)
        BY <4>1, <2>7, LocalFacts DEF Acquire, Become, At, TypeOK, ActivateLocal
      <4>2. CASE \E i \in Ids : SweepOne(d, i)
        BY <4>2, <2>7, LocalFacts DEF SweepOne, Become, At, TypeOK, SweepLocal
      <4>. QED
        BY <3>4, <4>1, <4>2, <2>7, <1>1 DEF CallStep, Abort, Refuse, RevokeWrite, ListLive, SweepEnds, End, Become,
           At, Idle, TypeOK
    <3>5. ASSUME NEW c \in Calls, NEW p \in Principals, NEW scope \in Scopes, NEW mode \in Modes,
                NEW by \in Admins, NEW e \in Expiries, Request(c, p, scope, mode, by, e)
          PROVE  call'[d] = call[d]
      BY <3>5, <2>7, RequestFacts DEF Activation, At, TypeOK
    <3>6. ASSUME NEW c \in Calls, NEW id \in Ids, RevokeRead(c, id)
          PROVE  call'[d] = call[d]
      BY <3>6, <2>7 DEF RevokeRead, Become, At, TypeOK
    <3>7. ASSUME NEW c \in Calls, NEW id \in Ids, NEW by \in Admins, Approve(c, id, by)
          PROVE  call'[d] = call[d]
      BY <3>7, <2>7 DEF Approve, Activation, Become, At, TypeOK
    <3>8. ASSUME NEW c \in Calls, NEW p \in Principals, Leave(c, p)
          PROVE  call'[d] = call[d]
      BY <3>8, <2>7 DEF Leave, Become, At, TypeOK
    <3>. QED
      BY <3>1, <3>2, <3>3, <3>4, <3>5, <3>6, <3>7, <3>8 DEF Next
  <2>. QED
    BY <2>3, <2>4, <2>5, <2>6, <2>7 DEF ScopeInv
<1>2. ASSUME NEW c \in Calls, Activate(c)
      PROVE  ScopeInv'
  <2>1. call' = [call EXCEPT ![c] = Idle] /\ At(c, "clear") /\ Left(c) = {}
    BY <1>2 DEF Activate, End, Become
  <2>2. CASE UNCHANGED grants
    BY <2>1, <2>2 DEF ScopeInv, OneActivePerScope, Present, SameScope, At, Left, Idle, TypeOK
  <2>3. CASE /\ call[c].id \in Ids /\ call[c].draft \in Granted
             /\ grants' = [grants EXCEPT ![call[c].id] = call[c].draft]
             /\ ~IndexRefuses(call[c].id, call[c].draft)
    <3> DEFINE id == call[c].id
    <3>1. \A j \in Ids \ {id} : grants'[j] = grants[j]
      BY <2>3 DEF TypeOK
    <3>2. \A j \in Present \ {id} : grants[j].state = "active" => ~SameScope(grants[j], call[c].draft)
      <4>1. CASE UniqueIndex
        BY <2>3, <4>1 DEF IndexRefuses
      <4>2. CASE ~UniqueIndex
        BY <2>1, <4>2 DEF ScopeInv
      <4>. QED
        BY <4>1, <4>2
    <3>3. grants'[id] = call[c].draft
      BY <2>3 DEF TypeOK
    <3>4. OneActivePerScope'
      BY <3>1, <3>2, <3>3 DEF ScopeInv, OneActivePerScope, Present, SameScope
    <3>5. ASSUME ~UniqueIndex, NEW d \in Calls, At(d, "clear")'
          PROVE  FALSE
      <4>1. d # c /\ At(d, "clear")
        BY <2>1, <3>5 DEF At, Idle, TypeOK
      <4>2. Server[c] = Server[d]
        BY <3>5, ServersAssumption
      <4>. QED
        BY <4>1, <4>2, <2>1 DEF LockInv
    <3>. QED
      BY <3>4, <3>5 DEF ScopeInv
  <2>. QED
    BY <1>2, <2>2, <2>3, ActivateFacts
<1>. QED
  BY <1>1, <1>2

\* A principal holds at most one active grant for a scope: one process with
\* its lock, or any number of them with the unique index.
THEOREM OneActiveGrant == Spec => []OneActivePerScope
<1>1. Init => LockInv /\ ScopeInv
  BY DEF Init, LockInv, ScopeInv, OneActivePerScope, Present, At, Idle
<1>2. TypeOK /\ LockInv /\ ScopeInv /\ [Next]_vars => (LockInv /\ ScopeInv)'
  BY LockStep, ScopeStep
<1>3. ScopeInv => OneActivePerScope
  BY DEF ScopeInv
<1>. QED
  BY <1>1, <1>2, <1>3, TypeCorrect, PTL DEF Spec

\* No call keeps the activation lock once it has left the critical section.
THEOREM LockNeverLeaks == Spec => []LockIsGivenBack
<1>1. Init => LockInv
  BY DEF Init, LockInv, At, Idle
<1>2. TypeOK /\ LockInv /\ [Next]_vars => LockInv'
  BY LockStep
<1>3. LockInv => LockIsGivenBack
  BY DEF LockInv, LockIsGivenBack
<1>. QED
  BY <1>1, <1>2, <1>3, TypeCorrect, PTL DEF Spec

\* When a revocation of all grants ends, every grant it found live is dead,
\* whatever was approved in the meantime.
THEOREM SweepsRevoke == Spec => []SweepRevokes
<1>1. Init => SweepInv
  BY DEF Init, SweepInv, SweepRevokes, At, Idle
<1>2. TypeOK /\ SweepInv /\ [Next]_vars => SweepInv'
  BY SweepStep
<1>3. SweepInv => SweepRevokes
  BY DEF SweepInv
<1>. QED
  BY <1>1, <1>2, <1>3, TypeCorrect, PTL DEF Spec

-----------------------------------------------------------------------------
(* The two persons.                                                        *)

\* Who asked, who approved, and for whom.
Authorized(g) ==
  /\ g.approver \in Admins \ {g.principal}
  /\ g.requester # g.principal
  /\ ~Immediate(g.scope, g.mode) => g.approver # g.requester

\* The rows, and the drafts of the activations in flight, are authorized.
TwoInv ==
  /\ \A i \in Present : /\ grants[i].state = "active" => Authorized(grants[i])
                        /\ grants[i].state = "pending" => grants[i].requester # grants[i].principal
  /\ \A c \in Calls : At(c, "lock") \/ At(c, "list") \/ At(c, "clear") => Authorized(call[c].draft)

\* Nobody's request for oneself ever becomes a pending row.
LEMMA PendingStep ==
  ASSUME TypeOK, TwoInv, NEW j \in Present', grants'[j].state = "pending", [Next]_vars
  PROVE  grants'[j].requester # grants'[j].principal
<1>1. CASE UNCHANGED vars
  BY <1>1 DEF vars, TwoInv, Present
<1>2. ASSUME Tick
     PROVE  grants'[j].requester # grants'[j].principal
  BY <1>2 DEF Tick, TwoInv, TypeOK, Present
<1>3. ASSUME NEW c \in Calls, NEW p \in Principals, NEW scope \in Scopes, NEW mode \in Modes,
                NEW by \in Admins, NEW e \in Expiries, Request(c, p, scope, mode, by, e)
     PROVE  grants'[j].requester # grants'[j].principal
  BY <1>3, RequestFacts DEF TypeOK, TwoInv, Present
<1>4. ASSUME NEW c \in Calls, NEW id \in Ids, NEW by \in Admins, Approve(c, id, by)
     PROVE  grants'[j].requester # grants'[j].principal
  BY <1>4 DEF Approve, TwoInv, TypeOK, Present
<1>5. ASSUME NEW c \in Calls, NEW id \in Ids, RevokeRead(c, id)
     PROVE  grants'[j].requester # grants'[j].principal
  BY <1>5 DEF RevokeRead, TwoInv, TypeOK, Present
<1>6. ASSUME NEW c \in Calls, NEW p \in Principals, Leave(c, p)
     PROVE  grants'[j].requester # grants'[j].principal
  BY <1>6 DEF Leave, TwoInv, TypeOK, Present
<1>7. ASSUME NEW c \in Calls, Acquire(c)
     PROVE  grants'[j].requester # grants'[j].principal
  BY <1>7 DEF Acquire, TwoInv, TypeOK, Present
<1>8. ASSUME NEW c \in Calls, ListActive(c)
     PROVE  grants'[j].requester # grants'[j].principal
  BY <1>8 DEF ListActive, TwoInv, TypeOK, Present
<1>9. ASSUME NEW c \in Calls, NEW i \in Ids, ClearStale(c, i)
     PROVE  grants'[j].requester # grants'[j].principal
  <2>1. [call[c].todo[i] EXCEPT !.state = "expired"].state # "pending"
    BY <1>9, LeftFacts, DeadFacts DEF ClearStale, Dead
  <2>. QED
    BY <1>9, <2>1 DEF ClearStale, TypeOK, TwoInv, Present
<1>10. ASSUME NEW c \in Calls, Refuse(c)
     PROVE  grants'[j].requester # grants'[j].principal
  BY <1>10 DEF Refuse, TwoInv, TypeOK, Present
<1>11. ASSUME NEW c \in Calls, Activate(c)
     PROVE  grants'[j].requester # grants'[j].principal
  <2>1. Authorized(call[c].draft)
    BY <1>11 DEF Activate, TwoInv
  <2>. QED
    BY <1>11, <2>1, ActivateFacts DEF Authorized, TypeOK, TwoInv, Present
<1>12. ASSUME NEW c \in Calls, RevokeWrite(c)
     PROVE  grants'[j].requester # grants'[j].principal
  <2>1. call[c].draft.state # "pending"
    BY <1>12, LocalFacts DEF RevokeWrite, RevokeLocal, Dead
  <2>. QED
    BY <1>12, <2>1 DEF RevokeWrite, TypeOK, TwoInv, Present
<1>13. ASSUME NEW c \in Calls, ListLive(c)
     PROVE  grants'[j].requester # grants'[j].principal
  BY <1>13 DEF ListLive, TwoInv, TypeOK, Present
<1>14. ASSUME NEW c \in Calls, NEW i \in Ids, SweepOne(c, i)
     PROVE  grants'[j].requester # grants'[j].principal
  <2>1. [call[c].todo[i] EXCEPT !.state = Revoked(@)].state # "pending"
    BY <1>14, LeftFacts, RevokedFacts DEF SweepOne, Granted, Grant, Dead
  <2>. QED
    BY <1>14, <2>1 DEF SweepOne, TypeOK, TwoInv, Present
<1>15. ASSUME NEW c \in Calls, SweepEnds(c)
     PROVE  grants'[j].requester # grants'[j].principal
  BY <1>15 DEF SweepEnds, TwoInv, TypeOK, Present
<1>16. ASSUME NEW c \in Calls, Abort(c)
     PROVE  grants'[j].requester # grants'[j].principal
  BY <1>16 DEF Abort, TwoInv, TypeOK, Present
<1>. QED
  BY <1>1, <1>2, <1>3, <1>4, <1>5, <1>6, <1>7, <1>8, <1>9, <1>10, <1>11, <1>12, <1>13, <1>14, <1>15, <1>16 DEF Next, CallStep

\* What a call is about to activate is authorized, from its first look on.
LEMMA DraftStep ==
  ASSUME TypeOK, TwoInv, NEW d \in Calls, At(d, "lock")' \/ At(d, "list")' \/ At(d, "clear")', [Next]_vars
  PROVE  Authorized(call'[d].draft)
<1>1. CASE UNCHANGED vars
  BY <1>1 DEF vars, TwoInv, At
<1>2. ASSUME Tick
     PROVE  Authorized(call'[d].draft)
  BY <1>2 DEF Tick, TwoInv, TypeOK, At
<1>3. ASSUME NEW c \in Calls, NEW p \in Principals, NEW scope \in Scopes, NEW mode \in Modes,
                NEW by \in Admins, NEW e \in Expiries, Request(c, p, scope, mode, by, e)
     PROVE  Authorized(call'[d].draft)
  <2>1. PICK id, g : \/ call' = call
                              \/ /\ call' = [call EXCEPT ![c] = Activation(id, g, "absent")]
                                 /\ g.principal = p /\ g.requester = by /\ g.approver = by
                                 /\ by # p /\ Immediate(g.scope, g.mode)
    BY <1>3, RequestFacts
  <2>2. CASE d = c /\ call' # call
    BY <2>1, <2>2 DEF Authorized, Activation, TypeOK
  <2>3. CASE d # c \/ call' = call
    BY <2>1, <2>3 DEF TwoInv, TypeOK, At
  <2>. QED
    BY <2>2, <2>3
<1>4. ASSUME NEW c \in Calls, NEW id \in Ids, NEW by \in Admins, Approve(c, id, by)
     PROVE  Authorized(call'[d].draft)
  <2>1. CASE d = c
    <3>1. grants[id] \in Granted /\ id \in Present /\ grants[id].state = "pending"
      BY <1>4, StateFacts DEF Approve
    <3>2. call'[c].draft = [grants[id] EXCEPT !.state = "active", !.approver = by]
      BY <1>4 DEF Approve, Become, Activation, TypeOK
    <3>3. by \in Admins /\ by # grants[id].principal /\ by # grants[id].requester
      BY <1>4 DEF Approve
    <3>4. grants[id].requester # grants[id].principal
      BY <3>1 DEF TwoInv
    <3>. QED
      BY <2>1, <3>1, <3>2, <3>3, <3>4 DEF Authorized, Granted, Grant
  <2>2. CASE d # c
    BY <1>4, <2>2 DEF Approve, Become, TwoInv, TypeOK, At
  <2>. QED
    BY <2>1, <2>2
<1>5. ASSUME NEW c \in Calls, NEW id \in Ids, RevokeRead(c, id)
     PROVE  Authorized(call'[d].draft)
  BY <1>5 DEF RevokeRead, Become, TwoInv, TypeOK, At
<1>6. ASSUME NEW c \in Calls, NEW p \in Principals, Leave(c, p)
     PROVE  Authorized(call'[d].draft)
  BY <1>6 DEF Leave, Become, TwoInv, TypeOK, At
<1>7. ASSUME NEW c \in Calls, Acquire(c)
     PROVE  Authorized(call'[d].draft)
  <2>1. CASE d = c
    <3>1. call'[c].draft = call[c].draft /\ At(c, "lock")
      BY <1>7, LocalFacts DEF Acquire, Become, TypeOK, ActivateLocal
    <3>. QED
      BY <2>1, <3>1 DEF TwoInv
  <2>2. CASE d # c
    BY <1>7, <2>2 DEF Acquire, Become, TwoInv, TypeOK, At
  <2>. QED
    BY <2>1, <2>2
<1>8. ASSUME NEW c \in Calls, ListActive(c)
     PROVE  Authorized(call'[d].draft)
  <2>1. CASE d = c
    <3>1. call'[c].draft = call[c].draft /\ At(c, "list")
      BY <1>8 DEF ListActive, Become, TypeOK
    <3>. QED
      BY <2>1, <3>1 DEF TwoInv
  <2>2. CASE d # c
    BY <1>8, <2>2 DEF ListActive, Become, TwoInv, TypeOK, At
  <2>. QED
    BY <2>1, <2>2
<1>9. ASSUME NEW c \in Calls, NEW i \in Ids, ClearStale(c, i)
     PROVE  Authorized(call'[d].draft)
  <2>1. CASE d = c
    <3>1. call'[c].draft = call[c].draft /\ At(c, "clear")
      BY <1>9, LocalFacts DEF ClearStale, Become, TypeOK, ClearLocal
    <3>. QED
      BY <2>1, <3>1 DEF TwoInv
  <2>2. CASE d # c
    BY <1>9, <2>2 DEF ClearStale, Become, TwoInv, TypeOK, At
  <2>. QED
    BY <2>1, <2>2
<1>10. ASSUME NEW c \in Calls, Refuse(c)
     PROVE  Authorized(call'[d].draft)
  BY <1>10 DEF Refuse, Become, End, Idle, TwoInv, TypeOK, At
<1>11. ASSUME NEW c \in Calls, Activate(c)
     PROVE  Authorized(call'[d].draft)
  BY <1>11 DEF Activate, Become, End, Idle, TwoInv, TypeOK, At
<1>12. ASSUME NEW c \in Calls, RevokeWrite(c)
     PROVE  Authorized(call'[d].draft)
  BY <1>12 DEF RevokeWrite, Become, End, Idle, TwoInv, TypeOK, At
<1>13. ASSUME NEW c \in Calls, ListLive(c)
     PROVE  Authorized(call'[d].draft)
  BY <1>13 DEF ListLive, Become, TwoInv, TypeOK, At
<1>14. ASSUME NEW c \in Calls, NEW i \in Ids, SweepOne(c, i)
     PROVE  Authorized(call'[d].draft)
  <2>1. CASE d = c
    BY <1>14, <2>1, LocalFacts DEF SweepOne, Become, TypeOK, At, SweepLocal
  <2>2. CASE d # c
    BY <1>14, <2>2 DEF SweepOne, Become, TwoInv, TypeOK, At
  <2>. QED
    BY <2>1, <2>2
<1>15. ASSUME NEW c \in Calls, SweepEnds(c)
     PROVE  Authorized(call'[d].draft)
  BY <1>15 DEF SweepEnds, Become, End, Idle, TwoInv, TypeOK, At
<1>16. ASSUME NEW c \in Calls, Abort(c)
     PROVE  Authorized(call'[d].draft)
  BY <1>16 DEF Abort, Become, End, Idle, TwoInv, TypeOK, At
<1>. QED
  BY <1>1, <1>2, <1>3, <1>4, <1>5, <1>6, <1>7, <1>8, <1>9, <1>10, <1>11, <1>12, <1>13, <1>14, <1>15, <1>16 DEF Next, CallStep

\* A row that is active was authorized before it was.
LEMMA ActiveStep ==
  ASSUME TypeOK, TwoInv, [Next]_vars, NEW j \in Present', grants'[j].state = "active"
  PROVE  Authorized(grants'[j])
<1>1. j \in Ids
  BY DEF Present
<1>2. CASE grants'[j] = grants[j]
  BY <1>2 DEF TwoInv, Present
<1>3. ASSUME NEW c \in Calls, Activate(c)
      PROVE  Authorized(grants'[j])
  <2>1. Authorized(call[c].draft)
    BY <1>3 DEF Activate, TwoInv
  <2>2. grants'[j] = grants[j] \/ grants'[j] = call[c].draft
    BY <1>1, <1>3, ActivateFacts DEF TypeOK
  <2>. QED
    BY <1>2, <2>1, <2>2
<1>. QED
  BY <1>1, <1>2, <1>3, OnlyActivateActivates

\* The approver of an active grant is an administrator and not its recipient,
\* nobody requested it for himself, and unless an administrator may issue it
\* alone, the approver is not the requester either.
THEOREM TwoPersons == Spec => []TwoPersonRule
<1>1. Init => TwoInv
  BY DEF Init, TwoInv, Present, At, Idle
<1>2. TypeOK /\ TwoInv /\ [Next]_vars => TwoInv'
  BY PendingStep, DraftStep, ActiveStep DEF TwoInv
<1>3. TwoInv => TwoPersonRule
  BY DEF TwoInv, TwoPersonRule, Authorized
<1>. QED
  BY <1>1, <1>2, <1>3, TypeCorrect, PTL DEF Spec

=============================================================================
