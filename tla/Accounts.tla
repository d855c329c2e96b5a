------------------------------ MODULE Accounts ------------------------------
(***************************************************************************)
(* User rows, login sessions and the calls that change them, in local mode. *)
(*                                                                         *)
(*   backend/src/workflow_platform/api/users.py     create_user, update_user*)
(*   backend/src/workflow_platform/auth/local.py    login, authenticate    *)
(*   backend/src/workflow_platform/api/auth.py      the login endpoint     *)
(*   backend/src/workflow_platform/api/raw_trace_grants.py   a request     *)
(*                                                                         *)
(* Every await is a point where another call can run, so a call keeps what  *)
(* it read (row) and writes it back later, whole.  An email names a user    *)
(* row (it cannot be changed), a password is a number, and a raw-trace      *)
(* grant is only held or not: RawTraceGrants has its states.  Bounds: the   *)
(* passwords, the bodies, MaxBegun calls and logins, MaxFaults failed calls. *)
(***************************************************************************)
EXTENDS Naturals

CONSTANTS
  Users,     \* user rows, each with an email of its own
  Orgs,
  All,       \* the scope of an Administrator (org_id None)
  Rows0,     \* the rows ensure_seed_users and earlier calls left, or Absent
  Passwords, \* the passwords people choose
  Bodies,    \* the bodies update_user is called with
  NewRoles,  \* the roles create_user is called with
  Callers,   \* administration calls in flight
  Logins,    \* logins in flight
  MaxBegun,    \* bound: calls and logins
  MaxFaults    \* bound: calls that die half-way

Administrator == "Administrator"
OrgAdmin      == "Organization Administrator"
Roles         == {Administrator, OrgAdmin, "Organization User"}
Absent        == [org |-> "none"]

Row  == [org: Orgs, roles: SUBSET Roles, active: BOOLEAN, pw: Passwords, weak: BOOLEAN]

\* A body carries some of the fields; one that carries none of these is a
\* change of the display name, which is saved like any other.
ASSUME BodiesAssumption == \A b \in Bodies :
  /\ "org" \in DOMAIN b => b["org"] \in Orgs
  /\ "roles" \in DOMAIN b => b["roles"] \in SUBSET Roles
  /\ "active" \in DOMAIN b => b["active"] \in BOOLEAN
  /\ "pw" \in DOMAIN b => b["pw"] \in Passwords

ASSUME AccountsAssumption ==
  /\ All \notin Orgs /\ Rows0 \in [Users -> Row \cup {Absent}]
  /\ NewRoles \subseteq SUBSET Roles /\ MaxBegun \in Nat /\ MaxFaults \in Nat

VARIABLES
  users,     \* the users table
  sessions,  \* auth_sessions: whose, under which password, and (history) whether
             \* the row had moved on when the session was created
  grants,    \* raw-trace grants held: by whom, and (history) the same
  call,      \* call[c]: an administration call
  login,     \* login[l]: a login
  granted,   \* history: the users an Administrator made Administrator
  stale,     \* history: a save has overwritten what another call had written
  faults,
  begun      \* calls and logins so far

vars == <<users, sessions, grants, call, login, granted, stale, faults, begun>>

Idle == [pc |-> "idle"]
Exists(u) == users[u] # Absent
Holds(row, role) == row # Absent /\ row.active /\ role \in row.roles

Init ==
  /\ users = Rows0
  /\ sessions = {[user |-> u, pw |-> Rows0[u].pw, behind |-> FALSE] :
                   u \in {v \in Users : Rows0[v] # Absent /\ Rows0[v].active}}
  /\ grants = {}
  /\ call = [c \in Callers |-> Idle] /\ login = [l \in Logins |-> Idle]
  /\ granted = {u \in Users : Rows0[u] # Absent /\ Administrator \in Rows0[u].roles}
  /\ stale = FALSE /\ faults = 0 /\ begun = 0

\* What a lost update loses: the fields authority rests on.
Matters(row) == [row EXCEPT !.weak = FALSE]

\* save() writes every column of the object it is given.
SaveRow(u, read, row) ==
  /\ users' = [users EXCEPT ![u] = row]
  /\ stale' = (stale \/ Matters(users[u]) # Matters(read))

-----------------------------------------------------------------------------
(* login().                                                                *)

LoginAt(l, pc) == login[l].pc = pc
LoginGoes(l, local) == login' = [login EXCEPT ![l] = local]

\* login() is called with an email and a password; LoginLimiter has what
\* comes before.
LoginBegin(l, u, guess) ==
  /\ login[l] = Idle
  /\ LoginGoes(l, [pc |-> "read", user |-> u, guess |-> guess])
  /\ begun < MaxBegun /\ begun' = begun + 1
  /\ UNCHANGED <<users, sessions, grants, call, granted, stale, faults>>

\* get_by_login_email; an unknown email fails like a wrong password.
LoginRead(l) ==
  /\ LoginAt(l, "read")
  /\ LET u == login[l].user
     IN LoginGoes(l, IF Exists(u)
                     THEN [pc |-> "verify", user |-> u, guess |-> login[l].guess, row |-> users[u]]
                     ELSE Idle)
  /\ UNCHANGED <<users, sessions, grants, call, granted, stale, faults, begun>>

\* verify_password, in a thread: the password, then is_active.
LoginVerify(l) ==
  /\ LoginAt(l, "verify")
  /\ LET row == login[l].row
     IN \/ /\ row.pw # login[l].guess \/ ~row.active
           /\ LoginGoes(l, Idle)
        \/ /\ row.pw = login[l].guess /\ row.active
           /\ LoginGoes(l, [login[l] EXCEPT !.pc = IF row.weak THEN "rehash" ELSE "create"])
  /\ UNCHANGED <<users, sessions, grants, call, granted, stale, faults, begun>>

\* The stored hash predates the parameters: hash again, in a thread, and save.
LoginRehash(l) ==
  /\ LoginAt(l, "rehash")
  /\ SaveRow(login[l].user, login[l].row, [login[l].row EXCEPT !.weak = FALSE])
  /\ LoginGoes(l, [login[l] EXCEPT !.pc = "create"])
  /\ UNCHANGED <<sessions, grants, call, granted, faults, begun>>

LoginCreate(l) ==
  /\ LoginAt(l, "create")
  /\ LET u == login[l].user  guess == login[l].guess
     IN sessions' = sessions \cup {[user |-> u, pw |-> guess,
                                    behind |-> ~users[u].active \/ users[u].pw # guess]}
  /\ LoginGoes(l, Idle)
  /\ UNCHANGED <<users, grants, call, granted, stale, faults, begun>>

\* logout(), or the session's expires_at passes.
Logout(s) ==
  /\ sessions' = sessions \ {s}
  /\ UNCHANGED <<users, grants, call, login, granted, stale, faults, begun>>

-----------------------------------------------------------------------------
(* An administration call: who is asking, and over which users.            *)

At(c, pc) == call[c].pc = pc
Goes(c, local) == call' = [call EXCEPT ![c] = local]
Scoped == UNCHANGED <<users, sessions, grants, login, granted, stale, faults, begun>>

\* authenticate(): the session row...
Begin(c, s) ==
  /\ call[c] = Idle
  /\ Goes(c, [pc |-> "identity", actor |-> s.user])
  /\ begun < MaxBegun /\ begun' = begun + 1
  /\ UNCHANGED <<users, sessions, grants, login, granted, stale, faults>>

\* ...then its user; the roles the request carries are those of this read.
Identify(c) ==
  /\ At(c, "identity")
  /\ LET actor == call[c].actor  row == users[actor]
     IN \/ /\ ~Holds(row, Administrator) /\ ~Holds(row, OrgAdmin)
           /\ Goes(c, Idle)
        \/ /\ Holds(row, Administrator)
           /\ Goes(c, [pc |-> "act", actor |-> actor, scope |-> All])
        \/ /\ ~Holds(row, Administrator) /\ Holds(row, OrgAdmin)
           /\ Goes(c, [pc |-> "scope", actor |-> actor])
  /\ Scoped

\* _scope: an Organization Administrator acts in the org of their row.
ResolveScope(c) ==
  /\ At(c, "scope")
  /\ Goes(c, [pc |-> "act", actor |-> call[c].actor, scope |-> users[call[c].actor].org])
  /\ Scoped

Platform(c) == call[c].scope = All

-----------------------------------------------------------------------------
(* create_user.                                                            *)

\* Mutant of MayGrant: an Organization Administrator may grant any role.
MutMayGrant(c, roles) == TRUE

\* _forbid_administrator_grant.
MayGrant(c, roles) == Platform(c) \/ Administrator \notin roles

\* get_by_login_email finds nobody; the org is the caller's, or any for an
\* Administrator; the password is hashed in a thread.
CreateCheck(c, u, org, roles, pw) ==
  /\ At(c, "act") /\ MayGrant(c, roles) /\ ~Exists(u)
  /\ Platform(c) \/ org = call[c].scope
  /\ Goes(c, [pc |-> "insert", scope |-> call[c].scope, target |-> u,
              row |-> [org |-> org, roles |-> roles, active |-> TRUE, pw |-> pw,
                       weak |-> FALSE]])
  /\ Scoped

\* The unique index on the login email refuses the second of two.
Insert(c) ==
  /\ At(c, "insert")
  /\ LET u == call[c].target  row == call[c].row
     IN \/ Exists(u) /\ UNCHANGED <<users, granted>>
        \/ /\ ~Exists(u)
           /\ users' = [users EXCEPT ![u] = row]
           /\ granted' = IF Platform(c) /\ Administrator \in row.roles
                         THEN granted \cup {u} ELSE granted
  /\ Goes(c, Idle)
  /\ UNCHANGED <<sessions, grants, login, stale, faults, begun>>

-----------------------------------------------------------------------------
(* update_user.                                                            *)

Asks(body, field) == field \in DOMAIN body
Or(body, field, old) == IF Asks(body, field) THEN body[field] ELSE old

\* The row as the body leaves it.
Apply(row, body) ==
  [org |-> Or(body, "org", row.org), roles |-> Or(body, "roles", row.roles),
   active |-> Or(body, "active", row.active), pw |-> Or(body, "pw", row.pw), weak |-> row.weak /\ ~Asks(body, "pw")]

\* Cross-org targets are invisible, an Administrator only another may modify,
\* and a move between orgs is a platform decision.
MayUpdate(c, row, body) ==
  /\ Platform(c) \/ (row.org = call[c].scope /\ Administrator \notin row.roles
                     /\ Or(body, "org", row.org) = row.org)
  /\ Asks(body, "roles") => MayGrant(c, body["roles"])

\* What deletes the sessions, and what takes the raw-trace grants too.
Revokes(old, new, body) ==
  \/ new.org # old.org \/ new.roles # old.roles \/ Asks(body, "pw")
  \/ old.active /\ ~new.active
TakesGrants(old, new) == new.org # old.org \/ (old.active /\ ~new.active)

UpdateRead(c, u, body) ==
  /\ At(c, "act") /\ Exists(u) /\ MayUpdate(c, users[u], body)
  /\ LET old == users[u]  new == Apply(old, body)
     IN Goes(c, [pc |-> "admins", scope |-> call[c].scope, target |-> u, read |-> old, row |-> new,
                 revoke |-> Revokes(old, new, body), take |-> TakesGrants(old, new)])
  /\ Scoped

\* The request is refused, by a role, an org or a guard.
Refuse(c) == At(c, "act") /\ Goes(c, Idle) /\ Scoped

\* Mutant of CheckAdmins: only losing the role counts, not being deactivated.
MutCheckAdmins(c) ==
  /\ At(c, "admins")
  /\ LET lost == Holds(call[c].read, Administrator) /\ Administrator \notin call[c].row.roles
         other == \E v \in Users \ {call[c].target} : Holds(users[v], Administrator)
     IN Goes(c, IF lost /\ ~other THEN Idle ELSE [call[c] EXCEPT !.pc = "orgadmins"])
  /\ Scoped

\* The last active Administrator stays one.
CheckAdmins(c) ==
  /\ At(c, "admins")
  /\ LET lost == Holds(call[c].read, Administrator) /\ ~Holds(call[c].row, Administrator)
         other == \E v \in Users \ {call[c].target} : Holds(users[v], Administrator)
     IN Goes(c, IF lost /\ ~other THEN Idle ELSE [call[c] EXCEPT !.pc = "orgadmins"])
  /\ Scoped

\* So does an organization's last active Organization Administrator.
CheckOrgAdmins(c) ==
  /\ At(c, "orgadmins")
  /\ LET old == call[c].read  new == call[c].row
         lost == Holds(old, OrgAdmin) /\ (~Holds(new, OrgAdmin) \/ new.org # old.org)
         other == \E v \in Users \ {call[c].target} : Holds(users[v], OrgAdmin) /\ users[v].org = old.org
     IN Goes(c, IF lost /\ ~other THEN Idle ELSE [call[c] EXCEPT !.pc = "save"])
  /\ Scoped

Save(c) ==
  /\ At(c, "save")
  /\ LET u == call[c].target
     IN /\ SaveRow(u, call[c].read, call[c].row)
        /\ granted' = IF Platform(c) /\ Administrator \in call[c].row.roles
                      THEN granted \cup {u} ELSE granted
  /\ Goes(c, IF call[c].revoke
             THEN [pc |-> "sessions", target |-> call[c].target, take |-> call[c].take] ELSE Idle)
  /\ UNCHANGED <<sessions, grants, login, faults, begun>>

\* Mutant of DeleteSessions: a session of the old password is kept.
MutDeleteSessions(c) ==
  /\ At(c, "sessions")
  /\ sessions' = {s \in sessions : s.user # call[c].target \/ users[s.user].active}
  /\ Goes(c, IF call[c].take THEN [pc |-> "grants", target |-> call[c].target] ELSE Idle)
  /\ UNCHANGED <<users, grants, login, granted, stale, faults, begun>>

\* delete_by_user.
DeleteSessions(c) ==
  /\ At(c, "sessions")
  /\ sessions' = {s \in sessions : s.user # call[c].target}
  /\ Goes(c, IF call[c].take THEN [pc |-> "grants", target |-> call[c].target] ELSE Idle)
  /\ UNCHANGED <<users, grants, login, granted, stale, faults, begun>>

\* revoke_all_for_principal (RawTraceGrants has its steps).
TakeGrants(c) ==
  /\ At(c, "grants")
  /\ grants' = {g \in grants : g.user # call[c].target}
  /\ Goes(c, Idle)
  /\ UNCHANGED <<users, sessions, login, granted, stale, faults, begun>>

-----------------------------------------------------------------------------
\* request_grant, never for oneself: the principal exists; nobody asks whether they are active.
GrantCheck(c, u) ==
  /\ At(c, "act") /\ Platform(c) /\ Exists(u) /\ u # call[c].actor
  /\ Goes(c, [pc |-> "grant", target |-> u])
  /\ Scoped

GrantCreate(c) ==
  /\ At(c, "grant")
  /\ LET u == call[c].target
     IN grants' = grants \cup {[user |-> u, behind |-> ~users[u].active]}
  /\ Goes(c, Idle)
  /\ UNCHANGED <<users, sessions, login, granted, stale, faults, begun>>

\* A store or audit write raises: the call ends where it is.
Fail(c) ==
  /\ call[c] # Idle /\ faults < MaxFaults /\ faults' = faults + 1
  /\ Goes(c, Idle)
  /\ UNCHANGED <<users, sessions, grants, login, granted, stale, begun>>

LoginStep(l) == LoginRead(l) \/ LoginVerify(l) \/ LoginRehash(l) \/ LoginCreate(l)

CallStep(c) ==
  \/ Identify(c) \/ ResolveScope(c) \/ Refuse(c) \/ Insert(c) \/ CheckAdmins(c) \/ CheckOrgAdmins(c)
  \/ Save(c) \/ DeleteSessions(c) \/ TakeGrants(c) \/ GrantCreate(c) \/ Fail(c)

Next ==
  \/ \E l \in Logins : LoginStep(l) \/ \E u \in Users, p \in Passwords : LoginBegin(l, u, p)
  \/ \E s \in sessions : Logout(s) \/ \E c \in Callers : Begin(c, s)
  \/ \E c \in Callers :
       \/ CallStep(c)
       \/ \E u \in Users :
            \/ GrantCheck(c, u)
            \/ \E body \in Bodies : UpdateRead(c, u, body)
            \/ \E org \in Orgs, roles \in NewRoles, p \in Passwords : CreateCheck(c, u, org, roles, p)

Spec == Init /\ [][Next]_vars

-----------------------------------------------------------------------------
Local ==
  [pc: {"idle"}] \cup [pc: {"identity", "scope"}, actor: Users]
  \cup [pc: {"act"}, actor: Users, scope: Orgs \cup {All}]
  \cup [pc: {"insert"}, scope: Orgs \cup {All}, target: Users, row: Row]
  \cup [pc: {"admins", "orgadmins", "save"}, scope: Orgs \cup {All}, target: Users, read: Row, row: Row,
        revoke: BOOLEAN, take: BOOLEAN]
  \cup [pc: {"sessions"}, target: Users, take: BOOLEAN]
  \cup [pc: {"grants", "grant"}, target: Users]

LoginLocal ==
  [pc: {"idle"}] \cup [pc: {"read"}, user: Users, guess: Passwords]
  \cup [pc: {"verify", "rehash", "create"}, user: Users, guess: Passwords, row: Row]

TypeOK ==
  /\ users \in [Users -> Row \cup {Absent}]
  /\ sessions \subseteq [user: Users, pw: Passwords, behind: BOOLEAN]
  /\ grants \subseteq [user: Users, behind: BOOLEAN]
  /\ call \in [Callers -> Local] /\ login \in [Logins -> LoginLocal]
  /\ granted \subseteq Users /\ stale \in BOOLEAN /\ faults \in Nat /\ begun \in 0 .. MaxBegun

\* Whoever holds Administrator was given it by an Administrator: no stale
\* save, no login and no Organization Administrator, however their calls
\* interleave, makes another one.
AdministratorsAreGranted ==
  \A u \in Users : Exists(u) /\ Administrator \in users[u].roles => u \in granted

HasAdministrator == \E u \in Users : Holds(users[u], Administrator)
HasOrgAdmin(o) == \E u \in Users : Holds(users[u], OrgAdmin) /\ users[u].org = o

\* "The platform can never lose its last active Administrator, and no org can
\* lose its last active Organization Administrator": while calls come one at a
\* time, only a save of a stale row (a rehash at login) can break it.
LastAdministratorsRemain ==
  [][~stale' => /\ HasAdministrator => HasAdministrator'
                /\ \A o \in Orgs : HasOrgAdmin(o) => HasOrgAdmin(o)']_vars

Finishing(u, pcs) == \E c \in Callers : call[c].pc \in pcs /\ call[c].target = u

\* A deactivation or a new password reaches every session, and a
\* deactivation every grant, that was in order when it was made: past the
\* call itself, only a login or a request that overlapped it leaves one.
RevocationReaches ==
  ~stale /\ faults = 0 =>
    /\ \A s \in sessions : s.behind \/ (users[s.user].active /\ users[s.user].pw = s.pw)
                             \/ Finishing(s.user, {"sessions"})
    /\ \A g \in grants : g.behind \/ users[g.user].active \/ Finishing(g.user, {"sessions", "grants"})

\* "The platform can never lose its last active Administrator."
PlatformHasAdministrator == HasAdministrator
=============================================================================
