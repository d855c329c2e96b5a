--------------------------- MODULE AccountsProofs ---------------------------
(***************************************************************************)
(* Theorems about Accounts, for any number of users, organizations, calls, *)
(* logins and faults, and any bodies and roles that callers ask for.       *)
(***************************************************************************)
EXTENDS Accounts, TLAPS

-----------------------------------------------------------------------------
(* Types.                                                                  *)

ActorLocal    == [pc: {"identity", "scope"}, actor: Users]
ActLocal      == [pc: {"act"}, actor: Users, scope: Orgs \cup {All}]
InsertLocal   == [pc: {"insert"}, scope: Orgs \cup {All}, target: Users, row: Row]
UpdateLocal   == [pc: {"admins", "orgadmins", "save"}, scope: Orgs \cup {All}, target: Users,
                  read: Row, row: Row, revoke: BOOLEAN, take: BOOLEAN]
SessionsLocal == [pc: {"sessions"}, target: Users, take: BOOLEAN]
GrantsLocal   == [pc: {"grants", "grant"}, target: Users]
ReadLocal     == [pc: {"read"}, user: Users, guess: Passwords]
RowLocal      == [pc: {"verify", "rehash", "create"}, user: Users, guess: Passwords, row: Row]

Updating == {"admins", "orgadmins", "save"}
Holding  == {"verify", "rehash", "create"}

\* Where a call is tells what it holds.
LEMMA LocalFacts ==
  ASSUME TypeOK, NEW c \in Callers
  PROVE  /\ At(c, "identity") \/ At(c, "scope") => call[c] \in ActorLocal
         /\ At(c, "act") => call[c] \in ActLocal
         /\ At(c, "insert") => call[c] \in InsertLocal
         /\ call[c].pc \in Updating => call[c] \in UpdateLocal
         /\ At(c, "sessions") => call[c] \in SessionsLocal
         /\ At(c, "grants") \/ At(c, "grant") => call[c] \in GrantsLocal
BY DEF TypeOK, Local, At, ActorLocal, ActLocal, InsertLocal, UpdateLocal, SessionsLocal,
       GrantsLocal, Updating

\* So does where a login is.
LEMMA LoginFacts ==
  ASSUME TypeOK, NEW l \in Logins
  PROVE  /\ LoginAt(l, "read") => login[l] \in ReadLocal
         /\ login[l].pc \in Holding => login[l] \in RowLocal
BY DEF TypeOK, LoginLocal, LoginAt, ReadLocal, RowLocal, Holding

\* The local states of calls and logins, kind by kind.
LEMMA LocalKinds ==
  /\ Idle \in Local /\ Idle \in LoginLocal
  /\ ActorLocal \subseteq Local /\ ActLocal \subseteq Local /\ InsertLocal \subseteq Local
  /\ UpdateLocal \subseteq Local /\ SessionsLocal \subseteq Local /\ GrantsLocal \subseteq Local
  /\ ReadLocal \subseteq LoginLocal /\ RowLocal \subseteq LoginLocal
BY DEF Idle, Local, LoginLocal, ActorLocal, ActLocal, InsertLocal, UpdateLocal, SessionsLocal,
       GrantsLocal, ReadLocal, RowLocal

\* What type correctness says of one row.
LEMMA RowFacts ==
  ASSUME TypeOK, NEW u \in Users, Exists(u)
  PROVE  users[u] \in Row
BY DEF TypeOK, Exists

\* The row a body makes of a row is a row.
LEMMA ApplyFacts ==
  ASSUME NEW row \in Row, NEW body \in Bodies
  PROVE  Apply(row, body) \in Row
<1>1. /\ Or(body, "org", row.org) \in Orgs
      /\ Or(body, "roles", row.roles) \in SUBSET Roles
      /\ Or(body, "active", row.active) \in BOOLEAN
      /\ Or(body, "pw", row.pw) \in Passwords
  BY BodiesAssumption DEF Or, Asks, Row
<1>2. (row.weak /\ ~Asks(body, "pw")) \in BOOLEAN
  OBVIOUS
<1>. QED
  BY <1>1, <1>2 DEF Apply, Row

\* A call that only goes from one place to another keeps the types.
LEMMA GoesKeepsTypes ==
  ASSUME TypeOK, NEW c \in Callers, NEW x \in Local, Goes(c, x), Scoped
  PROVE  TypeOK'
BY DEF TypeOK, Goes, Scoped

\* An actor whose scope is being looked up has a row.
ActorsExist == \A c \in Callers : At(c, "scope") => Exists(call[c].actor)

TypeInv == TypeOK /\ ActorsExist

\* A login keeps the types.
LEMMA TypeLogin ==
  ASSUME TypeOK, NEW l \in Logins,
         LoginStep(l) \/ \E u \in Users, p \in Passwords : LoginBegin(l, u, p)
  PROVE  TypeOK'
<1>1. ASSUME NEW u \in Users, NEW p \in Passwords, LoginBegin(l, u, p)
      PROVE  TypeOK'
  <2>1. [pc |-> "read", user |-> u, guess |-> p] \in LoginLocal
    BY LocalKinds DEF ReadLocal
  <2>2. begun' \in 0 .. MaxBegun
    BY <1>1, AccountsAssumption DEF LoginBegin, TypeOK
  <2>. QED
    BY <1>1, <2>1, <2>2 DEF LoginBegin, LoginGoes, TypeOK
<1>2. ASSUME LoginRead(l)
      PROVE  TypeOK'
  <2>1. login[l] \in ReadLocal
    BY <1>2, LoginFacts DEF LoginRead
  <2>2. ASSUME Exists(login[l].user)
        PROVE  [pc |-> "verify", user |-> login[l].user, guess |-> login[l].guess,
                row |-> users[login[l].user]] \in LoginLocal
    BY <2>1, <2>2, RowFacts, LocalKinds DEF ReadLocal, RowLocal
  <2>3. \E x \in LoginLocal : LoginGoes(l, x)
    BY <1>2, <2>2, LocalKinds DEF LoginRead
  <2>. QED
    BY <1>2, <2>3 DEF LoginRead, LoginGoes, TypeOK
<1>3. ASSUME LoginVerify(l)
      PROVE  TypeOK'
  <2>1. login[l] \in RowLocal
    BY <1>3, LoginFacts DEF LoginVerify, LoginAt, Holding
  <2>2. [login[l] EXCEPT !.pc = IF login[l].row.weak THEN "rehash" ELSE "create"] \in LoginLocal
    BY <2>1, LocalKinds DEF RowLocal
  <2>3. \E x \in LoginLocal : LoginGoes(l, x)
    BY <1>3, <2>2, LocalKinds DEF LoginVerify
  <2>. QED
    BY <1>3, <2>3 DEF LoginVerify, LoginGoes, TypeOK
<1>4. ASSUME LoginRehash(l)
      PROVE  TypeOK'
  <2>1. login[l] \in RowLocal
    BY <1>4, LoginFacts DEF LoginRehash, LoginAt, Holding
  <2>2. [login[l] EXCEPT !.pc = "create"] \in LoginLocal
    BY <2>1, LocalKinds DEF RowLocal
  <2>3. [login[l].row EXCEPT !.weak = FALSE] \in Row
    BY <2>1 DEF RowLocal, Row
  <2>4. users' \in [Users -> Row \cup {Absent}] /\ stale' \in BOOLEAN
    BY <1>4, <2>1, <2>3 DEF LoginRehash, SaveRow, TypeOK, RowLocal
  <2>. QED
    BY <1>4, <2>2, <2>4 DEF LoginRehash, LoginGoes, TypeOK
<1>5. ASSUME LoginCreate(l)
      PROVE  TypeOK'
  <2>1. login[l] \in RowLocal
    BY <1>5, LoginFacts DEF LoginCreate, LoginAt, Holding
  <2> DEFINE moved == ~users[login[l].user].active \/ users[login[l].user].pw # login[l].guess
  <2>2. moved \in BOOLEAN
    OBVIOUS
  <2>3. sessions' = sessions \cup {[user |-> login[l].user, pw |-> login[l].guess, behind |-> moved]}
    BY <1>5 DEF LoginCreate
  <2> HIDE DEF moved
  <2>4. sessions' \subseteq [user: Users, pw: Passwords, behind: BOOLEAN]
    BY <2>1, <2>2, <2>3 DEF TypeOK, RowLocal
  <2>. QED
    BY <1>5, <2>4, LocalKinds DEF LoginCreate, LoginGoes, TypeOK
<1>. QED
  BY <1>1, <1>2, <1>3, <1>4, <1>5 DEF LoginStep

\* What the steps of a call leave alone.
LEMMA CallFrame ==
  ASSUME NEW c \in Callers, CallStep(c)
  PROVE  /\ UNCHANGED login
         /\ Insert(c) \/ Save(c) \/ UNCHANGED <<users, granted>>
<1>1. CASE Identify(c) \/ ResolveScope(c) \/ Refuse(c)
  BY <1>1, Zenon DEF Identify, ResolveScope, Refuse, Scoped
<1>2. CASE CheckAdmins(c) \/ CheckOrgAdmins(c)
  BY <1>2, Zenon DEF CheckAdmins, CheckOrgAdmins, Scoped
<1>3. CASE DeleteSessions(c) \/ TakeGrants(c) \/ GrantCreate(c) \/ Fail(c)
  BY <1>3 DEF DeleteSessions, TakeGrants, GrantCreate, Fail
<1>4. CASE Insert(c) \/ Save(c)
  BY <1>4 DEF Insert, Save
<1>. QED
  BY <1>1, <1>2, <1>3, <1>4 DEF CallStep

\* A call that only asks changes no account and grants nothing.
LEMMA AskingFrame ==
  ASSUME NEW c \in Callers, NEW u \in Users,
         \/ GrantCheck(c, u)
         \/ \E body \in Bodies : UpdateRead(c, u, body)
         \/ \E org \in Orgs, roles \in NewRoles, p \in Passwords : CreateCheck(c, u, org, roles, p)
  PROVE  UNCHANGED <<users, granted, login>>
<1>1. Scoped
  BY Zenon DEF GrantCheck, UpdateRead, CreateCheck
<1>. QED
  BY <1>1 DEF Scoped

\* A login touches an account only by a rehash.
LEMMA LoginFrame ==
  ASSUME NEW l \in Logins,
         LoginStep(l) \/ \E u \in Users, p \in Passwords : LoginBegin(l, u, p)
  PROVE  /\ UNCHANGED <<call, granted>>
         /\ LoginRehash(l) \/ UNCHANGED users
BY DEF LoginStep, LoginBegin, LoginRead, LoginVerify, LoginRehash, LoginCreate

\* The actions that write the users table, and those that move a login.
LEMMA RowWriters ==
  ASSUME Next
  PROVE  /\ \/ UNCHANGED users
            \/ \E l \in Logins : LoginRehash(l)
            \/ \E c \in Callers : Insert(c) \/ Save(c)
         /\ UNCHANGED granted \/ \E c \in Callers : Insert(c) \/ Save(c)
         /\ \/ UNCHANGED login
            \/ \E l \in Logins :
                 LoginStep(l) \/ \E u \in Users, p \in Passwords : LoginBegin(l, u, p)
<1>1. ASSUME NEW s \in sessions, Logout(s) \/ \E c \in Callers : Begin(c, s)
      PROVE  UNCHANGED <<users, granted, login>>
  BY <1>1 DEF Logout, Begin
<1>. QED
  BY <1>1, CallFrame, AskingFrame, LoginFrame DEF Next

\* A step moves one call at most.
LEMMA CallMover ==
  ASSUME TypeOK, Next, NEW c \in Callers
  PROVE  \/ call'[c] = call[c]
         \/ CallStep(c) \/ \E s \in sessions : Begin(c, s)
         \/ \E u \in Users :
              \/ GrantCheck(c, u)
              \/ \E body \in Bodies : UpdateRead(c, u, body)
              \/ \E org \in Orgs, roles \in NewRoles, p \in Passwords : CreateCheck(c, u, org, roles, p)
<1> DEFINE Moves(d) == \/ CallStep(d) \/ \E s \in sessions : Begin(d, s)
                       \/ \E u \in Users :
                            \/ GrantCheck(d, u)
                            \/ \E body \in Bodies : UpdateRead(d, u, body)
                            \/ \E org \in Orgs, roles \in NewRoles, p \in Passwords :
                                 CreateCheck(d, u, org, roles, p)
<1>1. ASSUME NEW d \in Callers, d # c, Moves(d)
      PROVE  call'[c] = call[c]
  <2>1. \E x : Goes(d, x)
    BY <1>1 DEF CallStep, Begin, Identify, ResolveScope, Refuse, CheckAdmins, CheckOrgAdmins, Insert,
                Save, DeleteSessions, TakeGrants, GrantCheck, GrantCreate, Fail, CreateCheck, UpdateRead
  <2>. QED
    BY <1>1, <2>1 DEF Goes, TypeOK
<1>2. UNCHANGED call \/ \E d \in Callers : Moves(d)
  <2>1. ASSUME NEW s \in sessions, Logout(s)
        PROVE  UNCHANGED call
    BY <2>1 DEF Logout
  <2>. QED
    BY <2>1, LoginFrame DEF Next
<1>. QED
  BY <1>1, <1>2

\* Where each step sends its call.
LEMMA Ways ==
  ASSUME TypeOK, NEW c \in Callers
  PROVE  /\ Identify(c) => call'[c].pc \in {"idle", "act", "scope"}
         /\ ResolveScope(c) => call'[c].pc = "act"
         /\ CheckAdmins(c) => call'[c].pc \in {"idle", "orgadmins"}
         /\ CheckOrgAdmins(c) => call'[c].pc \in {"idle", "save"}
         /\ Save(c) => call'[c].pc \in {"idle", "sessions"}
         /\ DeleteSessions(c) => call'[c].pc \in {"idle", "grants"}
         /\ Refuse(c) \/ Insert(c) \/ TakeGrants(c) \/ GrantCreate(c) \/ Fail(c) => call'[c].pc = "idle"
         /\ \A s \in sessions : Begin(c, s) => call'[c].pc = "identity"
         /\ \A u \in Users :
              /\ GrantCheck(c, u) => call'[c].pc = "grant"
              /\ \A body \in Bodies : UpdateRead(c, u, body) => call'[c].pc = "admins"
              /\ \A org \in Orgs, roles \in NewRoles, p \in Passwords :
                   CreateCheck(c, u, org, roles, p) => call'[c].pc = "insert"
<1>1. ASSUME NEW x, Goes(c, x)
      PROVE  call'[c] = x
  BY <1>1 DEF Goes, TypeOK
<1>2. Idle.pc = "idle"
  BY DEF Idle
<1>3. Identify(c) => call'[c].pc \in {"idle", "act", "scope"}
  BY <1>1, <1>2 DEF Identify
<1>4. ResolveScope(c) => call'[c].pc = "act"
  BY <1>1 DEF ResolveScope
<1>5. ASSUME CheckAdmins(c) \/ CheckOrgAdmins(c)
      PROVE  /\ CheckAdmins(c) => call'[c].pc \in {"idle", "orgadmins"}
             /\ CheckOrgAdmins(c) => call'[c].pc \in {"idle", "save"}
  <2>1. call[c] \in UpdateLocal
    BY <1>5, LocalFacts DEF CheckAdmins, CheckOrgAdmins, At, Updating
  <2>2. /\ [call[c] EXCEPT !.pc = "orgadmins"].pc = "orgadmins"
        /\ [call[c] EXCEPT !.pc = "save"].pc = "save"
    BY <2>1 DEF UpdateLocal
  <2>3. CheckAdmins(c) => call'[c] = Idle \/ call'[c] = [call[c] EXCEPT !.pc = "orgadmins"]
    BY <1>1 DEF CheckAdmins
  <2>4. CheckOrgAdmins(c) => call'[c] = Idle \/ call'[c] = [call[c] EXCEPT !.pc = "save"]
    BY <1>1 DEF CheckOrgAdmins
  <2>. QED
    BY <1>2, <2>2, <2>3, <2>4
<1>6. Save(c) => call'[c].pc \in {"idle", "sessions"}
  BY <1>1, <1>2 DEF Save
<1>7. DeleteSessions(c) => call'[c].pc \in {"idle", "grants"}
  BY <1>1, <1>2 DEF DeleteSessions
<1>8. Refuse(c) \/ Insert(c) \/ TakeGrants(c) \/ GrantCreate(c) \/ Fail(c) => call'[c].pc = "idle"
  BY <1>1, <1>2 DEF Refuse, Insert, TakeGrants, GrantCreate, Fail
<1>9. \A s \in sessions : Begin(c, s) => call'[c].pc = "identity"
  BY <1>1 DEF Begin
<1>10. \A u \in Users : GrantCheck(c, u) => call'[c].pc = "grant"
  BY <1>1 DEF GrantCheck
<1>11. \A u \in Users : \A body \in Bodies : UpdateRead(c, u, body) => call'[c].pc = "admins"
  BY <1>1 DEF UpdateRead
<1>12. \A u \in Users : \A org \in Orgs, roles \in NewRoles, p \in Passwords :
         CreateCheck(c, u, org, roles, p) => call'[c].pc = "insert"
  BY <1>1 DEF CreateCheck
<1>. QED
  BY <1>3, <1>4, <1>5, <1>6, <1>7, <1>8, <1>9, <1>10, <1>11, <1>12

\* What a login that holds a row held before.
LEMMA HoldersKept ==
  ASSUME TypeOK, Next, NEW l \in Logins, login'[l].pc \in Holding
  PROVE  \/ /\ LoginRead(l) /\ login[l].user \in Users /\ Exists(login[l].user)
            /\ login'[l].user = login[l].user /\ login'[l].row = users[login[l].user]
         \/ /\ login[l].pc \in Holding /\ login[l].user \in Users
            /\ login'[l].user = login[l].user /\ login'[l].row = login[l].row
<1>1. CASE login'[l] = login[l]
  <2>1. login[l] \in RowLocal
    BY <1>1, LoginFacts
  <2>. QED
    BY <1>1, <2>1 DEF RowLocal
<1>2. CASE LoginRead(l)
  <2>1. login[l] \in ReadLocal
    BY <1>2, LoginFacts DEF LoginRead
  <2>2. /\ Exists(login[l].user)
        /\ login'[l].user = login[l].user /\ login'[l].row = users[login[l].user]
    BY <1>2, <2>1 DEF LoginRead, LoginGoes, Holding, Idle, TypeOK
  <2>. QED
    BY <1>2, <2>1, <2>2 DEF ReadLocal
<1>3. CASE LoginVerify(l) \/ LoginRehash(l)
  <2>1. login[l] \in RowLocal /\ login[l].pc \in Holding
    BY <1>3, LoginFacts DEF LoginVerify, LoginRehash, LoginAt, Holding
  <2>2. login'[l].user = login[l].user /\ login'[l].row = login[l].row
    <3>1. \/ login'[l] = Idle
          \/ \E pc \in Holding : login'[l] = [login[l] EXCEPT !.pc = pc]
      BY <1>3 DEF LoginVerify, LoginRehash, LoginGoes, Holding, TypeOK
    <3>2. login'[l] # Idle
      BY DEF Idle, Holding
    <3>. QED
      BY <2>1, <3>1, <3>2 DEF RowLocal
  <2>. QED
    BY <2>1, <2>2 DEF RowLocal
<1>4. CASE LoginCreate(l) \/ \E u \in Users, p \in Passwords : LoginBegin(l, u, p)
  BY <1>4 DEF LoginCreate, LoginBegin, LoginGoes, Idle, Holding, TypeOK
<1>5. \/ login'[l] = login[l]
      \/ LoginStep(l)
      \/ \E u \in Users, p \in Passwords : LoginBegin(l, u, p)
  <2>1. ASSUME NEW k \in Logins, k # l,
               LoginStep(k) \/ \E u \in Users, p \in Passwords : LoginBegin(k, u, p)
        PROVE  login'[l] = login[l]
    BY <2>1 DEF LoginStep, LoginRead, LoginVerify, LoginRehash, LoginCreate, LoginBegin, LoginGoes, TypeOK
  <2>2. \/ UNCHANGED login
        \/ \E k \in Logins : LoginStep(k) \/ \E u \in Users, p \in Passwords : LoginBegin(k, u, p)
    BY RowWriters
  <2>. QED
    BY <2>1, <2>2
<1>. QED
  BY <1>1, <1>2, <1>3, <1>4, <1>5 DEF LoginStep

\* An actor keeps its row: rows are created and saved, never deleted.
LEMMA RowsStay ==
  ASSUME TypeOK, Next, NEW u \in Users, Exists(u)
  PROVE  Exists(u)'
<1>1. Absent \notin Row
  BY DEF Absent, Row
<1>2. ASSUME NEW l \in Logins, LoginRehash(l)
      PROVE  Exists(u)'
  <2>1. login[l] \in RowLocal
    BY <1>2, LoginFacts DEF LoginRehash, LoginAt, Holding
  <2>2. [login[l].row EXCEPT !.weak = FALSE] \in Row
    BY <2>1 DEF RowLocal, Row
  <2>. QED
    BY <1>1, <1>2, <2>1, <2>2 DEF LoginRehash, SaveRow, Exists, TypeOK, RowLocal
<1>3. ASSUME NEW c \in Callers, Insert(c)
      PROVE  Exists(u)'
  <2>1. call[c] \in InsertLocal
    BY <1>3, LocalFacts DEF Insert
  <2>. QED
    BY <1>1, <1>3, <2>1 DEF Insert, Exists, TypeOK, InsertLocal
<1>4. ASSUME NEW c \in Callers, Save(c)
      PROVE  Exists(u)'
  <2>1. call[c] \in UpdateLocal
    BY <1>4, LocalFacts DEF Save, At, Updating
  <2>. QED
    BY <1>1, <1>4, <2>1 DEF Save, SaveRow, Exists, TypeOK, UpdateLocal
<1>5. \/ UNCHANGED users
      \/ \E l \in Logins : LoginRehash(l)
      \/ \E c \in Callers : Insert(c) \/ Save(c)
  BY RowWriters
<1>. QED
  BY <1>2, <1>3, <1>4, <1>5 DEF Exists

\* The steps of a call that only go on.
LEMMA TypeGoing ==
  ASSUME TypeInv, NEW c \in Callers,
         Identify(c) \/ ResolveScope(c) \/ Refuse(c) \/ CheckAdmins(c) \/ CheckOrgAdmins(c)
  PROVE  TypeOK'
<1>. TypeOK
  BY DEF TypeInv
<1>1. \E x \in Local : Goes(c, x)
  <2>1. CASE Identify(c)
    <3>1. call[c] \in ActorLocal
      BY <2>1, LocalFacts DEF Identify
    <3>2. /\ [pc |-> "act", actor |-> call[c].actor, scope |-> All] \in Local
          /\ [pc |-> "scope", actor |-> call[c].actor] \in Local
      BY <3>1, LocalKinds DEF ActorLocal, ActLocal
    <3>. QED
      BY <2>1, <3>2, LocalKinds DEF Identify
  <2>2. CASE ResolveScope(c)
    <3>1. call[c] \in ActorLocal /\ Exists(call[c].actor)
      BY <2>2, LocalFacts DEF ResolveScope, TypeInv, ActorsExist
    <3>2. users[call[c].actor].org \in Orgs
      BY <3>1, RowFacts DEF ActorLocal, Row
    <3>3. [pc |-> "act", actor |-> call[c].actor, scope |-> users[call[c].actor].org] \in Local
      BY <3>1, <3>2, LocalKinds DEF ActorLocal, ActLocal
    <3>. QED
      BY <2>2, <3>3 DEF ResolveScope
  <2>3. CASE Refuse(c)
    BY <2>3, LocalKinds DEF Refuse
  <2>4. CASE CheckAdmins(c) \/ CheckOrgAdmins(c)
    <3>1. call[c] \in UpdateLocal
      BY <2>4, LocalFacts DEF CheckAdmins, CheckOrgAdmins, At, Updating
    <3>2. /\ [call[c] EXCEPT !.pc = "orgadmins"] \in Local
          /\ [call[c] EXCEPT !.pc = "save"] \in Local
      BY <3>1, LocalKinds DEF UpdateLocal
    <3>. QED
      BY <2>4, <3>2, LocalKinds DEF CheckAdmins, CheckOrgAdmins
  <2>. QED
    BY <2>1, <2>2, <2>3, <2>4
<1>2. Scoped
  BY DEF Identify, ResolveScope, Refuse, CheckAdmins, CheckOrgAdmins
<1>. QED
  BY <1>1, <1>2, GoesKeepsTypes

\* The steps of a call that write.
LEMMA TypeWriting ==
  ASSUME TypeOK, NEW c \in Callers,
         Insert(c) \/ Save(c) \/ DeleteSessions(c) \/ TakeGrants(c) \/ GrantCreate(c) \/ Fail(c)
  PROVE  TypeOK'
<1>1. CASE Insert(c)
  <2>1. call[c] \in InsertLocal
    BY <1>1, LocalFacts DEF Insert
  <2>2. users' \in [Users -> Row \cup {Absent}] /\ granted' \subseteq Users
    BY <1>1, <2>1 DEF Insert, TypeOK, InsertLocal
  <2>. QED
    BY <1>1, <2>2, LocalKinds DEF Insert, Goes, TypeOK
<1>2. CASE Save(c)
  <2>1. call[c] \in UpdateLocal
    BY <1>2, LocalFacts DEF Save, At, Updating
  <2>2. users' \in [Users -> Row \cup {Absent}] /\ granted' \subseteq Users /\ stale' \in BOOLEAN
    BY <1>2, <2>1 DEF Save, SaveRow, TypeOK, UpdateLocal
  <2>3. [pc |-> "sessions", target |-> call[c].target, take |-> call[c].take] \in Local
    BY <2>1, LocalKinds DEF UpdateLocal, SessionsLocal
  <2>4. \E x \in Local : Goes(c, x)
    BY <1>2, <2>3, LocalKinds DEF Save
  <2>. QED
    BY <1>2, <2>2, <2>4 DEF Save, Goes, TypeOK
<1>3. CASE DeleteSessions(c)
  <2>1. call[c] \in SessionsLocal
    BY <1>3, LocalFacts DEF DeleteSessions
  <2>2. [pc |-> "grants", target |-> call[c].target] \in Local
    BY <2>1, LocalKinds DEF SessionsLocal, GrantsLocal
  <2>3. \E x \in Local : Goes(c, x)
    BY <1>3, <2>2, LocalKinds DEF DeleteSessions
  <2>4. sessions' \subseteq sessions
    BY <1>3 DEF DeleteSessions
  <2>. QED
    BY <1>3, <2>3, <2>4 DEF DeleteSessions, Goes, TypeOK
<1>4. CASE TakeGrants(c)
  BY <1>4, LocalKinds DEF TakeGrants, Goes, TypeOK
<1>5. CASE GrantCreate(c)
  <2>1. call[c] \in GrantsLocal
    BY <1>5, LocalFacts DEF GrantCreate
  <2> DEFINE off == ~users[call[c].target].active
  <2>2. off \in BOOLEAN
    OBVIOUS
  <2>3. grants' = grants \cup {[user |-> call[c].target, behind |-> off]}
    BY <1>5 DEF GrantCreate
  <2> HIDE DEF off
  <2>4. grants' \subseteq [user: Users, behind: BOOLEAN]
    BY <2>1, <2>2, <2>3 DEF GrantsLocal, TypeOK
  <2>. QED
    BY <1>5, <2>4, LocalKinds DEF GrantCreate, Goes, TypeOK
<1>6. CASE Fail(c)
  BY <1>6, LocalKinds DEF Fail, Goes, TypeOK
<1>. QED
  BY <1>1, <1>2, <1>3, <1>4, <1>5, <1>6

\* The steps of a call that take an input.
LEMMA TypeAsking ==
  ASSUME TypeOK, NEW c \in Callers, NEW u \in Users,
         \/ GrantCheck(c, u)
         \/ \E body \in Bodies : UpdateRead(c, u, body)
         \/ \E org \in Orgs, roles \in NewRoles, p \in Passwords : CreateCheck(c, u, org, roles, p)
  PROVE  TypeOK'
<1>1. ASSUME GrantCheck(c, u)
      PROVE  TypeOK'
  BY <1>1, LocalKinds, GoesKeepsTypes DEF GrantCheck, GrantsLocal
<1>2. ASSUME NEW body \in Bodies, UpdateRead(c, u, body)
      PROVE  TypeOK'
  <2> DEFINE new == Apply(users[u], body)
             x   == [pc |-> "admins", scope |-> call[c].scope, target |-> u, read |-> users[u],
                     row |-> new, revoke |-> Revokes(users[u], new, body),
                     take |-> TakesGrants(users[u], new)]
  <2>1. call[c] \in ActLocal /\ users[u] \in Row
    BY <1>2, LocalFacts, RowFacts DEF UpdateRead
  <2>2. new \in Row
    BY <2>1, ApplyFacts
  <2>3. Revokes(users[u], new, body) \in BOOLEAN /\ TakesGrants(users[u], new) \in BOOLEAN
    BY DEF Revokes, TakesGrants
  <2>4. Goes(c, x) /\ Scoped
    BY <1>2 DEF UpdateRead
  <2>5. x \in Local
    <3> HIDE DEF new
    <3>. QED
      BY <2>1, <2>2, <2>3, LocalKinds DEF UpdateLocal, ActLocal
  <2>. QED
    BY <2>4, <2>5, GoesKeepsTypes
<1>3. ASSUME NEW org \in Orgs, NEW roles \in NewRoles, NEW p \in Passwords,
             CreateCheck(c, u, org, roles, p)
      PROVE  TypeOK'
  <2> DEFINE row == [org |-> org, roles |-> roles, active |-> TRUE, pw |-> p, weak |-> FALSE]
             x   == [pc |-> "insert", scope |-> call[c].scope, target |-> u, row |-> row]
  <2>1. call[c] \in ActLocal
    BY <1>3, LocalFacts DEF CreateCheck
  <2>2. row \in Row
    BY AccountsAssumption DEF Row
  <2>3. Goes(c, x) /\ Scoped
    BY <1>3 DEF CreateCheck
  <2>4. x \in Local
    BY <2>1, <2>2, LocalKinds DEF InsertLocal, ActLocal
  <2>. QED
    BY <2>3, <2>4, GoesKeepsTypes
<1>. QED
  BY <1>1, <1>2, <1>3

\* Type correctness is inductive, given that actors have rows.
LEMMA TypeStep ==
  ASSUME TypeInv, [Next]_vars
  PROVE  TypeOK'
<1>. TypeOK
  BY DEF TypeInv
<1>1. CASE UNCHANGED vars
  BY <1>1 DEF vars, TypeOK
<1>2. ASSUME NEW s \in sessions, Logout(s)
      PROVE  TypeOK'
  BY <1>2 DEF Logout, TypeOK
<1>3. ASSUME NEW s \in sessions, NEW c \in Callers, Begin(c, s)
      PROVE  TypeOK'
  <2>1. [pc |-> "identity", actor |-> s.user] \in Local
    BY LocalKinds DEF TypeOK, ActorLocal
  <2>2. begun' \in 0 .. MaxBegun
    BY <1>3, AccountsAssumption DEF Begin, TypeOK
  <2>. QED
    BY <1>3, <2>1, <2>2 DEF Begin, Goes, TypeOK
<1>. QED
  BY <1>1, <1>2, <1>3, TypeLogin, TypeGoing, TypeWriting, TypeAsking DEF Next, CallStep

\* Only Identify sends a call to look its scope up.
LEMMA ScopeComesFromIdentify ==
  ASSUME TypeOK, Next, NEW c \in Callers, At(c, "scope")', ~Identify(c)
  PROVE  call'[c] = call[c]
BY Ways, CallMover DEF CallStep, At

\* An actor's row is read before its scope is looked up.
LEMMA ActorsStep ==
  ASSUME TypeInv, [Next]_vars
  PROVE  ActorsExist'
<1>. TypeOK /\ ActorsExist
  BY DEF TypeInv
<1>1. CASE UNCHANGED vars
  BY <1>1 DEF vars, ActorsExist, At, Exists
<1>2. ASSUME Next, NEW c \in Callers, At(c, "scope")', ~Identify(c)
      PROVE  Exists(call[c].actor)'
  <2>1. call'[c] = call[c]
    BY <1>2, ScopeComesFromIdentify
  <2>2. At(c, "scope") /\ Exists(call[c].actor) /\ call[c].actor \in Users
    BY <1>2, <2>1, LocalFacts DEF At, ActorsExist, ActorLocal
  <2>3. Exists(call[c].actor)' <=> users'[call[c].actor] # Absent
    BY <2>1 DEF Exists
  <2>. QED
    BY <1>2, <2>2, <2>3, RowsStay DEF Exists
<1>3. ASSUME NEW c \in Callers, Identify(c), At(c, "scope")'
      PROVE  Exists(call[c].actor)'
  BY <1>3 DEF Identify, Goes, At, Scoped, Exists, Holds, Idle, TypeOK
<1>. QED
  BY <1>1, <1>2, <1>3 DEF ActorsExist

\* The types hold at first.
LEMMA TypeInit ==
  ASSUME Init
  PROVE  TypeInv
<1>1. sessions \subseteq [user: Users, pw: Passwords, behind: BOOLEAN]
  <2>1. \A u \in Users : Rows0[u] # Absent => Rows0[u].pw \in Passwords
    BY AccountsAssumption DEF Row
  <2>2. Init => \A s \in sessions : \E u \in Users :
                  Rows0[u] # Absent /\ s = [user |-> u, pw |-> Rows0[u].pw, behind |-> FALSE]
    BY DEF Init
  <2>3. ASSUME NEW s \in sessions
        PROVE  s \in [user: Users, pw: Passwords, behind: BOOLEAN]
    <3>1. PICK u \in Users :
            Rows0[u] # Absent /\ s = [user |-> u, pw |-> Rows0[u].pw, behind |-> FALSE]
      BY <2>2
    <3>2. Rows0[u].pw \in Passwords
      BY <2>1, <3>1
    <3>. QED
      BY <3>1, <3>2
  <2>. QED
    BY <2>3
<1>2. /\ users \in [Users -> Row \cup {Absent}] /\ grants = {} /\ granted \subseteq Users
      /\ stale = FALSE /\ faults = 0 /\ begun = 0
  BY AccountsAssumption DEF Init
<1>3. call \in [Callers -> Local] /\ login \in [Logins -> LoginLocal]
  BY LocalKinds DEF Init
<1>4. begun \in 0 .. MaxBegun
  BY <1>2, AccountsAssumption
<1>5. ActorsExist
  BY DEF Init, ActorsExist, At, Idle
<1>. QED
  BY <1>1, <1>2, <1>3, <1>4, <1>5 DEF TypeInv, TypeOK

\* The types hold of every execution.
LEMMA TypeInvariant == Spec => []TypeInv
<1>1. TypeInv /\ [Next]_vars => TypeInv'
  BY TypeStep, ActorsStep DEF TypeInv
<1>. QED
  BY <1>1, TypeInit, PTL DEF Spec

\* Every variable keeps its type, whatever calls and logins do and wherever
\* one of them dies.
THEOREM TypeCorrect == Spec => []TypeOK
<1>1. TypeInv => TypeOK
  BY DEF TypeInv
<1>. QED
  BY <1>1, TypeInvariant, PTL

-----------------------------------------------------------------------------
(* Who is Administrator.                                                   *)

\* A login holds a row it read, and writes it back with the roles it has: if
\* Administrator is one of them, the user was granted it.
LoginsAreGranted ==
  \A l \in Logins :
    login[l].pc \in Holding /\ Administrator \in login[l].row.roles => login[l].user \in granted

\* A call with an organization's scope is about to write no Administrator.
ScopedWritesNone ==
  \A c \in Callers :
    call[c].pc \in Updating \cup {"insert"} => Platform(c) \/ Administrator \notin call[c].row.roles

GrantedInv == AdministratorsAreGranted /\ LoginsAreGranted /\ ScopedWritesNone

\* What was granted stays on record.
LEMMA GrantedGrows ==
  ASSUME Next
  PROVE  granted \subseteq granted'
<1>1. ASSUME NEW c \in Callers, Insert(c) \/ Save(c)
      PROVE  granted \subseteq granted'
  BY <1>1 DEF Insert, Save
<1>. QED
  BY <1>1, RowWriters

\* What the three actions that write a row leave.
LEMMA AdministratorsStep ==
  ASSUME TypeOK, GrantedInv, Next
  PROVE  AdministratorsAreGranted'
<1>1. ASSUME NEW l \in Logins, LoginRehash(l)
      PROVE  AdministratorsAreGranted'
  <2>1. login[l] \in RowLocal /\ login[l].pc \in Holding
    BY <1>1, LoginFacts DEF LoginRehash, LoginAt, Holding
  <2>2. [login[l].row EXCEPT !.weak = FALSE].roles = login[l].row.roles
    BY <2>1 DEF RowLocal, Row
  <2>3. Administrator \in login[l].row.roles => login[l].user \in granted
    BY <2>1 DEF GrantedInv, LoginsAreGranted
  <2>. QED
    BY <1>1, <2>1, <2>2, <2>3
       DEF LoginRehash, SaveRow, TypeOK, RowLocal, GrantedInv, AdministratorsAreGranted, Exists
<1>2. ASSUME NEW c \in Callers, Insert(c)
      PROVE  AdministratorsAreGranted'
  <2>1. call[c] \in InsertLocal /\ call[c].pc = "insert"
    BY <1>2, LocalFacts DEF Insert, At
  <2>2. Platform(c) \/ Administrator \notin call[c].row.roles
    BY <2>1 DEF GrantedInv, ScopedWritesNone
  <2>. QED
    BY <1>2, <2>1, <2>2 DEF Insert, TypeOK, InsertLocal, GrantedInv, AdministratorsAreGranted, Exists
<1>3. ASSUME NEW c \in Callers, Save(c)
      PROVE  AdministratorsAreGranted'
  <2>1. call[c] \in UpdateLocal /\ call[c].pc \in Updating
    BY <1>3, LocalFacts DEF Save, At, Updating
  <2>2. Platform(c) \/ Administrator \notin call[c].row.roles
    BY <2>1 DEF GrantedInv, ScopedWritesNone
  <2>. QED
    BY <1>3, <2>1, <2>2
       DEF Save, SaveRow, TypeOK, UpdateLocal, GrantedInv, AdministratorsAreGranted, Exists
<1>4. CASE UNCHANGED users
  BY <1>4, GrantedGrows DEF GrantedInv, AdministratorsAreGranted, Exists
<1>5. \/ UNCHANGED users
      \/ \E l \in Logins : LoginRehash(l)
      \/ \E c \in Callers : Insert(c) \/ Save(c)
  BY RowWriters
<1>. QED
  BY <1>1, <1>2, <1>3, <1>4, <1>5

\* A login takes the row from the table, and keeps its roles from then on.
LEMMA LoginsStep ==
  ASSUME TypeOK, GrantedInv, Next
  PROVE  LoginsAreGranted'
<1>. SUFFICES ASSUME NEW l \in Logins, login'[l].pc \in Holding,
                     Administrator \in login'[l].row.roles
              PROVE  login'[l].user \in granted'
  BY DEF LoginsAreGranted
<1>1. CASE login'[l].row = login[l].row /\ login'[l].user = login[l].user /\ login[l].pc \in Holding
  BY <1>1, GrantedGrows DEF GrantedInv, LoginsAreGranted
<1>2. CASE /\ login[l].user \in Users /\ Exists(login[l].user)
           /\ login'[l].user = login[l].user /\ login'[l].row = users[login[l].user]
  BY <1>2, GrantedGrows DEF GrantedInv, AdministratorsAreGranted
<1>. QED
  BY <1>1, <1>2, HoldersKept

\* The row a call of an organization writes is one it may write.
LEMMA ScopedStep ==
  ASSUME TypeOK, GrantedInv, Next
  PROVE  ScopedWritesNone'
<1>. SUFFICES ASSUME NEW c \in Callers, call'[c].pc \in Updating \cup {"insert"},
                     call'[c].scope # All
              PROVE  Administrator \notin call'[c].row.roles
  BY DEF ScopedWritesNone, Platform
<1>1. CASE call'[c] = call[c]
  BY <1>1 DEF GrantedInv, ScopedWritesNone, Platform
<1>2. CASE CheckAdmins(c) \/ CheckOrgAdmins(c)
  <2>1. call[c] \in UpdateLocal /\ call[c].pc \in Updating
    BY <1>2, LocalFacts DEF CheckAdmins, CheckOrgAdmins, At, Updating
  <2>2. call'[c].scope = call[c].scope /\ call'[c].row = call[c].row
    <3>1. \/ call'[c] = Idle
          \/ \E pc \in Updating : call'[c] = [call[c] EXCEPT !.pc = pc]
      BY <1>2 DEF CheckAdmins, CheckOrgAdmins, Goes, Updating, TypeOK
    <3>2. call'[c] # Idle
      BY DEF Idle, Updating
    <3>. QED
      BY <2>1, <3>1, <3>2 DEF UpdateLocal
  <2>. QED
    BY <2>1, <2>2 DEF GrantedInv, ScopedWritesNone, Platform
<1>3. ASSUME NEW u \in Users, NEW body \in Bodies, UpdateRead(c, u, body)
      PROVE  Administrator \notin call'[c].row.roles
  <2>1. call'[c].scope = call[c].scope /\ call'[c].row = Apply(users[u], body)
    BY <1>3 DEF UpdateRead, Goes, TypeOK
  <2>2. /\ Administrator \notin users[u].roles
        /\ Asks(body, "roles") => Administrator \notin body["roles"]
    BY <1>3, <2>1 DEF UpdateRead, MayUpdate, MayGrant, Platform
  <2>3. Apply(users[u], body).roles = Or(body, "roles", users[u].roles)
    BY DEF Apply
  <2>. QED
    BY <2>1, <2>2, <2>3 DEF Or
<1>4. ASSUME NEW u \in Users, NEW org \in Orgs, NEW roles \in NewRoles, NEW p \in Passwords,
             CreateCheck(c, u, org, roles, p)
      PROVE  Administrator \notin call'[c].row.roles
  BY <1>4 DEF CreateCheck, Goes, TypeOK, MayGrant, Platform
<1>. QED
  BY <1>1, <1>2, <1>3, <1>4, Ways, CallMover DEF CallStep, Updating

\* GrantedInv holds at first.
LEMMA GrantedInit ==
  ASSUME Init
  PROVE  GrantedInv
BY DEF Init, GrantedInv, AdministratorsAreGranted, LoginsAreGranted, ScopedWritesNone, Exists, Idle,
       Holding, Updating

\* Whoever holds Administrator was granted it by an Administrator, for any
\* number of calls, logins and faults, whatever they interleave.
THEOREM AdministratorsCorrect == Spec => []AdministratorsAreGranted
<1>1. TypeInv /\ GrantedInv /\ [Next]_vars => GrantedInv'
  <2>1. TypeOK /\ GrantedInv /\ Next => GrantedInv'
    BY AdministratorsStep, LoginsStep, ScopedStep DEF GrantedInv
  <2>2. GrantedInv /\ UNCHANGED vars => GrantedInv'
    BY DEF vars, GrantedInv, AdministratorsAreGranted, LoginsAreGranted, ScopedWritesNone, Exists,
           Platform
  <2>. QED
    BY <2>1, <2>2 DEF TypeInv
<1>2. GrantedInv => AdministratorsAreGranted
  BY DEF GrantedInv
<1>. QED
  BY <1>1, <1>2, GrantedInit, TypeInvariant, PTL DEF Spec

-----------------------------------------------------------------------------
(* What a revocation reaches.                                              *)

\* Whoever has a session, a grant, a login past its read or a request about to
\* be written has a row.
HoldersExist ==
  /\ \A s \in sessions : Exists(s.user)
  /\ \A g \in grants : Exists(g.user)
  /\ \A l \in Logins : login[l].pc \in Holding => Exists(login[l].user)
  /\ \A c \in Callers : At(c, "grant") => Exists(call[c].target)

\* An update under way will delete what its row puts out of order.
UpdatesRevoke ==
  \A c \in Callers : call[c].pc \in Updating =>
    /\ call[c].row.pw # call[c].read.pw => call[c].revoke
    /\ call[c].read.active /\ ~call[c].row.active => call[c].revoke /\ call[c].take

\* The call that will delete the sessions of u, and the one that will take its
\* grants: only an update that says so goes on from the first to the second.
Ending(c, u) == At(c, "sessions") /\ call[c].target = u
Taking(c, u) == call[c].target = u /\ (At(c, "grants") \/ (At(c, "sessions") /\ call[c].take))

SessionsReached ==
  ~stale /\ faults = 0 =>
    \A s \in sessions :
      \/ s.behind \/ (users[s.user].active /\ users[s.user].pw = s.pw)
      \/ \E c \in Callers : Ending(c, s.user)

GrantsReached ==
  ~stale /\ faults = 0 =>
    \A g \in grants : g.behind \/ users[g.user].active \/ \E c \in Callers : Taking(c, g.user)

ReachInv == HoldersExist /\ UpdatesRevoke /\ SessionsReached /\ GrantsReached

\* Without a fault, a call that is to delete sessions or take grants does so.
LEMMA EndingsEnd ==
  ASSUME TypeOK, Next, faults = 0, faults' = 0, NEW c \in Callers,
         At(c, "sessions") \/ At(c, "grants")
  PROVE  call'[c] = call[c] \/ DeleteSessions(c) \/ TakeGrants(c)
<1>1. ~Fail(c)
  BY DEF Fail
<1>2. ~(\E s \in sessions : Begin(c, s))
  <2>1. Idle.pc # "sessions" /\ Idle.pc # "grants"
    BY DEF Idle
  <2>. QED
    BY <2>1 DEF Begin, At
<1>3. /\ ~Identify(c) /\ ~ResolveScope(c) /\ ~Refuse(c) /\ ~Insert(c) /\ ~CheckAdmins(c)
      /\ ~CheckOrgAdmins(c) /\ ~Save(c) /\ ~GrantCreate(c)
  BY DEF Identify, ResolveScope, Refuse, Insert, CheckAdmins, CheckOrgAdmins, Save, GrantCreate, At
<1>4. ASSUME NEW u \in Users
      PROVE  /\ ~GrantCheck(c, u)
             /\ \A body \in Bodies : ~UpdateRead(c, u, body)
             /\ \A org \in Orgs, roles \in NewRoles, p \in Passwords : ~CreateCheck(c, u, org, roles, p)
  BY DEF GrantCheck, UpdateRead, CreateCheck, At
<1>. QED
  BY <1>1, <1>2, <1>3, <1>4, CallMover DEF CallStep

\* Rows that differ in the age of their hash only.
LEMMA MattersFacts ==
  ASSUME NEW a \in Row, NEW b \in Row, Matters(a) = Matters(b)
  PROVE  a.org = b.org /\ a.roles = b.roles /\ a.active = b.active /\ a.pw = b.pw
BY DEF Matters, Row

\* What becomes of a row that was there, if nothing stale was saved: only the
\* save of a call that read it as it was changes anything that matters.
LEMMA RowMatters ==
  ASSUME TypeOK, Next, ~stale', NEW u \in Users, Exists(u)
  PROVE  \/ users'[u] \in Row /\ Matters(users'[u]) = Matters(users[u])
         \/ \E c \in Callers :
              /\ Save(c) /\ call[c].target = u /\ users'[u] = call[c].row
              /\ Matters(users[u]) = Matters(call[c].read)
<1>. users[u] \in Row
  BY RowFacts
<1>1. ASSUME NEW l \in Logins, LoginRehash(l)
      PROVE  users'[u] \in Row /\ Matters(users'[u]) = Matters(users[u])
  <2>1. login[l] \in RowLocal
    BY <1>1, LoginFacts DEF LoginRehash, LoginAt, Holding
  <2>2. CASE login[l].user # u
    BY <1>1, <2>1, <2>2 DEF LoginRehash, SaveRow, TypeOK, RowLocal
  <2>3. CASE login[l].user = u
    <3>1. Matters(users[u]) = Matters(login[l].row)
      BY <1>1, <2>3 DEF LoginRehash, SaveRow
    <3>2. users'[u] = [login[l].row EXCEPT !.weak = FALSE]
      BY <1>1, <2>3 DEF LoginRehash, SaveRow, TypeOK
    <3>3. login[l].row \in Row
      BY <2>1 DEF RowLocal
    <3>4. users'[u] \in Row /\ Matters(users'[u]) = Matters(login[l].row)
      BY <3>2, <3>3 DEF Matters, Row
    <3>. QED
      BY <3>1, <3>4
  <2>. QED
    BY <2>2, <2>3
<1>2. ASSUME NEW c \in Callers, Insert(c)
      PROVE  users'[u] = users[u]
  BY <1>2 DEF Insert, TypeOK, Exists
<1>3. ASSUME NEW c \in Callers, Save(c)
      PROVE  \/ users'[u] = users[u]
             \/ /\ call[c].target = u /\ users'[u] = call[c].row
                /\ Matters(users[u]) = Matters(call[c].read)
  <2>1. call[c] \in UpdateLocal
    BY <1>3, LocalFacts DEF Save, At, Updating
  <2>2. CASE call[c].target # u
    BY <1>3, <2>1, <2>2 DEF Save, SaveRow, TypeOK, UpdateLocal
  <2>3. CASE call[c].target = u
    BY <1>3, <2>3 DEF Save, SaveRow, TypeOK
  <2>. QED
    BY <2>2, <2>3
<1>. QED
  BY <1>1, <1>2, <1>3, RowWriters

\* The same of what puts sessions and grants out of order.
LEMMA RowMoves ==
  ASSUME TypeOK, Next, ~stale', NEW u \in Users, Exists(u)
  PROVE  \/ users'[u].active = users[u].active /\ users'[u].pw = users[u].pw
         \/ \E c \in Callers :
              /\ Save(c) /\ call[c].target = u /\ users'[u] = call[c].row
              /\ users[u].active = call[c].read.active /\ users[u].pw = call[c].read.pw
<1>1. ASSUME NEW c \in Callers, Save(c)
      PROVE  call[c].read \in Row
  BY <1>1, LocalFacts DEF Save, At, Updating, UpdateLocal
<1>. QED
  BY <1>1, RowMatters, RowFacts, MattersFacts

\* Where a save goes on to.
LEMMA SaveGoesOn ==
  ASSUME TypeOK, UpdatesRevoke, NEW c \in Callers, Save(c),
         NEW CONSTANT u, call[c].target = u
  PROVE  /\ \/ call[c].row.pw # call[c].read.pw
            \/ call[c].read.active /\ ~call[c].row.active
            => Ending(c, u)'
         /\ call[c].read.active /\ ~call[c].row.active => Taking(c, u)'
<1>1. call[c] \in UpdateLocal /\ call[c].pc \in Updating
  BY LocalFacts DEF Save, At, Updating
<1>2. ASSUME call[c].revoke
      PROVE  call'[c] = [pc |-> "sessions", target |-> call[c].target, take |-> call[c].take]
  BY <1>2 DEF Save, Goes, TypeOK
<1>. QED
  BY <1>1, <1>2 DEF UpdatesRevoke, Ending, Taking, At

\* The actions that change who has a session, and who has a grant.
LEMMA HolderWriters ==
  ASSUME Next
  PROVE  /\ sessions' \subseteq sessions \/ \E l \in Logins : LoginCreate(l)
         /\ grants' \subseteq grants \/ \E c \in Callers : GrantCreate(c)
<1>1. ASSUME NEW c \in Callers, CallStep(c)
      PROVE  /\ sessions' \subseteq sessions
             /\ grants' \subseteq grants \/ GrantCreate(c)
  <2>1. CASE Identify(c) \/ ResolveScope(c) \/ Refuse(c)
    BY <2>1, Zenon DEF Identify, ResolveScope, Refuse, Scoped
  <2>2. CASE CheckAdmins(c) \/ CheckOrgAdmins(c)
    BY <2>2, Zenon DEF CheckAdmins, CheckOrgAdmins, Scoped
  <2>3. CASE Insert(c) \/ Save(c)
    BY <2>3 DEF Insert, Save
  <2>4. CASE DeleteSessions(c) \/ TakeGrants(c) \/ GrantCreate(c) \/ Fail(c)
    BY <2>4 DEF DeleteSessions, TakeGrants, GrantCreate, Fail
  <2>. QED
    BY <1>1, <2>1, <2>2, <2>3, <2>4 DEF CallStep
<1>2. ASSUME NEW c \in Callers, NEW u \in Users,
             \/ GrantCheck(c, u)
             \/ \E body \in Bodies : UpdateRead(c, u, body)
             \/ \E org \in Orgs, roles \in NewRoles, p \in Passwords : CreateCheck(c, u, org, roles, p)
      PROVE  sessions' \subseteq sessions /\ grants' \subseteq grants
  <2>1. Scoped
    BY <1>2, Zenon DEF GrantCheck, UpdateRead, CreateCheck
  <2>. QED
    BY <2>1 DEF Scoped
<1>3. ASSUME NEW l \in Logins,
             LoginStep(l) \/ \E u \in Users, p \in Passwords : LoginBegin(l, u, p)
      PROVE  /\ sessions' \subseteq sessions \/ LoginCreate(l)
             /\ grants' \subseteq grants
  BY <1>3 DEF LoginStep, LoginBegin, LoginRead, LoginVerify, LoginRehash, LoginCreate
<1>4. ASSUME NEW s \in sessions, Logout(s) \/ \E c \in Callers : Begin(c, s)
      PROVE  sessions' \subseteq sessions /\ grants' \subseteq grants
  BY <1>4 DEF Logout, Begin
<1>. QED
  BY <1>1, <1>2, <1>3, <1>4 DEF Next

\* Neither a stale save nor a fault is forgotten.
LEMMA HistoryStays ==
  ASSUME TypeOK, Next
  PROVE  (~stale' => ~stale) /\ (faults' = 0 => faults = 0)
<1>1. ASSUME NEW c \in Callers, CallStep(c)
      PROVE  (~stale' => ~stale) /\ (faults' = 0 => faults = 0)
  <2>1. CASE Identify(c) \/ ResolveScope(c) \/ Refuse(c)
    <3>1. Scoped
      BY <2>1, Zenon DEF Identify, ResolveScope, Refuse
    <3>. QED
      BY <3>1 DEF Scoped
  <2>2. CASE CheckAdmins(c) \/ CheckOrgAdmins(c)
    <3>1. Scoped
      BY <2>2, Zenon DEF CheckAdmins, CheckOrgAdmins
    <3>. QED
      BY <3>1 DEF Scoped
  <2>3. CASE Insert(c) \/ Save(c)
    BY <2>3 DEF Insert, Save, SaveRow, TypeOK
  <2>4. CASE DeleteSessions(c) \/ TakeGrants(c) \/ GrantCreate(c)
    BY <2>4 DEF DeleteSessions, TakeGrants, GrantCreate
  <2>5. CASE Fail(c)
    BY <2>5 DEF Fail, TypeOK
  <2>. QED
    BY <1>1, <2>1, <2>2, <2>3, <2>4, <2>5 DEF CallStep
<1>2. ASSUME NEW c \in Callers, NEW u \in Users,
             \/ GrantCheck(c, u)
             \/ \E body \in Bodies : UpdateRead(c, u, body)
             \/ \E org \in Orgs, roles \in NewRoles, p \in Passwords : CreateCheck(c, u, org, roles, p)
      PROVE  stale' = stale /\ faults' = faults
  <2>1. Scoped
    BY <1>2, Zenon DEF GrantCheck, UpdateRead, CreateCheck
  <2>. QED
    BY <2>1 DEF Scoped
<1>3. ASSUME NEW l \in Logins,
             LoginStep(l) \/ \E u \in Users, p \in Passwords : LoginBegin(l, u, p)
      PROVE  (~stale' => ~stale) /\ faults' = faults
  BY <1>3 DEF LoginStep, LoginBegin, LoginRead, LoginVerify, LoginRehash, LoginCreate, SaveRow, TypeOK
<1>4. ASSUME NEW s \in sessions, Logout(s) \/ \E c \in Callers : Begin(c, s)
      PROVE  stale' = stale /\ faults' = faults
  BY <1>4 DEF Logout, Begin
<1>. QED
  BY <1>1, <1>2, <1>3, <1>4 DEF Next

\* A session that was in order stays so, or is about to be deleted.
LEMMA SessionsStep ==
  ASSUME TypeOK, ReachInv, Next
  PROVE  SessionsReached'
<1>. SUFFICES ASSUME ~stale', faults' = 0, NEW s \in sessions', ~s.behind
              PROVE  \/ users'[s.user].active /\ users'[s.user].pw = s.pw
                     \/ \E c \in Callers : Ending(c, s.user)'
  BY DEF SessionsReached
<1>. ~stale /\ faults = 0
  BY HistoryStays
<1>1. CASE s \notin sessions
  <2>1. PICK l \in Logins : LoginCreate(l)
    BY <1>1, HolderWriters
  <2>2. s = [user |-> login[l].user, pw |-> login[l].guess,
             behind |-> ~users[login[l].user].active \/ users[login[l].user].pw # login[l].guess]
    BY <1>1, <2>1 DEF LoginCreate
  <2>. QED
    BY <2>1, <2>2 DEF LoginCreate
<1>2. CASE s \in sessions /\ \E c \in Callers : Ending(c, s.user)
  <2>1. PICK c \in Callers : Ending(c, s.user)
    BY <1>2
  <2>2. ~DeleteSessions(c)
    BY <2>1 DEF DeleteSessions, Ending
  <2>3. ~TakeGrants(c)
    BY <2>1 DEF TakeGrants, Ending, At
  <2>4. call'[c] = call[c]
    BY <2>1, <2>2, <2>3, EndingsEnd DEF Ending
  <2>. QED
    BY <2>1, <2>4 DEF Ending, At
<1>3. CASE s \in sessions /\ users[s.user].active /\ users[s.user].pw = s.pw
  <2>1. s.user \in Users /\ Exists(s.user)
    BY <1>3 DEF TypeOK, ReachInv, HoldersExist
  <2>2. CASE users'[s.user].active = users[s.user].active /\ users'[s.user].pw = users[s.user].pw
    BY <1>3, <2>2
  <2>3. ASSUME NEW c \in Callers, Save(c), call[c].target = s.user, users'[s.user] = call[c].row,
               users[s.user].active = call[c].read.active, users[s.user].pw = call[c].read.pw
        PROVE  \/ users'[s.user].active /\ users'[s.user].pw = s.pw
               \/ \E d \in Callers : Ending(d, s.user)'
    <3>1. \/ call[c].row.pw # call[c].read.pw
          \/ call[c].read.active /\ ~call[c].row.active
          => Ending(c, s.user)'
      BY <2>3, SaveGoesOn DEF ReachInv
    <3>. QED
      BY <1>3, <2>3, <3>1
  <2>. QED
    BY <2>1, <2>2, <2>3, RowMoves DEF ReachInv
<1>. QED
  BY <1>1, <1>2, <1>3 DEF ReachInv, SessionsReached

\* Every step keeps GrantsReached.
LEMMA GrantsStep ==
  ASSUME TypeOK, ReachInv, Next
  PROVE  GrantsReached'
<1>. SUFFICES ASSUME ~stale', faults' = 0, NEW g \in grants', ~g.behind
              PROVE  users'[g.user].active \/ \E c \in Callers : Taking(c, g.user)'
  BY DEF GrantsReached
<1>. ~stale /\ faults = 0
  BY HistoryStays
<1>1. CASE g \notin grants
  <2>1. PICK c \in Callers : GrantCreate(c)
    BY <1>1, HolderWriters
  <2>2. g = [user |-> call[c].target, behind |-> ~users[call[c].target].active]
    BY <1>1, <2>1 DEF GrantCreate
  <2>. QED
    BY <2>1, <2>2 DEF GrantCreate
<1>2. ASSUME g \in grants, NEW c \in Callers, Taking(c, g.user)
      PROVE  Taking(c, g.user)'
  <2>1. CASE call'[c] = call[c]
    BY <1>2, <2>1 DEF Taking, At
  <2>2. CASE DeleteSessions(c)
    <3>1. call[c].target = g.user /\ call[c].take
      BY <1>2, <2>2 DEF DeleteSessions, Taking, At
    <3>2. call'[c] = [pc |-> "grants", target |-> g.user]
      BY <2>2, <3>1 DEF DeleteSessions, Goes, TypeOK
    <3>. QED
      BY <3>2 DEF Taking, At
  <2>3. CASE TakeGrants(c)
    BY <1>2, <2>3 DEF TakeGrants, Taking
  <2>. QED
    BY <1>2, <2>1, <2>2, <2>3, EndingsEnd DEF Taking
<1>3. CASE g \in grants /\ users[g.user].active
  <2>1. g.user \in Users /\ Exists(g.user)
    BY <1>3 DEF TypeOK, ReachInv, HoldersExist
  <2>2. CASE users'[g.user].active = users[g.user].active
    BY <1>3, <2>2
  <2>3. ASSUME NEW c \in Callers, Save(c), call[c].target = g.user, users'[g.user] = call[c].row,
               users[g.user].active = call[c].read.active
        PROVE  users'[g.user].active \/ \E d \in Callers : Taking(d, g.user)'
    <3>1. call[c].read.active /\ ~call[c].row.active => Taking(c, g.user)'
      BY <2>3, SaveGoesOn DEF ReachInv
    <3>. QED
      BY <1>3, <2>3, <3>1
  <2>. QED
    BY <2>1, <2>2, <2>3, RowMoves DEF ReachInv
<1>. QED
  BY <1>1, <1>2, <1>3 DEF ReachInv, GrantsReached

\* The body of an update decides what it deletes, before anything is saved.
LEMMA UpdatesStep ==
  ASSUME TypeOK, ReachInv, Next
  PROVE  UpdatesRevoke'
<1>. SUFFICES ASSUME NEW c \in Callers, call'[c].pc \in Updating
              PROVE  /\ call'[c].row.pw # call'[c].read.pw => call'[c].revoke
                     /\ call'[c].read.active /\ ~call'[c].row.active => call'[c].revoke /\ call'[c].take
  BY DEF UpdatesRevoke
<1>1. CASE call'[c] = call[c]
  BY <1>1 DEF ReachInv, UpdatesRevoke
<1>2. CASE CheckAdmins(c) \/ CheckOrgAdmins(c)
  <2>1. call[c] \in UpdateLocal /\ call[c].pc \in Updating
    BY <1>2, LocalFacts DEF CheckAdmins, CheckOrgAdmins, At, Updating
  <2>2. /\ call'[c].read = call[c].read /\ call'[c].row = call[c].row
        /\ call'[c].revoke = call[c].revoke /\ call'[c].take = call[c].take
    <3>1. \/ call'[c] = Idle
          \/ \E pc \in Updating : call'[c] = [call[c] EXCEPT !.pc = pc]
      BY <1>2 DEF CheckAdmins, CheckOrgAdmins, Goes, Updating, TypeOK
    <3>2. call'[c] # Idle
      BY DEF Idle, Updating
    <3>. QED
      BY <2>1, <3>1, <3>2 DEF UpdateLocal
  <2>. QED
    BY <2>1, <2>2 DEF ReachInv, UpdatesRevoke
<1>3. ASSUME NEW u \in Users, NEW body \in Bodies, UpdateRead(c, u, body)
      PROVE  /\ call'[c].row.pw # call'[c].read.pw => call'[c].revoke
             /\ call'[c].read.active /\ ~call'[c].row.active => call'[c].revoke /\ call'[c].take
  <2> DEFINE old == users[u]
             new == Apply(old, body)
  <2>1. /\ call'[c].read = old /\ call'[c].row = new
        /\ call'[c].revoke = Revokes(old, new, body) /\ call'[c].take = TakesGrants(old, new)
    BY <1>3 DEF UpdateRead, Goes, TypeOK
  <2>2. new.pw # old.pw => Asks(body, "pw")
    BY DEF Apply, Or
  <2> HIDE DEF old, new
  <2>. QED
    BY <2>1, <2>2, Zenon DEF Revokes, TakesGrants
<1>. QED
  BY <1>1, <1>2, <1>3, Ways, CallMover DEF CallStep, Updating

\* Rows stay, and nobody comes to hold a session, a grant or a row of a user
\* without one.
LEMMA HoldersStep ==
  ASSUME TypeOK, ReachInv, Next
  PROVE  HoldersExist'
<1>. HoldersExist
  BY DEF ReachInv
<1>1. ASSUME NEW s \in sessions'
      PROVE  Exists(s.user)'
  <2>1. CASE s \in sessions
    <3>1. s.user \in Users /\ Exists(s.user)
      BY <2>1 DEF TypeOK, HoldersExist
    <3>. QED
      BY <3>1, RowsStay DEF Exists
  <2>2. CASE s \notin sessions
    <3>1. PICK l \in Logins : LoginCreate(l)
      BY <2>2, HolderWriters
    <3>2. s.user = login[l].user
      BY <2>2, <3>1 DEF LoginCreate
    <3>3. login[l] \in RowLocal /\ login[l].pc \in Holding
      BY <3>1, LoginFacts DEF LoginCreate, LoginAt, Holding
    <3>. QED
      BY <3>1, <3>2, <3>3 DEF HoldersExist, LoginCreate, Exists
  <2>. QED
    BY <2>1, <2>2
<1>2. ASSUME NEW g \in grants'
      PROVE  Exists(g.user)'
  <2>1. CASE g \in grants
    <3>1. g.user \in Users /\ Exists(g.user)
      BY <2>1 DEF TypeOK, HoldersExist
    <3>. QED
      BY <3>1, RowsStay DEF Exists
  <2>2. CASE g \notin grants
    <3>1. PICK c \in Callers : GrantCreate(c)
      BY <2>2, HolderWriters
    <3>2. g.user = call[c].target
      BY <2>2, <3>1 DEF GrantCreate
    <3>. QED
      BY <3>1, <3>2 DEF HoldersExist, GrantCreate, Exists
  <2>. QED
    BY <2>1, <2>2
<1>3. ASSUME NEW l \in Logins, login'[l].pc \in Holding
      PROVE  Exists(login[l].user)'
  <2>1. /\ login'[l].user = login[l].user /\ login[l].user \in Users /\ Exists(login[l].user)
    BY <1>3, HoldersKept DEF HoldersExist
  <2>2. Exists(login[l].user)' <=> users'[login[l].user] # Absent
    BY <2>1 DEF Exists
  <2>. QED
    BY <2>1, <2>2, RowsStay DEF Exists
<1>4. ASSUME NEW c \in Callers, At(c, "grant")'
      PROVE  Exists(call[c].target)'
  <2>1. call'[c].target \in Users /\ Exists(call'[c].target)
    <3>1. CASE call'[c] = call[c]
      BY <1>4, <3>1, LocalFacts DEF HoldersExist, At, GrantsLocal
    <3>2. ASSUME NEW u \in Users, GrantCheck(c, u)
          PROVE  call'[c].target = u /\ Exists(u)
      BY <3>2 DEF GrantCheck, Goes, TypeOK
    <3>. QED
      BY <1>4, <3>1, <3>2, Ways, CallMover DEF CallStep, At
  <2>2. Exists(call[c].target)' <=> users'[call'[c].target] # Absent
    BY DEF Exists
  <2>. QED
    BY <2>1, <2>2, RowsStay DEF Exists
<1>. QED
  BY <1>1, <1>2, <1>3, <1>4 DEF HoldersExist

\* ReachInv holds at first.
LEMMA ReachInit ==
  ASSUME Init
  PROVE  ReachInv
<1>1. HoldersExist
  <2>1. \A s \in sessions : \E u \in Users :
          /\ Rows0[u] # Absent /\ Rows0[u].active
          /\ s = [user |-> u, pw |-> Rows0[u].pw, behind |-> FALSE]
    BY DEF Init
  <2>2. \A s \in sessions : Exists(s.user)
    BY <2>1 DEF Init, Exists
  <2>. QED
    BY <2>2 DEF Init, HoldersExist, Holding, At, Idle
<1>2. UpdatesRevoke /\ GrantsReached
  BY DEF Init, UpdatesRevoke, GrantsReached, Updating, Idle
<1>3. SessionsReached
  <2>1. \A s \in sessions : users[s.user].active /\ users[s.user].pw = s.pw
    <3>1. \A s \in sessions : \E u \in Users :
            Rows0[u].active /\ s = [user |-> u, pw |-> Rows0[u].pw, behind |-> FALSE]
      BY DEF Init
    <3>. QED
      BY <3>1 DEF Init
  <2>. QED
    BY <2>1 DEF SessionsReached
<1>. QED
  BY <1>1, <1>2, <1>3 DEF ReachInv

\* A deactivation or a new password reaches every session, and a deactivation
\* every grant, that was in order when it was made, unless a stale row was
\* saved or a call died: for any number of calls and logins at once.
THEOREM RevocationsCorrect == Spec => []RevocationReaches
<1>1. TypeInv /\ ReachInv /\ [Next]_vars => ReachInv'
  <2>1. TypeOK /\ ReachInv /\ Next => ReachInv'
    BY HoldersStep, UpdatesStep, SessionsStep, GrantsStep DEF ReachInv
  <2>2. ReachInv /\ UNCHANGED vars => ReachInv'
    BY DEF vars, ReachInv, HoldersExist, UpdatesRevoke, SessionsReached, GrantsReached, Ending, Taking,
           Exists, At
  <2>. QED
    BY <2>1, <2>2 DEF TypeInv
<1>2. ReachInv => RevocationReaches
  BY DEF ReachInv, SessionsReached, GrantsReached, RevocationReaches, Finishing, Ending, Taking, At
<1>. QED
  BY <1>1, <1>2, ReachInit, TypeInvariant, PTL DEF Spec
-----------------------------------------------------------------------------
(* The last administrators.                                                *)

\* Administration calls come one after the other.  Without it the property is
\* false: AccountsRace has two calls that deactivate each other's user.
OneCallAtATime == \A c, d \in Callers : c = d

OtherAdmin(u) == \E v \in Users \ {u} : Holds(users[v], Administrator)
OtherOrgAdmin(u, o) == \E v \in Users \ {u} : Holds(users[v], OrgAdmin) /\ users[v].org = o

Loses(c) == Holds(call[c].read, Administrator) /\ ~Holds(call[c].row, Administrator)
LosesOrg(c) ==
  /\ Holds(call[c].read, OrgAdmin)
  /\ ~Holds(call[c].row, OrgAdmin) \/ call[c].row.org # call[c].read.org

\* What a call counted before its save is still so when it saves.
CountedInv ==
  ~stale => \A c \in Callers :
    /\ call[c].pc \in {"orgadmins", "save"} /\ Loses(c) => OtherAdmin(call[c].target)
    /\ At(c, "save") /\ LosesOrg(c) => OtherOrgAdmin(call[c].target, call[c].read.org)

\* A row that matters the same gives its user the same authority.
LEMMA AuthorityKept ==
  ASSUME NEW a \in Row, NEW b \in Row, Matters(a) = Matters(b), NEW role, Holds(a, role)
  PROVE  Holds(b, role) /\ b.org = a.org
<1>1. b # Absent
  BY DEF Row, Absent
<1>. QED
  BY <1>1, MattersFacts DEF Holds

\* Nothing but a save takes a role from its holder, or the holder from its
\* organization.
LEMMA HolderStays ==
  ASSUME TypeOK, Next, ~stale', NEW u \in Users, NEW CONSTANT role, Holds(users[u], role),
         ~\E c \in Callers : Save(c) /\ call[c].target = u
  PROVE  Holds(users'[u], role) /\ users'[u].org = users[u].org
<1>1. Exists(u)
  BY DEF Exists, Holds
<1>2. users[u] \in Row /\ users'[u] \in Row /\ Matters(users'[u]) = Matters(users[u])
  BY <1>1, RowFacts, RowMatters
<1>. QED
  BY <1>2, AuthorityKept

\* While no call saves, whoever was counted is still there.
LEMMA OthersStay ==
  ASSUME TypeOK, Next, ~stale', ~\E c \in Callers : Save(c)
  PROVE  /\ \A u : OtherAdmin(u) => OtherAdmin(u)'
         /\ \A u, o : OtherOrgAdmin(u, o) => OtherOrgAdmin(u, o)'
<1>1. ASSUME NEW v \in Users, NEW CONSTANT role, Holds(users[v], role)
      PROVE  Holds(users'[v], role) /\ users'[v].org = users[v].org
  BY <1>1, HolderStays
<1>2. ASSUME NEW u, OtherAdmin(u)
      PROVE  OtherAdmin(u)'
  BY <1>1, <1>2 DEF OtherAdmin, Holds
<1>3. ASSUME NEW u, NEW o, OtherOrgAdmin(u, o)
      PROVE  OtherOrgAdmin(u, o)'
  BY <1>1, <1>3 DEF OtherOrgAdmin, Holds
<1>. QED
  BY <1>2, <1>3

\* A count holds until the save it was made for.
LEMMA CountedStep ==
  ASSUME TypeOK, OneCallAtATime, CountedInv, Next
  PROVE  CountedInv'
<1>. SUFFICES ASSUME ~stale', NEW c \in Callers, call'[c].pc \in {"orgadmins", "save"}
              PROVE  /\ Loses(c)' => OtherAdmin(call[c].target)'
                     /\ At(c, "save")' /\ LosesOrg(c)' => OtherOrgAdmin(call[c].target, call[c].read.org)'
  BY DEF CountedInv, At
<1>. ~stale
  BY HistoryStays
<1>0. ~\E d \in Callers : Save(d)
  BY Ways DEF OneCallAtATime
<1>1. CASE call'[c] = call[c]
  <2>1. (Loses(c)' <=> Loses(c)) /\ (LosesOrg(c)' <=> LosesOrg(c)) /\ (At(c, "save")' <=> At(c, "save"))
    BY <1>1, Zenon DEF Loses, LosesOrg, At
  <2>2. /\ Loses(c) => OtherAdmin(call[c].target)
        /\ At(c, "save") /\ LosesOrg(c) => OtherOrgAdmin(call[c].target, call[c].read.org)
    BY <1>1 DEF CountedInv
  <2> DEFINE u == call[c].target
             o == call[c].read.org
  <2>3. u' = u /\ o' = o
    BY <1>1
  <2>. QED
    BY <2>1, <2>2, <2>3, <1>0, OthersStay DEF OtherAdmin, OtherOrgAdmin
<1>2. CASE CheckAdmins(c)
  <2>1. call[c] \in UpdateLocal
    BY <1>2, LocalFacts DEF CheckAdmins, At, Updating
  <2>2. call'[c] = [call[c] EXCEPT !.pc = "orgadmins"] /\ (Loses(c) => OtherAdmin(call[c].target))
    <3>1. Goes(c, IF Loses(c) /\ ~OtherAdmin(call[c].target) THEN Idle ELSE [call[c] EXCEPT !.pc = "orgadmins"])
      BY <1>2, Zenon DEF CheckAdmins, Loses, OtherAdmin
    <3>2. call'[c] # Idle
      BY DEF Idle
    <3>. QED
      BY <3>1, <3>2 DEF Goes, TypeOK
  <2>3. /\ call'[c].target = call[c].target /\ call'[c].read = call[c].read
        /\ call'[c].row = call[c].row /\ call'[c].pc = "orgadmins"
    BY <2>1, <2>2 DEF UpdateLocal
  <2>4. UNCHANGED users
    BY <1>2, Zenon DEF CheckAdmins, Scoped
  <2>. QED
    BY <2>2, <2>3, <2>4 DEF Loses, OtherAdmin, At
<1>3. CASE CheckOrgAdmins(c)
  <2> DEFINE old == call[c].read
  <2>1. call[c] \in UpdateLocal /\ At(c, "orgadmins")
    BY <1>3, LocalFacts DEF CheckOrgAdmins, At, Updating
  <2>2. call'[c] = [call[c] EXCEPT !.pc = "save"] /\ (LosesOrg(c) => OtherOrgAdmin(call[c].target, old.org))
    <3>1. Goes(c, IF LosesOrg(c) /\ ~OtherOrgAdmin(call[c].target, old.org)
                  THEN Idle ELSE [call[c] EXCEPT !.pc = "save"])
      BY <1>3, Zenon DEF CheckOrgAdmins, LosesOrg, OtherOrgAdmin
    <3>2. call'[c] # Idle
      BY DEF Idle
    <3>. QED
      BY <3>1, <3>2 DEF Goes, TypeOK
  <2>3. /\ call'[c].target = call[c].target /\ call'[c].read = call[c].read
        /\ call'[c].row = call[c].row /\ call'[c].pc = "save"
    BY <2>1, <2>2 DEF UpdateLocal
  <2>4. UNCHANGED users
    BY <1>3, Zenon DEF CheckOrgAdmins, Scoped
  <2>5. Loses(c) => OtherAdmin(call[c].target)
    BY <2>1 DEF CountedInv, At
  <2>. QED
    BY <2>2, <2>3, <2>4, <2>5 DEF Loses, LosesOrg, OtherAdmin, OtherOrgAdmin, At
<1>. QED
  BY <1>1, <1>2, <1>3, Ways, CallMover DEF CallStep

\* CountedInv holds at first.
LEMMA CountedInit ==
  ASSUME Init
  PROVE  CountedInv
BY DEF Init, CountedInv, Idle, At

\* A step that loses nothing that another call wrote leaves an administrator
\* where there was one: a save takes the role from one of two.
LEMMA LastStays ==
  ASSUME TypeOK, CountedInv, Next, ~stale'
  PROVE  /\ HasAdministrator => HasAdministrator'
         /\ \A o \in Orgs : HasOrgAdmin(o) => HasOrgAdmin(o)'
<1>. ~stale
  BY HistoryStays
<1>1. ASSUME NEW c \in Callers, Save(c)
      PROVE  /\ call[c] \in UpdateLocal /\ At(c, "save")
             /\ \A v \in Users \ {call[c].target} : users'[v] = users[v]
             /\ users'[call[c].target] = call[c].row
             /\ \A role : Holds(users[call[c].target], role) =>
                  Holds(call[c].read, role) /\ call[c].read.org = users[call[c].target].org
             /\ Loses(c) => OtherAdmin(call[c].target)
             /\ LosesOrg(c) => OtherOrgAdmin(call[c].target, call[c].read.org)
  <2>1. call[c] \in UpdateLocal /\ At(c, "save")
    BY <1>1, LocalFacts DEF Save, At, Updating
  <2>2. /\ users' = [users EXCEPT ![call[c].target] = call[c].row]
        /\ Matters(users[call[c].target]) = Matters(call[c].read)
    BY <1>1 DEF Save, SaveRow
  <2>3. ASSUME NEW role, Holds(users[call[c].target], role)
        PROVE  Holds(call[c].read, role) /\ call[c].read.org = users[call[c].target].org
    <3>1. users[call[c].target] \in Row /\ call[c].read \in Row
      BY <2>1, <2>3, RowFacts DEF Holds, Exists, UpdateLocal
    <3>. QED
      BY <2>2, <2>3, <3>1, AuthorityKept
  <2>4. /\ Loses(c) => OtherAdmin(call[c].target)
        /\ LosesOrg(c) => OtherOrgAdmin(call[c].target, call[c].read.org)
    BY <2>1 DEF CountedInv, At
  <2>. QED
    BY <2>1, <2>2, <2>3, <2>4 DEF TypeOK, UpdateLocal
<1>2. ASSUME NEW u \in Users, Holds(users[u], Administrator)
      PROVE  HasAdministrator'
  <2>1. ASSUME NEW c \in Callers, Save(c), call[c].target = u
        PROVE  HasAdministrator'
    <3>1. CASE Holds(call[c].row, Administrator)
      BY <1>1, <2>1, <3>1 DEF HasAdministrator
    <3>2. CASE ~Holds(call[c].row, Administrator)
      BY <1>1, <1>2, <2>1, <3>2 DEF HasAdministrator, Loses, OtherAdmin
    <3>. QED
      BY <3>1, <3>2
  <2>. QED
    BY <1>2, <2>1, HolderStays DEF HasAdministrator
<1>3. ASSUME NEW o \in Orgs, NEW u \in Users, Holds(users[u], OrgAdmin), users[u].org = o
      PROVE  HasOrgAdmin(o)'
  <2>1. ASSUME NEW c \in Callers, Save(c), call[c].target = u
        PROVE  HasOrgAdmin(o)'
    <3>1. CASE Holds(call[c].row, OrgAdmin) /\ call[c].row.org = o
      BY <1>1, <2>1, <3>1 DEF HasOrgAdmin
    <3>2. CASE ~Holds(call[c].row, OrgAdmin) \/ call[c].row.org # o
      <4>1. LosesOrg(c) /\ call[c].read.org = o
        BY <1>1, <1>3, <2>1, <3>2 DEF LosesOrg
      <4>. QED
        BY <1>1, <2>1, <4>1 DEF HasOrgAdmin, OtherOrgAdmin
    <3>. QED
      BY <3>1, <3>2
  <2>. QED
    BY <1>3, <2>1, HolderStays DEF HasOrgAdmin
<1>. QED
  BY <1>2, <1>3 DEF HasAdministrator, HasOrgAdmin

\* While calls come one at a time, no step leaves the platform without an
\* active Administrator, or an organization without its active administrator,
\* if it had one, unless a stale row was saved over another call's: whatever
\* logins, faults and rehashes come between a call's count and its save.
THEOREM LastAdministratorsStay == OneCallAtATime => (Spec => LastAdministratorsRemain)
<1>. SUFFICES ASSUME OneCallAtATime
              PROVE  Spec => LastAdministratorsRemain
  OBVIOUS
<1>1. TypeInv /\ CountedInv /\ [Next]_vars => CountedInv'
  <2>1. TypeOK /\ CountedInv /\ Next => CountedInv'
    BY CountedStep
  <2>2. CountedInv /\ UNCHANGED vars => CountedInv'
    BY DEF vars, CountedInv, Loses, LosesOrg, OtherAdmin, OtherOrgAdmin, At
  <2>. QED
    BY <2>1, <2>2 DEF TypeInv
<1>2. TypeInv /\ CountedInv /\ [Next]_vars =>
        [~stale' => /\ HasAdministrator => HasAdministrator'
                    /\ \A o \in Orgs : HasOrgAdmin(o) => HasOrgAdmin(o)']_vars
  BY LastStays DEF TypeInv
<1>. QED
  BY <1>1, <1>2, CountedInit, TypeInvariant, PTL DEF Spec, LastAdministratorsRemain
=============================================================================
