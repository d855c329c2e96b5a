----------------------------- MODULE MCAccounts -----------------------------
(* An administrator with an old password hash who is yet to create a second *)
(* user; or, for the race of two calls, two administrators.                 *)
EXTENDS Accounts

CONSTANTS ada, bob

User(roles, weak) == [org |-> "a", roles |-> roles, active |-> TRUE, pw |-> 0, weak |-> weak]

OneUser == [u \in Users |-> IF u = ada THEN User({Administrator}, TRUE) ELSE Absent]
TwoAdministrators == [u \in Users |-> User({Administrator}, FALSE)]

NoField == [f \in {} |-> TRUE]
Changes ==
  {[roles |-> r] : r \in {{Administrator}, {Administrator, OrgAdmin}, {OrgAdmin}}}
  \cup {[active |-> b] : b \in BOOLEAN} \cup {[org |-> "a"], [org |-> "b"], [pw |-> 1], NoField}

Demotions == {[active |-> FALSE]}
OneRole == {{OrgAdmin}}
=============================================================================
