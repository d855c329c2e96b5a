---------------------------- MODULE QuestionStore ----------------------------
(***************************************************************************)
(* What the elicitation scheduler is promised by its store.                *)
(*                                                                         *)
(*   backend/src/workflow_platform/elicitation/store.py   QuestionStore    *)
(*                                                                         *)
(* "Everything that must be atomic is ONE method": a question is created,  *)
(* its slot taken and its key recorded in one step, and an expiry releases *)
(* the slots of the questions it expires in one step.                      *)
(***************************************************************************)
EXTENDS FiniteSets, Integers

CONSTANTS
  Keys,       \* (subject, topic) pairs
  Recipients, \* whom a question may be put to
  Asks        \* what a run may schedule: [key, to, cap]

ASSUME AsksAssumption ==
  /\ Asks \subseteq [key: Keys, to: Recipients, cap: Nat]
  /\ IsFiniteSet(Keys)

VARIABLES
  asked,     \* keys a question was ever created for
  questions  \* questions[k]: the one question of key k, or None

storeVars == <<asked, questions>>

None == [status |-> "none"]

Question == [status: {"pending", "expired"}, to: Recipients]

Pending(k)  == questions[k].status = "pending"
PendingTo(r) == {k \in Keys : Pending(k) /\ questions[k].to = r}

StoreInit == asked = {} /\ questions = [k \in Keys |-> None]

\* create_if_permitted() when no rule refuses.
Create(a) ==
  /\ a.key \notin asked
  /\ Cardinality(PendingTo(a.to)) < a.cap
  /\ asked' = asked \cup {a.key}
  /\ questions' = [questions EXCEPT ![a.key] = [status |-> "pending", to |-> a.to]]

Expired(K) == [k \in Keys |-> IF k \in K THEN [status |-> "expired", to |-> questions[k].to]
                                         ELSE questions[k]]

\* expire_pending(): no key is forgotten, no expired question comes back.
Expire(K) ==
  /\ \A k \in K : Pending(k)
  /\ questions' = Expired(K)
  /\ UNCHANGED asked

StoreNext == (\E a \in Asks : Create(a)) \/ (\E K \in SUBSET Keys : Expire(K))

StoreSpec == StoreInit /\ [][StoreNext]_storeVars
=============================================================================
