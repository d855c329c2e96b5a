----------------------------- MODULE GmailProofs -----------------------------
(* The Gmail trigger, for any mailbox, page, ring and look-back: no message   *)
(* that is owed a run is stepped over, none is dispatched twice unless the    *)
(* ring was too small for its window, and only a completed run marks it read. *)
EXTENDS GmailPoll, FiniteSetTheorems, WellFoundedInduction, TLAPS

-----------------------------------------------------------------------------
(* Facts about the operators of the model.                                   *)

\* A nonempty set of naturals under a bound has a greatest element.
LEMMA GreatestOf ==
  ASSUME NEW S \in SUBSET Nat, S # {}, NEW n \in Nat, \A x \in S : x <= n
  PROVE  Max(S) \in S /\ \A x \in S : x <= Max(S)
<1> DEFINE T == {n - x : x \in S}
<1>1. T \subseteq Nat /\ T # {}
  <2>1. \A x \in S : x \in Nat /\ n - x \in Nat
    OBVIOUS
  <2>2. PICK x \in S : TRUE
    OBVIOUS
  <2>3. n - x \in T
    OBVIOUS
  <2>. QED
    BY <2>1, <2>3
<1>2. PICK t \in T : \A y \in T : ~(<<y, t>> \in OpToRel(<, Nat))
  <2> HIDE DEF T
  <2>. QED
    BY <1>1, WFMin, NatLessThanWellFounded
<1>3. PICK x \in S : t = n - x
  OBVIOUS
<1>4. \A y \in S : y <= x
  <2> TAKE y \in S
  <2>1. n - y \in T /\ n - y \in Nat /\ t \in Nat
    BY <1>1
  <2>2. ~(n - y < t)
    BY <1>2, <2>1 DEF OpToRel
  <2>. QED
    BY <1>3, <2>2
<1>. QED
  BY <1>4 DEF Max

\* The elements of a ring with one id more.
LEMMA RangeAppend ==
  ASSUME NEW S, NEW q \in Seq(S), NEW m \in S
  PROVE  Range(Append(q, m)) = Range(q) \cup {m}
<1>1. /\ Append(q, m) \in Seq(S) /\ Len(Append(q, m)) = Len(q) + 1
      /\ DOMAIN Append(q, m) = 1 .. Len(q) + 1 /\ DOMAIN q = 1 .. Len(q) /\ Len(q) \in Nat
      /\ \A i \in 1 .. Len(q) : Append(q, m)[i] = q[i]
      /\ Append(q, m)[Len(q) + 1] = m
  OBVIOUS
<1>. QED
  BY <1>1 DEF Range

\* Dropping the oldest entry of a sequence adds no member.
LEMMA RangeTail ==
  ASSUME NEW S, NEW q \in Seq(S), q # << >>
  PROVE  Range(Tail(q)) \subseteq Range(q) /\ Range(q) \subseteq Range(Tail(q)) \cup {q[1]}
<1>1. /\ Len(q) \in Nat \ {0} /\ DOMAIN q = 1 .. Len(q)
      /\ Tail(q) \in Seq(S) /\ Len(Tail(q)) = Len(q) - 1
      /\ DOMAIN Tail(q) = 1 .. Len(q) - 1
      /\ \A i \in 1 .. Len(q) - 1 : Tail(q)[i] = q[i + 1]
  OBVIOUS
<1>2. \A i \in 1 .. Len(q) - 1 : i + 1 \in 1 .. Len(q)
  BY <1>1
<1>3. Range(Tail(q)) \subseteq Range(q)
  BY <1>1, <1>2 DEF Range
<1>4. ASSUME NEW i \in 1 .. Len(q), i # 1
      PROVE  q[i] \in Range(Tail(q))
  <2>1. i - 1 \in 1 .. Len(q) - 1 /\ (i - 1) + 1 = i
    BY <1>1, <1>4
  <2>2. Tail(q)[i - 1] = q[i]
    BY <1>1, <2>1
  <2>. QED
    BY <1>1, <2>1, <2>2 DEF Range
<1>. QED
  BY <1>1, <1>3, <1>4 DEF Range

\* The empty ring is a sequence without members.
LEMMA EmptyRing == << >> \in Seq(Messages) /\ Len(<< >>) = 0 /\ Range(<< >>) = {}
  BY DEF Range

-----------------------------------------------------------------------------
(* The types.                                                                *)

\* Only a process that is up has a loop.
TypeInv == TypeOK /\ IsFiniteSet(box) /\ (proc = "down" => pc = "off")

\* The types hold at first.
LEMMA TypeInit == Init => TypeInv
<1> SUFFICES ASSUME Init PROVE TypeInv
  OBVIOUS
<1>1. stop \in BOOLEAN /\ dispatched \in BOOLEAN
  BY DEF Init
<1>2. saved \in StoredType /\ Len(saved.seen) <= Ring
  BY MailAssumption, EmptyRing DEF Init, StoredType
<1>3. cursor \in 0 .. MaxNow /\ now \in 0 .. MaxNow /\ stamp \in [Messages -> 0 .. MaxNow]
  BY MailAssumption DEF Init
<1>. QED
  BY <1>1, <1>2, <1>3, MailAssumption, FS_EmptySet, EmptyRing DEF Init, TypeInv, TypeOK, Places

\* Remembering a message keeps the ring a bounded sequence.
LEMMA SeenType ==
  ASSUME TypeOK, NEW m \in Messages
  PROVE  MarkSeen(m) \in Seq(Messages) /\ Len(MarkSeen(m)) <= Ring
  BY MailAssumption DEF TypeOK, MarkSeen

\* The cursor after a batch: the newest stamp of the batch, or as it was.
LEMMA AdvancedMax ==
  ASSUME TypeOK
  PROVE  /\ Advanced(batch) \in 0 .. MaxNow /\ cursor <= Advanced(batch)
         /\ \A m \in batch : stamp[m] <= Advanced(batch)
         /\ Advanced(batch) = cursor \/ \E m \in batch : Advanced(batch) = stamp[m]
<1> DEFINE S == {cursor} \cup {stamp[m] : m \in batch}
<1>1. S \subseteq 0 .. MaxNow /\ cursor \in S /\ \A m \in batch : stamp[m] \in S
  BY DEF TypeOK
<1>2. S \in SUBSET Nat /\ S # {} /\ MaxNow \in Nat /\ \A x \in S : x <= MaxNow
  BY <1>1, MailAssumption
<1>3. Max(S) \in S /\ \A x \in S : x <= Max(S)
  BY <1>2, GreatestOf
<1>. QED
  BY <1>1, <1>3 DEF Advanced

\* An arrival keeps the types.
LEMMA TypeArrive ==
  ASSUME TypeInv, NEW m \in Messages, Arrive(m)
  PROVE  TypeInv'
<1>1. IsFiniteSet(box')
  BY FS_AddElement DEF TypeInv, Arrive
<1>2. stamp' \in [Messages -> 0 .. MaxNow]
  BY MailAssumption DEF TypeInv, TypeOK, Arrive
<1>. QED
  BY <1>1, <1>2 DEF TypeInv, TypeOK, Arrive, trigger, history, bounds

\* Every step keeps the types.
LEMMA TypeStep ==
  ASSUME TypeInv, [Next]_vars
  PROVE  TypeInv'
<1> USE MailAssumption, EmptyRing DEF TypeInv, TypeOK, StoredType, Places, mail, trigger, history, bounds, Fault
<1>1. ASSUME NEW m \in Messages, Arrive(m) PROVE TypeInv'
  BY <1>1, TypeArrive
<1>2. CASE Tick
  BY <1>2 DEF Tick
<1>3. CASE Start
  <2>1. stop' \in BOOLEAN /\ dispatched' \in BOOLEAN /\ proc' \in {"up", "down"} /\ pc' \in Places
    BY <1>3 DEF Start, Resume, StepOver
  <2>2. cursor' \in 0 .. MaxNow /\ faults' \in 0 .. MaxFaults /\ restarts' \in 0 .. MaxRestarts
    BY <1>3 DEF Start, Resume, StepOver
  <2>3. saved' \in StoredType /\ seen' \in Seq(Messages) /\ Len(seen') <= Ring /\ Len(saved'.seen) <= Ring
    <3>1. saved' = saved /\ (seen' = saved.seen \/ seen' = << >>)
      BY <1>3 DEF Start, Resume, StepOver
    <3>2. saved.seen \in Seq(Messages) /\ Len(saved.seen) <= Ring
      OBVIOUS
    <3>3. CASE seen' = saved.seen
      BY <3>1, <3>2, <3>3
    <3>4. CASE seen' = << >>
      <4>1. seen' \in Seq(Messages) /\ Len(seen') <= Ring
        BY <3>4, EmptyRing, MailAssumption
      <4>. QED
        BY <3>1, <3>2, <4>1
    <3>. QED
      BY <3>1, <3>3, <3>4
  <2>4. abandoned' \subseteq box' /\ handled' \subseteq box' /\ refired' \subseteq handled' \cup box'
    BY <1>3 DEF Start, Resume, StepOver
  <2>5. pc' # "call" /\ current' = NoMessage
    BY <1>3 DEF Start, Resume, StepOver
  <2>. QED
    BY <1>3, <2>1, <2>2, <2>3, <2>4, <2>5 DEF Start, Resume, StepOver
<1>4. CASE List
  BY <1>4 DEF List, OldestOf, Listed
<1>5. CASE Fetch
  BY <1>5, AdvancedMax DEF Fetch
<1>6. CASE Called
  BY <1>6 DEF Called
<1>7. CASE EndBatch
  <2>1. stop' \in BOOLEAN /\ dispatched' \in BOOLEAN /\ proc' \in {"up", "down"} /\ pc' \in Places
    BY <1>7 DEF EndBatch
  <2>2. cursor' \in 0 .. MaxNow /\ faults' \in 0 .. MaxFaults /\ restarts' \in 0 .. MaxRestarts
    BY <1>7 DEF EndBatch
  <2>3. saved' \in StoredType /\ seen' \in Seq(Messages) /\ Len(seen') <= Ring /\ Len(saved'.seen) <= Ring
    <3>1. [known |-> TRUE, cursor |-> cursor, seen |-> seen] \in StoredType
      OBVIOUS
    <3>2. saved' = saved \/ saved' = [known |-> TRUE, cursor |-> cursor, seen |-> seen]
      BY <1>7 DEF EndBatch
    <3>3. seen' = seen
      BY <1>7 DEF EndBatch
    <3>4. saved'.seen = saved.seen \/ saved'.seen = seen
      BY <3>2
    <3>. QED
      BY <3>1, <3>2, <3>3, <3>4
  <2>. QED
    BY <1>7, <2>1, <2>2, <2>3 DEF EndBatch
<1>8. CASE Wake
  BY <1>8 DEF Wake
<1>9. CASE PollFails
  BY <1>9 DEF PollFails
<1>10. CASE CallFails
  BY <1>10 DEF CallFails
<1>11. CASE Stop
  BY <1>11 DEF Stop, Frozen
<1>12. CASE Halt
  BY <1>12 DEF Halt, Frozen
<1>13. CASE Exit
  <2>1. stop' \in BOOLEAN /\ dispatched' \in BOOLEAN /\ proc' \in {"up", "down"} /\ pc' \in Places
    BY <1>13 DEF Exit, Forget, Frozen
  <2>2. cursor' \in 0 .. MaxNow /\ faults' \in 0 .. MaxFaults /\ restarts' \in 0 .. MaxRestarts
    BY <1>13 DEF Exit, Forget, Frozen
  <2>3. saved' \in StoredType /\ seen' \in Seq(Messages) /\ Len(seen') <= Ring /\ Len(saved'.seen) <= Ring
    BY <1>13 DEF Exit, Forget, Frozen
  <2>. QED
    BY <1>13, <2>1, <2>2, <2>3 DEF Exit, Forget, Frozen
<1>14. CASE Crash
  <2>1. stop' \in BOOLEAN /\ dispatched' \in BOOLEAN /\ proc' \in {"up", "down"} /\ pc' \in Places
    BY <1>14 DEF Crash, Forget, Frozen
  <2>2. cursor' \in 0 .. MaxNow /\ faults' \in 0 .. MaxFaults /\ restarts' \in 0 .. MaxRestarts
    BY <1>14 DEF Crash, Forget, Frozen
  <2>3. saved' \in StoredType /\ seen' \in Seq(Messages) /\ Len(seen') <= Ring /\ Len(saved'.seen) <= Ring
    BY <1>14 DEF Crash, Forget, Frozen
  <2>. QED
    BY <1>14, <2>1, <2>2, <2>3 DEF Crash, Forget, Frozen
<1>15. ASSUME NEW m \in Messages, Dispatch(m) PROVE TypeInv'
  BY <1>15, SeenType DEF Dispatch
<1>16. CASE UNCHANGED vars
  BY <1>16 DEF vars
<1>. QED
  BY <1>1, <1>2, <1>3, <1>4, <1>5, <1>6, <1>7, <1>8, <1>9, <1>10, <1>11, <1>12, <1>13, <1>14, <1>15, <1>16 DEF Next, LoopStep

\* Every variable stays within its type, however mail, polls, failures, stops
\* and crashes interleave (triggers/gmail_poll.py).
THEOREM TypeCorrect == Spec => []TypeOK
<1>1. Init => TypeInv
  BY TypeInit
<1>2. TypeInv /\ [Next]_vars => TypeInv'
  BY TypeStep
<1>. QED
  BY <1>1, <1>2, PTL DEF Spec, TypeInv

-----------------------------------------------------------------------------
(* No message is stepped over.                                               *)

\* The messages a run is still owed to.
Owed == due \ (ran \cup abandoned)

\* A batch is held from its listing to its last dispatch, and a message that is
\* not called is not current.
PlaceInv ==
  /\ batch # {} => pc \in {"fetch", "dispatch", "call"}
  /\ ~saved.known => kept = {} /\ saved.seen = << >>

\* No position and no stamp lies in the future, and rings hold mail.
ClockInv ==
  /\ cursor <= now /\ saved.cursor <= now
  /\ \A m \in box : stamp[m] <= now
  /\ Range(seen) \subseteq box /\ Range(saved.seen) \subseteq box

\* Between the listing and the advance of the cursor, whatever is owed and was
\* not taken lies within the look-back of all that was taken.
FetchInv ==
  pc = "fetch" =>
    /\ \A m \in batch : Reaches(cursor, seen, m)
    /\ \A m \in Owed \ batch, b \in batch : stamp[b] <= stamp[m] + Lookback

StepInv == PlaceInv /\ ClockInv /\ FetchInv /\ NothingSteppedOver

\* StepInv holds at first.
LEMMA StepInit == Init => StepInv
  BY MailAssumption, EmptyRing
  DEF Init, StepInv, PlaceInv, ClockInv, FetchInv, NothingSteppedOver, Reaches, Listed

\* What the ring holds after a message is remembered.
LEMMA SeenRange ==
  ASSUME TypeOK, NEW m \in Messages
  PROVE  m \in Range(MarkSeen(m)) /\ Range(MarkSeen(m)) \subseteq Range(seen) \cup {m}
<1>1. CASE Len(seen) = Ring
  <2>1. seen # << >> /\ Tail(seen) \in Seq(Messages)
    BY <1>1, MailAssumption DEF TypeOK
  <2>2. ASSUME NEW q \in Seq(Messages)
        PROVE  Range(Append(q, m)) = Range(q) \cup {m}
    BY RangeAppend
  <2>3. MarkSeen(m) = Append(Tail(seen), m)
    BY <1>1 DEF MarkSeen
  <2>4. Range(MarkSeen(m)) = Range(Tail(seen)) \cup {m}
    BY <2>1, <2>2, <2>3
  <2>5. Range(Tail(seen)) \subseteq Range(seen)
    BY <2>1, RangeTail DEF TypeOK
  <2>. QED
    BY <2>4, <2>5
<1>2. CASE Len(seen) # Ring
  BY <1>2, RangeAppend DEF MarkSeen, TypeOK
<1>. QED
  BY <1>1, <1>2

\* Every step keeps PlaceInv.
LEMMA PlaceStep ==
  ASSUME TypeInv, PlaceInv, [Next]_vars
  PROVE  PlaceInv'
<1> USE DEF PlaceInv, TypeInv, mail, trigger, history, bounds
<1>1. ASSUME NEW m \in Messages, Arrive(m) PROVE PlaceInv'
  BY <1>1 DEF Arrive
<1>2. CASE Tick
  BY <1>2 DEF Tick
<1>3. CASE Start
  BY <1>3 DEF Start, Resume, StepOver
<1>4. CASE List
  BY <1>4 DEF List
<1>5. CASE Fetch
  BY <1>5 DEF Fetch
<1>6. ASSUME NEW m \in Messages, Dispatch(m) PROVE PlaceInv'
  BY <1>6 DEF Dispatch
<1>7. CASE Called
  BY <1>7 DEF Called
<1>8. CASE EndBatch
  BY <1>8 DEF EndBatch
<1>9. CASE Wake
  BY <1>9 DEF Wake
<1>10. CASE PollFails
  BY <1>10 DEF PollFails
<1>11. CASE CallFails
  BY <1>11 DEF CallFails
<1>12. CASE Stop
  BY <1>12 DEF Stop, Frozen
<1>13. CASE Halt
  BY <1>13 DEF Halt, Frozen
<1>14. CASE Exit
  BY <1>14 DEF Exit, Forget, Frozen
<1>15. CASE Crash
  BY <1>15 DEF Crash, Forget, Frozen
<1>16. CASE UNCHANGED vars
  BY <1>16 DEF vars
<1>. QED
  BY <1>1, <1>2, <1>3, <1>4, <1>5, <1>6, <1>7, <1>8, <1>9, <1>10, <1>11, <1>12, <1>13, <1>14, <1>15, <1>16 DEF Next, LoopStep

\* Every step keeps ClockInv.
LEMMA ClockStep ==
  ASSUME TypeInv, ClockInv, [Next]_vars
  PROVE  ClockInv'
<1> USE MailAssumption DEF ClockInv, TypeInv, TypeOK, mail, trigger, history, bounds
<1>1. ASSUME NEW m \in Messages, Arrive(m) PROVE ClockInv'
  BY <1>1 DEF Arrive
<1>2. CASE Tick
  <2>1. /\ now' = now + 1 /\ now \in Nat /\ UNCHANGED <<cursor, seen, saved, box, stamp>>
        /\ cursor \in Nat /\ saved.cursor \in Nat /\ \A m \in box : stamp[m] \in Nat
    BY <1>2 DEF Tick, StoredType
  <2>. QED
    BY <2>1
<1>3. CASE Start
  BY <1>3, EmptyRing DEF Start, Resume, StepOver
<1>4. CASE List
  BY <1>4 DEF List
<1>5. CASE Fetch
  BY <1>5, AdvancedMax DEF Fetch
<1>6. ASSUME NEW m \in Messages, Dispatch(m) PROVE ClockInv'
  BY <1>6, SeenRange DEF Dispatch
<1>7. CASE Called
  BY <1>7 DEF Called
<1>8. CASE EndBatch
  BY <1>8 DEF EndBatch
<1>9. CASE Wake
  BY <1>9 DEF Wake
<1>10. CASE PollFails
  BY <1>10 DEF PollFails
<1>11. CASE CallFails
  BY <1>11 DEF CallFails
<1>12. CASE Stop
  BY <1>12 DEF Stop, Frozen
<1>13. CASE Halt
  BY <1>13 DEF Halt, Frozen
<1>14. CASE Exit
  BY <1>14, EmptyRing DEF Exit, Forget, Frozen
<1>15. CASE Crash
  BY <1>15, EmptyRing DEF Crash, Forget, Frozen
<1>16. CASE UNCHANGED vars
  BY <1>16 DEF vars
<1>. QED
  BY <1>1, <1>2, <1>3, <1>4, <1>5, <1>6, <1>7, <1>8, <1>9, <1>10, <1>11, <1>12, <1>13, <1>14, <1>15, <1>16 DEF Next, LoopStep

\* Every step keeps FetchInv.
LEMMA FetchStep ==
  ASSUME TypeInv, StepInv, [Next]_vars
  PROVE  FetchInv'
<1> USE MailAssumption DEF StepInv, PlaceInv, ClockInv, FetchInv, Owed, TypeInv, TypeOK, mail, trigger, history, bounds
<1>1. ASSUME NEW m \in Messages, Arrive(m) PROVE FetchInv'
  BY <1>1 DEF Arrive, Reaches, Listed
<1>2. CASE Tick
  BY <1>2 DEF Tick, Reaches, Listed
<1>3. CASE Start
  BY <1>3 DEF Start, Resume, StepOver
<1>4. CASE List
  <2> DEFINE S == Listed(cursor) \ Range(seen)
  <2>1. /\ batch' \in SUBSET S /\ \A b \in batch', m \in S \ batch' : stamp[b] <= stamp[m]
        /\ UNCHANGED <<box, stamp, cursor, seen, due, ran, abandoned>> /\ pc' = "fetch" /\ batch = {}
        /\ current = NoMessage
    BY <1>4 DEF List, OldestOf
  <2>2. \A m \in batch' : Reaches(cursor, seen, m)
    BY <2>1 DEF Reaches
  <2>3. Owed \subseteq S
    BY <1>4, <2>1 DEF List, NothingSteppedOver, Reaches
  <2>4. \A m \in S : stamp[m] \in Nat
    BY DEF Listed
  <2>. QED
    BY <2>1, <2>2, <2>3, <2>4 DEF Reaches, Listed
<1>5. CASE Fetch
  BY <1>5 DEF Fetch
<1>6. ASSUME NEW m \in Messages, Dispatch(m) PROVE FetchInv'
  BY <1>6 DEF Dispatch
<1>7. CASE Called
  BY <1>7 DEF Called
<1>8. CASE EndBatch
  BY <1>8 DEF EndBatch
<1>9. CASE Wake
  BY <1>9 DEF Wake
<1>10. CASE PollFails
  BY <1>10 DEF PollFails
<1>11. CASE CallFails
  BY <1>11 DEF CallFails
<1>12. CASE Stop
  BY <1>12 DEF Stop, Frozen, Reaches, Listed
<1>13. CASE Halt
  BY <1>13 DEF Halt, Frozen
<1>14. CASE Exit
  BY <1>14 DEF Exit, Forget, Frozen
<1>15. CASE Crash
  BY <1>15 DEF Crash, Forget, Frozen
<1>16. CASE UNCHANGED vars
  BY <1>16 DEF vars, Reaches, Listed
<1>. QED
  BY <1>1, <1>2, <1>3, <1>4, <1>5, <1>6, <1>7, <1>8, <1>9, <1>10, <1>11, <1>12, <1>13, <1>14, <1>15, <1>16 DEF Next, LoopStep

\* Every step keeps NothingSteppedOver.
LEMMA OwedStep ==
  ASSUME TypeInv, StepInv, [Next]_vars
  PROVE  NothingSteppedOver'
<1> USE MailAssumption DEF StepInv, PlaceInv, ClockInv, FetchInv, Owed, NothingSteppedOver, TypeInv, TypeOK, mail, trigger, history, bounds
<1>1. ASSUME NEW m \in Messages, Arrive(m) PROVE NothingSteppedOver'
  <2> SUFFICES ASSUME NEW x \in Owed'
               PROVE  /\ saved'.known => Reaches(saved.cursor, saved.seen, x)'
                      /\ pc' # "off" => x = current' \/ x \in batch' \/ Reaches(cursor, seen, x)'
    BY DEF NothingSteppedOver
  <2>1. CASE x = m
    <3>1. x \in box' /\ stamp'[x] + Lookback >= now
      BY <1>1, <2>1 DEF Arrive
    <3>2. x \notin Range(seen) /\ x \notin Range(saved.seen)
      BY <1>1, <2>1 DEF Arrive
    <3>3. stamp'[x] + Lookback >= cursor /\ stamp'[x] + Lookback >= saved.cursor
      <4>1. stamp'[x] \in Nat /\ saved.cursor \in Nat
        BY <1>1, TypeArrive DEF StoredType
      <4>. QED
        BY <3>1, <4>1
    <3>. QED
      BY <1>1, <3>1, <3>2, <3>3 DEF Arrive, Reaches, Listed
  <2>2. CASE x # m
    BY <1>1, <2>2 DEF Arrive, Reaches, Listed
  <2>. QED
    BY <2>1, <2>2
<1>2. CASE Tick
  BY <1>2 DEF Tick, Reaches, Listed
<1>3. CASE Start
  BY <1>3, EmptyRing DEF Start, Resume, StepOver, Reaches, Listed
<1>4. CASE List
  BY <1>4 DEF List, Reaches, Listed, OldestOf
<1>5. CASE Fetch
  BY <1>5, AdvancedMax DEF Fetch, Reaches, Listed
<1>6. ASSUME NEW m \in Messages, Dispatch(m) PROVE NothingSteppedOver'
  BY <1>6, SeenRange DEF Dispatch, Reaches, Listed
<1>7. CASE Called
  BY <1>7 DEF Called, Reaches, Listed
<1>8. CASE EndBatch
  BY <1>8 DEF EndBatch, Reaches, Listed
<1>9. CASE Wake
  BY <1>9 DEF Wake, Reaches, Listed
<1>10. CASE PollFails
  BY <1>10 DEF PollFails, Reaches, Listed
<1>11. CASE CallFails
  BY <1>11 DEF CallFails, Reaches, Listed
<1>12. CASE Stop
  BY <1>12 DEF Stop, Frozen, Reaches, Listed
<1>13. CASE Halt
  BY <1>13 DEF Halt, Frozen, Reaches, Listed
<1>14. CASE Exit
  BY <1>14 DEF Exit, Forget, Frozen, Reaches, Listed
<1>15. CASE Crash
  BY <1>15 DEF Crash, Forget, Frozen, Reaches, Listed
<1>16. CASE UNCHANGED vars
  BY <1>16 DEF vars, Reaches, Listed
<1>. QED
  BY <1>1, <1>2, <1>3, <1>4, <1>5, <1>6, <1>7, <1>8, <1>9, <1>10, <1>11, <1>12, <1>13, <1>14, <1>15, <1>16 DEF Next, LoopStep

\* "A cursor that advances to the newest one returned never steps over a
\* message it has not seen" (gmail_poll.py): for any page, ring, look-back and
\* stamps, over failed polls and writes, stops and crashes.
THEOREM NothingIsSteppedOver == Spec => []NothingSteppedOver
<1>1. Init => TypeInv /\ StepInv
  BY TypeInit, StepInit
<1>2. TypeInv /\ StepInv /\ [Next]_vars => (TypeInv /\ StepInv)'
  BY TypeStep, PlaceStep, ClockStep, FetchStep, OwedStep DEF StepInv
<1>3. StepInv => NothingSteppedOver
  BY DEF StepInv
<1>. QED
  BY <1>1, <1>2, <1>3, PTL DEF Spec

-----------------------------------------------------------------------------
(* A message is marked read by a completed run only.                         *)

\* Whatever mail arrives, fails or is dispatched twice, a message without a
\* completed run keeps UNREAD (mark_read_after_success).
THEOREM ReadIsCompleted == Spec => []ReadMeansCompleted
<1>1. Init => ReadMeansCompleted
  BY DEF Init, ReadMeansCompleted
<1>2. ReadMeansCompleted /\ [Next]_vars => ReadMeansCompleted'
  BY DEF ReadMeansCompleted, Next, LoopStep, vars, mail, history, trigger, bounds, Arrive, Tick, Start, Resume,
         StepOver, List, Fetch, Dispatch, Called, EndBatch, Wake, PollFails, CallFails, Stop, Halt, Exit,
         Crash, Forget, Frozen
<1>. QED
  BY <1>1, <1>2, PTL DEF Spec

-----------------------------------------------------------------------------
(* A message is dispatched twice only past the ring.                         *)

\* What dispatching the messages of h leaves of a position, cursor c and ring
\* q: the ring holds each once, in an order in which none lies further than the
\* look-back before an earlier one; and a message that has fallen out left a
\* full ring of messages that were dispatched after it.
Past(c, q, h) ==
  /\ Range(q) \subseteq h
  /\ \A m \in h : stamp[m] <= c
  /\ \A i, j \in DOMAIN q : i # j => q[i] # q[j]
  /\ \A i, j \in DOMAIN q : i < j => stamp[q[i]] <= stamp[q[j]] + Lookback
  /\ \A m \in h \ Range(q) : Len(q) = Ring /\ \A n \in Range(q) : stamp[m] <= stamp[n] + Lookback

\* A message of the batch was not in the ring, is no older than the look-back
\* before anything handled, and the cursor has moved past it.
BatchInv ==
  /\ batch \cap Range(seen) = {}
  /\ \A b \in batch, m \in handled : stamp[m] <= stamp[b] + Lookback
  /\ pc \in {"dispatch", "call"} => \A b \in batch : stamp[b] <= cursor

RingInv ==
  /\ Past(cursor, seen, handled) /\ Past(saved.cursor, saved.seen, kept)
  /\ BatchInv /\ RefiresOnlyPastTheRing

\* RingInv holds at first.
LEMMA RingInit == Init => RingInv
  BY MailAssumption, EmptyRing
  DEF Init, RingInv, Past, BatchInv, RefiresOnlyPastTheRing

\* A ring without repetition holds as many messages as it has places.
LEMMA RingCardinality ==
  ASSUME NEW q \in Seq(Messages), \A i, j \in DOMAIN q : i # j => q[i] # q[j]
  PROVE  IsFiniteSet(Range(q)) /\ Cardinality(Range(q)) = Len(q)
<1>1. Len(q) \in Nat /\ DOMAIN q = 1 .. Len(q)
  OBVIOUS
<1>2. q \in Bijection(1 .. Len(q), Range(q))
  <2>1. q \in [1 .. Len(q) -> Range(q)]
    BY <1>1 DEF Range
  <2>2. \A x \in Range(q) : \E i \in 1 .. Len(q) : q[i] = x
    BY <1>1 DEF Range
  <2>. QED
    BY <1>1, <2>1, <2>2 DEF Bijection, Injection, Surjection, IsInjective
<1>3. IsFiniteSet(1 .. Len(q)) /\ Cardinality(1 .. Len(q)) = Len(q)
  BY <1>1, FS_Interval
<1>. QED
  BY <1>2, <1>3, FS_Bijection DEF ExistsBijection

\* The ring after a dispatch: its places moved down by one if it was full.
LEMMA RingPlaces ==
  ASSUME TypeOK, NEW m \in Messages
  PROVE  \E k \in {0, 1} :
           /\ k = 1 <=> Len(seen) = Ring
           /\ Len(seen) \in Nat /\ Len(MarkSeen(m)) = Len(seen) + 1 - k
           /\ \A i \in 1 .. Len(seen) - k : i + k \in 1 .. Len(seen) /\ MarkSeen(m)[i] = seen[i + k]
           /\ MarkSeen(m)[Len(seen) + 1 - k] = m
<1>1. CASE Len(seen) = Ring
  <2>1. seen \in Seq(Messages) /\ seen # << >> /\ MarkSeen(m) = Append(Tail(seen), m)
    BY <1>1, MailAssumption DEF TypeOK, MarkSeen
  <2>2. /\ Tail(seen) \in Seq(Messages) /\ Len(Tail(seen)) = Len(seen) - 1 /\ Len(seen) \in Nat \ {0}
        /\ \A i \in 1 .. Len(seen) - 1 : Tail(seen)[i] = seen[i + 1]
    BY <2>1
  <2>3. /\ Len(MarkSeen(m)) = Len(seen) /\ MarkSeen(m)[Len(seen)] = m
        /\ \A i \in 1 .. Len(seen) - 1 : MarkSeen(m)[i] = Tail(seen)[i]
    BY <2>1, <2>2
  <2>. QED
    BY <1>1, <2>2, <2>3
<1>2. CASE Len(seen) # Ring
  <2>1. seen \in Seq(Messages) /\ MarkSeen(m) = Append(seen, m)
    BY <1>2 DEF TypeOK, MarkSeen
  <2>2. /\ Len(seen) \in Nat /\ Len(MarkSeen(m)) = Len(seen) + 1 /\ MarkSeen(m)[Len(seen) + 1] = m
        /\ \A i \in 1 .. Len(seen) : MarkSeen(m)[i] = seen[i]
    BY <2>1
  <2>. QED
    BY <1>2, <2>2
<1>. QED
  BY <1>1, <1>2

\* What a dispatch makes of the ring.
LEMMA PastDispatch ==
  ASSUME TypeInv, Past(cursor, seen, handled), BatchInv, NEW m \in Messages, Dispatch(m)
  PROVE  Past(cursor, seen, handled)'
<1> DEFINE q == MarkSeen(m)
<1>1. PICK k \in {0, 1} :
           /\ k = 1 <=> Len(seen) = Ring
           /\ Len(seen) \in Nat /\ Len(q) = Len(seen) + 1 - k
           /\ \A i \in 1 .. Len(seen) - k : i + k \in 1 .. Len(seen) /\ q[i] = seen[i + k]
           /\ q[Len(seen) + 1 - k] = m
  BY RingPlaces DEF TypeInv
<1>2. /\ seen' = q /\ cursor' = cursor /\ stamp' = stamp /\ handled' = handled \cup {m} /\ m \in batch
      /\ pc = "dispatch"
  BY DEF Dispatch, mail
<1>3. /\ q \in Seq(Messages) /\ DOMAIN q = 1 .. Len(q) /\ DOMAIN seen = 1 .. Len(seen)
      /\ m \in Range(q) /\ Range(q) \subseteq Range(seen) \cup {m}
  BY SeenType, SeenRange DEF TypeInv, TypeOK
<1>4. /\ m \notin Range(seen) /\ stamp[m] <= cursor
      /\ \A n \in handled : stamp[n] <= stamp[m] + Lookback
  BY <1>2 DEF BatchInv
<1>5. /\ \A n \in handled : stamp[n] \in Nat /\ n \in Messages
      /\ stamp[m] \in Nat /\ cursor \in Nat /\ Lookback \in Nat /\ Ring \in Nat
  BY MailAssumption DEF TypeInv, TypeOK
<1>6. Range(seen) \subseteq handled /\ \A i \in 1 .. Len(seen) : seen[i] \in Range(seen)
  BY <1>3 DEF Past, Range
<1> HIDE DEF q
<1>11. /\ Len(seen) \in Nat /\ k \in Nat /\ DOMAIN q = 1 .. Len(seen) + 1 - k
       /\ \A i \in DOMAIN q : i \in Nat /\ (i = Len(seen) + 1 - k \/ i \in 1 .. Len(seen) - k)
       /\ \A i \in DOMAIN q : q[i] \in Range(q)
  BY <1>1, <1>3 DEF Range
<1>12. \A i \in 1 .. Len(seen) - k : i + k \in DOMAIN seen /\ q[i] = seen[i + k] /\ q[i] # m
  BY <1>1, <1>3, <1>4, <1>6
<1>7. \A i, j \in DOMAIN q : i # j => q[i] # q[j]
  <2> TAKE i, j \in DOMAIN q
  <2> HAVE i # j
  <2>1. CASE i \in 1 .. Len(seen) - k /\ j \in 1 .. Len(seen) - k
    <3>1. i + k # j + k
      BY <1>11
    <3>2. seen[i + k] # seen[j + k]
      BY <1>12, <2>1, <3>1 DEF Past
    <3>. QED
      BY <1>12, <2>1, <3>2
  <2>2. CASE i = Len(seen) + 1 - k
    BY <1>1, <1>11, <1>12, <2>2
  <2>3. CASE j = Len(seen) + 1 - k
    BY <1>1, <1>11, <1>12, <2>3
  <2>. QED
    BY <1>11, <2>1, <2>2, <2>3
<1>8. \A i, j \in DOMAIN q : i < j => stamp[q[i]] <= stamp[q[j]] + Lookback
  <2> TAKE i, j \in DOMAIN q
  <2> HAVE i < j
  <2>1. i \in 1 .. Len(seen) - k
    BY <1>11
  <2>2. CASE j = Len(seen) + 1 - k
    BY <1>1, <1>4, <1>6, <2>1, <2>2
  <2>3. CASE j \in 1 .. Len(seen) - k
    <3>1. i + k < j + k
      BY <1>11
    <3>2. stamp[seen[i + k]] <= stamp[seen[j + k]] + Lookback
      BY <1>12, <2>1, <2>3, <3>1 DEF Past
    <3>. QED
      BY <1>12, <2>1, <2>3, <3>2
  <2>. QED
    BY <1>11, <2>2, <2>3
<1>9. \A n \in handled' \ Range(q) : Len(q) = Ring /\ \A x \in Range(q) : stamp[n] <= stamp[x] + Lookback
  <2> TAKE n \in handled' \ Range(q)
  <2>1. n \in handled /\ n # m
    BY <1>2, <1>3
  <2>2. CASE n \notin Range(seen)
    <3>1. Len(seen) = Ring /\ \A x \in Range(seen) : stamp[n] <= stamp[x] + Lookback
      BY <2>1, <2>2 DEF Past
    <3>. QED
      BY <1>1, <1>3, <1>4, <2>1, <3>1
  <2>3. CASE n \in Range(seen)
    <3>1. PICK i \in 1 .. Len(seen) : seen[i] = n
      BY <1>3, <2>3 DEF Range
    <3>2. k = 1 /\ i = 1
      <4>1. ~(i - k \in 1 .. Len(seen) - k)
        <5>1. \A j \in 1 .. Len(seen) - k : q[j] \in Range(q)
          BY <1>1, <1>3, <1>11
        <5>2. ASSUME i - k \in 1 .. Len(seen) - k PROVE FALSE
          <6>1. q[i - k] = seen[(i - k) + k] /\ (i - k) + k = i
            BY <1>1, <5>2
          <6>. QED
            BY <3>1, <5>1, <5>2, <6>1
        <5>. QED
          BY <5>2
      <4>. QED
        BY <1>1, <4>1
    <3>3. Len(q) = Ring
      BY <1>1, <3>2
    <3>4. \A j \in 2 .. Len(seen) : stamp[n] <= stamp[seen[j]] + Lookback
      BY <1>3, <3>1, <3>2 DEF Past
    <3>5. ASSUME NEW x \in Range(q) PROVE stamp[n] <= stamp[x] + Lookback
      <4>1. CASE x = m
        BY <1>4, <2>1, <4>1
      <4>2. CASE x # m
        <5>1. PICK j \in 1 .. Len(q) : q[j] = x
          BY <1>3, <3>5 DEF Range
        <5>2. j \in 1 .. Len(seen) - k
          BY <1>1, <4>2, <5>1
        <5>3. j + k \in 2 .. Len(seen) /\ x = seen[j + k]
          BY <1>1, <3>2, <5>1, <5>2
        <5>. QED
          BY <3>4, <5>3
      <4>. QED
        BY <4>1, <4>2
    <3>. QED
      BY <3>3, <3>5
  <2>. QED
    BY <2>2, <2>3
<1>10. Range(q) \subseteq handled' /\ \A n \in handled' : stamp[n] <= cursor
  BY <1>2, <1>3, <1>4, <1>6 DEF Past
<1>. QED
  BY <1>2, <1>7, <1>8, <1>9, <1>10 DEF Past

\* A larger mailbox has no smaller window.
LEMMA WindowGrows ==
  ASSUME TypeInv, NEW m \in Messages, Arrive(m), RefiresOnlyPastTheRing
  PROVE  RefiresOnlyPastTheRing'
<1> DEFINE W(x) == {n \in box \ {x} : stamp[n] <= stamp[x] + Lookback /\ stamp[x] <= stamp[n] + Lookback}
<1> SUFFICES ASSUME NEW x \in refired
             PROVE  Cardinality(W(x)') >= Ring
  BY DEF RefiresOnlyPastTheRing, Arrive
<1>1. x \in box /\ x # m
  BY DEF TypeInv, TypeOK, Arrive
<1>2. W(x) \subseteq W(x)'
  BY <1>1 DEF Arrive, TypeInv, TypeOK
<1>3. IsFiniteSet(box') /\ W(x)' \subseteq box' /\ IsFiniteSet(W(x)')
  <2>1. W(x)' \subseteq box'
    OBVIOUS
  <2>2. IsFiniteSet(box')
    BY TypeArrive DEF TypeInv
  <2> HIDE DEF W
  <2>. QED
    BY <2>1, <2>2, FS_Subset
<1>4. Cardinality(W(x)) >= Ring
  BY DEF RefiresOnlyPastTheRing
<1> HIDE DEF W
<1>5. IsFiniteSet(W(x)) /\ Cardinality(W(x)) <= Cardinality(W(x)')
  BY <1>2, <1>3, FS_Subset
<1>. QED
  BY <1>3, <1>4, <1>5, FS_CardinalityType, MailAssumption

\* A message that is dispatched again has a full ring of others in its window.
LEMMA WindowHoldsRing ==
  ASSUME TypeInv, Past(cursor, seen, handled), BatchInv, NEW m \in batch, m \in handled
  PROVE  Cardinality({n \in box \ {m} : stamp[n] <= stamp[m] + Lookback
                                        /\ stamp[m] <= stamp[n] + Lookback}) >= Ring
<1> DEFINE W == {n \in box \ {m} : stamp[n] <= stamp[m] + Lookback /\ stamp[m] <= stamp[n] + Lookback}
<1>1. m \notin Range(seen) /\ Len(seen) = Ring
  BY DEF BatchInv, Past
<1>2. Range(seen) \subseteq W
  <2>1. Range(seen) \subseteq handled /\ handled \subseteq box
    BY DEF Past, TypeInv, TypeOK
  <2>. QED
    BY <1>1, <2>1 DEF Past, BatchInv
<1>3. IsFiniteSet(W)
  <2>1. W \subseteq box /\ IsFiniteSet(box)
    BY DEF TypeInv
  <2> HIDE DEF W
  <2>. QED
    BY <2>1, FS_Subset
<1>4. Cardinality(Range(seen)) = Ring
  BY <1>1, RingCardinality DEF TypeInv, TypeOK, Past
<1> HIDE DEF W
<1>5. Cardinality(Range(seen)) <= Cardinality(W)
  BY <1>2, <1>3, FS_Subset
<1>6. Cardinality(W) >= Ring
  BY <1>3, <1>4, <1>5, FS_CardinalityType, MailAssumption
<1>. QED
  BY <1>6 DEF W

\* Every step keeps RefiresOnlyPastTheRing.
LEMMA RefireStep ==
  ASSUME TypeInv, RingInv, [Next]_vars
  PROVE  RefiresOnlyPastTheRing'
<1>1. ASSUME NEW m \in Messages, Arrive(m) PROVE RefiresOnlyPastTheRing'
  BY <1>1, WindowGrows DEF RingInv
<1>2. ASSUME NEW m \in Messages, Dispatch(m) PROVE RefiresOnlyPastTheRing'
  <2>1. UNCHANGED <<box, stamp>> /\ m \in batch /\ (refired' = refired \/ (m \in handled /\ refired' = refired \cup {m}))
    BY <1>2 DEF Dispatch, mail
  <2>2. m \in handled =>
           Cardinality({n \in box \ {m} : stamp[n] <= stamp[m] + Lookback
                                         /\ stamp[m] <= stamp[n] + Lookback}) >= Ring
    BY <2>1, WindowHoldsRing DEF RingInv
  <2>3. RefiresOnlyPastTheRing
    BY DEF RingInv
  <2>. QED
    BY <2>1, <2>2, <2>3 DEF RefiresOnlyPastTheRing
<1>3. ASSUME UNCHANGED <<box, stamp, refired>> PROVE RefiresOnlyPastTheRing'
  BY <1>3 DEF RefiresOnlyPastTheRing, RingInv
<1>4. \/ \E m \in Messages : Arrive(m) \/ Dispatch(m)
      \/ UNCHANGED <<box, stamp, refired>>
  BY DEF Next, LoopStep, vars, mail, history, Tick, Start, Resume, StepOver, List, Fetch, Called, EndBatch, Wake,
         PollFails, CallFails, Stop, Halt, Exit, Crash, Forget, Frozen
<1>. QED
  BY <1>1, <1>2, <1>3, <1>4

\* Mail that arrives changes no stamp a position is about.
LEMMA PastArrive ==
  ASSUME TypeInv, NEW m \in Messages, Arrive(m), NEW c \in Nat, NEW q \in Seq(Messages), NEW h \in SUBSET box,
         Past(c, q, h), c' = c, q' = q, h' = h
  PROVE  Past(c, q, h)'
<1>1. \A x \in h : stamp'[x] = stamp[x]
  BY DEF Arrive, TypeInv, TypeOK
<1>2. Range(q) \subseteq h /\ \A i \in DOMAIN q : q[i] \in Range(q)
  BY DEF Past, Range
<1>. QED
  BY <1>1, <1>2 DEF Past

\* Neither does a step that leaves the stamps alone and moves the cursor on.
LEMMA PastStays ==
  ASSUME TypeInv, Past(cursor, seen, handled), UNCHANGED <<stamp, seen, handled>>,
         cursor' \in Nat, cursor <= cursor'
  PROVE  Past(cursor, seen, handled)'
<1>1. \A x \in handled : stamp[x] \in Nat
  BY DEF TypeInv, TypeOK
<1>2. cursor \in Nat
  BY DEF TypeInv, TypeOK
<1>. QED
  BY <1>1, <1>2 DEF Past

\* A process that ends knows nothing.
LEMMA PastEmpty ==
  ASSUME seen' = << >>, handled' = {}
  PROVE  Past(cursor, seen, handled)'
  BY EmptyRing DEF Past

\* Every step leaves what was handled behind the position in memory.
LEMMA PositionStep ==
  ASSUME TypeInv, PlaceInv, RingInv, [Next]_vars
  PROVE  Past(cursor, seen, handled)'
<1> USE DEF TypeInv, RingInv, PlaceInv
<1>0. Past(cursor, seen, handled) /\ cursor \in Nat
  BY DEF TypeOK
<1>1. ASSUME NEW m \in Messages, Arrive(m) PROVE Past(cursor, seen, handled)'
  <2>1. UNCHANGED <<cursor, seen, handled>> /\ seen \in Seq(Messages) /\ handled \in SUBSET box
    BY <1>1 DEF Arrive, trigger, TypeOK
  <2>. QED
    BY <1>0, <1>1, <2>1, PastArrive
<1>2. CASE Fetch
  <2>1. UNCHANGED <<stamp, seen, handled>> /\ cursor' \in Nat /\ cursor <= cursor'
    BY <1>2, AdvancedMax, MailAssumption DEF Fetch, mail, history, TypeOK
  <2>. QED
    BY <1>0, <2>1, PastStays
<1>3. ASSUME NEW m \in Messages, Dispatch(m) PROVE Past(cursor, seen, handled)'
  BY <1>3, PastDispatch
<1>4. CASE Start
  <2>1. CASE UNCHANGED stamp /\ cursor' = saved.cursor /\ seen' = saved.seen /\ handled' = kept
    BY <2>1 DEF Past
  <2>2. CASE seen' = << >> /\ handled' = {}
    BY <2>2, PastEmpty
  <2>. QED
    BY <1>4, <2>1, <2>2 DEF Start, Resume, mail
<1>5. CASE Exit \/ Crash
  BY <1>5, PastEmpty DEF Exit, Crash, Forget
<1>6. ASSUME UNCHANGED <<stamp, cursor, seen, handled>> PROVE Past(cursor, seen, handled)'
  BY <1>0, <1>6, PastStays
<1>7. \/ Exit \/ Crash \/ Start \/ Fetch
      \/ \E m \in Messages : Arrive(m) \/ Dispatch(m)
      \/ UNCHANGED <<stamp, cursor, seen, handled>>
  BY DEF Next, LoopStep, vars, mail, history, trigger, Tick, List, Called, EndBatch, Wake,
         PollFails, CallFails, Stop, Halt, Frozen
<1>. QED
  BY <1>1, <1>2, <1>3, <1>4, <1>5, <1>6, <1>7

\* Every step leaves what was kept behind the stored position.
LEMMA StoredStep ==
  ASSUME TypeInv, RingInv, [Next]_vars
  PROVE  Past(saved.cursor, saved.seen, kept)'
<1> USE DEF TypeInv, RingInv
<1>1. ASSUME NEW m \in Messages, Arrive(m) PROVE Past(saved.cursor, saved.seen, kept)'
  <2>1. /\ UNCHANGED <<saved, kept>> /\ saved.seen \in Seq(Messages) /\ kept \in SUBSET box /\ saved.cursor \in Nat
    BY <1>1 DEF Arrive, TypeOK, StoredType
  <2>2. Past(saved.cursor, saved.seen, kept)
    OBVIOUS
  <2>. QED
    BY <1>1, <2>1, <2>2, PastArrive
<1>2. CASE EndBatch
  BY <1>2 DEF EndBatch, mail, Past
<1>3. ASSUME UNCHANGED <<stamp, saved, kept>> PROVE Past(saved.cursor, saved.seen, kept)'
  BY <1>3 DEF Past
<1>4. \/ EndBatch \/ \E m \in Messages : Arrive(m)
      \/ UNCHANGED <<stamp, saved, kept>>
  BY DEF Next, LoopStep, vars, mail, history, Tick, Start, Resume, List, Fetch, Called, Wake, Dispatch,
         PollFails, CallFails, Stop, Halt, Frozen, Exit, Crash, Forget
<1>. QED
  BY <1>1, <1>2, <1>3, <1>4

\* Every step keeps BatchInv.
LEMMA BatchStep ==
  ASSUME TypeInv, PlaceInv, RingInv, [Next]_vars
  PROVE  BatchInv'
<1> USE MailAssumption DEF TypeInv, TypeOK, RingInv, PlaceInv, BatchInv, mail, trigger, history, bounds
<1>1. ASSUME NEW m \in Messages, Arrive(m) PROVE BatchInv'
  BY <1>1 DEF Arrive
<1>2. CASE Tick
  BY <1>2 DEF Tick
<1>3. CASE Start
  BY <1>3 DEF Start, Resume, StepOver
<1>4. CASE List
  BY <1>4 DEF List, OldestOf, Listed, Past
<1>5. CASE Fetch
  BY <1>5, AdvancedMax DEF Fetch
<1>6. ASSUME NEW m \in Messages, Dispatch(m) PROVE BatchInv'
  BY <1>6, SeenRange DEF Dispatch
<1>7. CASE Called
  BY <1>7 DEF Called
<1>8. CASE EndBatch
  BY <1>8 DEF EndBatch
<1>9. CASE Wake
  BY <1>9 DEF Wake
<1>10. CASE PollFails
  BY <1>10 DEF PollFails
<1>11. CASE CallFails
  BY <1>11 DEF CallFails
<1>12. CASE Stop
  BY <1>12 DEF Stop, Frozen
<1>13. CASE Halt
  BY <1>13 DEF Halt, Frozen
<1>14. CASE Exit
  BY <1>14 DEF Exit, Forget, Frozen
<1>15. CASE Crash
  BY <1>15 DEF Crash, Forget, Frozen
<1>16. CASE UNCHANGED vars
  BY <1>16 DEF vars
<1>. QED
  BY <1>1, <1>2, <1>3, <1>4, <1>5, <1>6, <1>7, <1>8, <1>9, <1>10, <1>11, <1>12, <1>13, <1>14, <1>15, <1>16 DEF Next, LoopStep

\* "The window must hold fewer messages than the ring" (gmail_poll.py): a
\* message is dispatched a second time, by the process that handled it or by
\* one that loaded the row it wrote, only if the ring was full of others within
\* the look-back of it.
THEOREM RefiresArePastTheRing == Spec => []RefiresOnlyPastTheRing
<1>1. Init => TypeInv /\ PlaceInv /\ RingInv
  BY TypeInit, StepInit, RingInit DEF StepInv
<1>2. TypeInv /\ PlaceInv /\ RingInv /\ [Next]_vars => (TypeInv /\ PlaceInv /\ RingInv)'
  BY TypeStep, PlaceStep, PositionStep, StoredStep, BatchStep, RefireStep DEF RingInv
<1>3. RingInv => RefiresOnlyPastTheRing
  BY DEF RingInv
<1>. QED
  BY <1>1, <1>2, <1>3, PTL DEF Spec
==============================================================================
