---------------------------- MODULE ShadowProofs ----------------------------
(***************************************************************************)
(* Theorems about ShadowStore, for any number of runs, keys, recipients    *)
(* and slots.                                                              *)
(*                                                                         *)
(* The row locks appear in the invariant as what they exclude: KeyInv (two *)
(* creates of one key), SweepInv (two sweeps of one question) and SlotInv  *)
(* (two transactions at one counter).  From these and the true counter,    *)
(* the commit of a create is a Create of the store and the commit of a     *)
(* sweep an Expire; every other step changes nothing the store shows.      *)
(***************************************************************************)
EXTENDS ShadowStore, FiniteSetTheorems, TLAPS

Creating == {"seed", "take", "record"}

\* A create past its asked row is alone with its key, and the key is new.
KeyInv ==
  /\ \A w \in Runs : run[w].pc \in Creating => run[w].ask.key \notin asked
  /\ \A v, w \in Runs : v # w /\ run[v].pc \in Creating /\ run[w].pc \in Creating =>
       run[v].ask.key # run[w].ask.key

\* A sweep past its UPDATE is alone with the questions it took, all pending.
SweepInv ==
  /\ \A w \in Runs : At(w, "release") =>
       run[w].freed \subseteq run[w].taken /\ \A k \in run[w].taken : Pending(k)
  /\ \A v, w \in Runs : v # w /\ At(v, "release") /\ At(w, "release") =>
       run[v].taken \cap run[w].taken = {}

\* One transaction at a time is at a counter; who took a slot saw one left.
SlotInv ==
  /\ \A v, w \in Runs : \A r \in Recipients :
       v # w => ~(LocksCapacity(v, r) /\ LocksCapacity(w, r))
  /\ \A w \in Runs : At(w, "record") => capacity[run[w].ask.to] < run[w].ask.cap

-----------------------------------------------------------------------------
(* Types.                                                                  *)

\* Where a run is tells what it holds.
LEMMA LocalFacts ==
  ASSUME TypeOK, NEW w \in Runs
  PROVE  /\ ~At(w, "idle") => /\ run[w].ask \in Asks /\ run[w].ask.key \in Keys
                              /\ run[w].ask.to \in Recipients /\ run[w].ask.cap \in Nat
         /\ At(w, "lock") => run[w].seen \subseteq Keys
         /\ At(w, "release") => run[w].taken \subseteq Keys /\ run[w].freed \subseteq Keys
BY AsksAssumption DEF TypeOK, Sweeping, Asking, Idle, At

\* A step of one run leaves the others where they are.
LEMMA BecomeFacts ==
  ASSUME TypeOK, NEW w \in Runs, NEW local, Become(w, local)
  PROVE  run'[w] = local /\ \A v \in Others(w) : run'[v] = run[v]
BY DEF TypeOK, Become, Others

\* A pending question has a recipient.
LEMMA PendingFacts ==
  ASSUME TypeOK, NEW k \in Keys, Pending(k)
  PROVE  questions[k] \in Question /\ questions[k].to \in Recipients
BY DEF TypeOK, Pending, Question, None

\* What a step of a run may leave it with keeps its type.
LEMMA BecomeTyped ==
  ASSUME TypeOK, NEW w \in Runs, NEW local \in {Idle} \cup Sweeping \cup Asking, Become(w, local)
  PROVE  run' \in [Runs -> {Idle} \cup Sweeping \cup Asking]
BY DEF TypeOK, Become


\* Each step keeps the types, given that sweeps hold pending questions.
LEMMA TypeStep ==
  ASSUME TypeOK, SweepInv, [Next]_vars
  PROVE  TypeOK'
<1>1. ASSUME NEW w \in Runs, Begin(w) PROVE TypeOK'
  <2>1. PICK a \in Asks : Become(w, [pc |-> "sweep", ask |-> a])
    BY <1>1 DEF Begin
  <2>2. [pc |-> "sweep", ask |-> a] \in Asking
    BY DEF Asking
  <2>. QED
    BY <1>1, <2>1, <2>2, BecomeTyped DEF TypeOK, Begin
<1>2. ASSUME NEW w \in Runs, SweepRead(w) PROVE TypeOK'
  <2>1. [pc |-> "lock", ask |-> run[w].ask, seen |-> {k \in due : Pending(k)}] \in Sweeping
    BY <1>2, LocalFacts DEF SweepRead, At, Sweeping, TypeOK
  <2>. QED
    BY <1>2, <2>1, BecomeTyped DEF TypeOK, SweepRead
<1>3. ASSUME NEW w \in Runs, SweepLock(w) PROVE TypeOK'
  <2>1. [pc |-> "release", ask |-> run[w].ask, taken |-> SweepTakes(w), freed |-> {}] \in Sweeping
    BY <1>3, LocalFacts DEF SweepLock, At, Sweeping, SweepTakes
  <2>. QED
    BY <1>3, <2>1, BecomeTyped DEF TypeOK, SweepLock
<1>4. ASSUME NEW w \in Runs, Release(w) PROVE TypeOK'
  <2>1. PICK k \in run[w].taken \ run[w].freed :
          Become(w, [pc |-> "release", ask |-> run[w].ask, taken |-> run[w].taken,
                     freed |-> run[w].freed \cup {k}])
    BY <1>4 DEF Release
  <2>2. [pc |-> "release", ask |-> run[w].ask, taken |-> run[w].taken,
         freed |-> run[w].freed \cup {k}] \in Sweeping
    BY <1>4, LocalFacts DEF Release, At, Sweeping
  <2>. QED
    BY <1>4, <2>1, <2>2, BecomeTyped DEF TypeOK, Release
<1>5. ASSUME NEW w \in Runs, SweepCommit(w) PROVE TypeOK'
  <2>1. [pc |-> "ask", ask |-> run[w].ask] \in Asking
    BY <1>5, LocalFacts DEF SweepCommit, At, Asking
  <2>2. capacity' \in [Recipients -> Nat]
    <3> SUFFICES ASSUME NEW r \in Recipients
                 PROVE  Less(capacity[r], Cardinality({k \in run[w].taken : questions[k].to = r})) \in Nat
      BY <1>5 DEF SweepCommit
    <3> DEFINE S == {k \in run[w].taken : questions[k].to = r}
    <3>1. S \in SUBSET Keys
      BY <1>5, LocalFacts DEF SweepCommit
    <3>2. Cardinality(S) \in Nat
      BY <3>1, AsksAssumption, FS_Subset, FS_CardinalityType
    <3>. QED
      BY <3>2 DEF Less, TypeOK
  <2>3. questions' \in [Keys -> Question \cup {None}]
    <3>1. \A k \in Keys : k \in run[w].taken => questions[k] \in Question
      BY <1>5, PendingFacts DEF SweepInv, SweepCommit
    <3>. QED
      BY <1>5, <3>1 DEF SweepCommit, Expired, TypeOK, Question
  <2>. QED
    BY <1>5, <2>1, <2>2, <2>3, BecomeTyped DEF TypeOK, SweepCommit, GoOn
<1>6. ASSUME NEW w \in Runs, InsertAsked(w) \/ SeedCapacity(w) \/ TakeSlot(w) \/ Refuse(w) \/ Fails(w)
      PROVE  TypeOK'
  <2>1. ~At(w, "idle")
    BY <1>6 DEF InsertAsked, SeedCapacity, TakeSlot, Refuse, Fails, At
  <2>2. \A pc \in {"seed", "take", "record"} : [pc |-> pc, ask |-> run[w].ask] \in Asking
    BY <2>1, LocalFacts DEF Asking
  <2>3. PICK local \in {Idle} \cup Asking : Become(w, local)
    BY <1>6, <2>2 DEF InsertAsked, SeedCapacity, TakeSlot, Refuse, Fails, GoOn
  <2>. QED
    BY <1>6, <2>3, BecomeTyped DEF TypeOK, InsertAsked, SeedCapacity, TakeSlot, Refuse, Fails
<1>7. ASSUME NEW w \in Runs, Record(w) PROVE TypeOK'
  <2>1. /\ run[w].ask.key \in Keys /\ run[w].ask.to \in Recipients
    BY <1>7, LocalFacts DEF Record, At
  <2>2. [status |-> "pending", to |-> run[w].ask.to] \in Question
    BY <2>1 DEF Question
  <2>. QED
    BY <1>7, <2>1, <2>2, BecomeTyped DEF TypeOK, Record
<1>8. ASSUME Lapse PROVE TypeOK'
  BY <1>8 DEF Lapse, TypeOK
<1>9. CASE UNCHANGED vars
  BY <1>9 DEF vars, TypeOK
<1>. QED
  BY <1>1, <1>2, <1>3, <1>4, <1>5, <1>6, <1>7, <1>8, <1>9 DEF Next, Sweep, Ask

-----------------------------------------------------------------------------
(* Sweeps.                                                                 *)

\* What a step keeps of the sweeps it is no part of: a step of run w that
\* leaves it outside its release, and leaves pending what others have taken.
LEMMA SweepFrame ==
  ASSUME TypeOK, SweepInv, NEW w \in Runs, \A v \in Others(w) : run'[v] = run[v],
         ~At(w, "release")',
         \A v \in Others(w) : At(v, "release") => \A k \in run[v].taken : Pending(k)'
  PROVE  SweepInv'
BY DEF SweepInv, Others, At

\* Every step keeps SweepInv.
LEMMA SweepStep ==
  ASSUME TypeOK, SweepInv, [Next]_vars
  PROVE  SweepInv'
<1>1. ASSUME NEW w \in Runs,
             Begin(w) \/ SweepRead(w) \/ InsertAsked(w) \/ SeedCapacity(w) \/ TakeSlot(w) \/ Refuse(w) \/ Fails(w)
      PROVE  SweepInv'
  <2>1. PICK local : Become(w, local) /\ local.pc # "release"
    <3>1. CASE \E a \in Asks : Become(w, [pc |-> "sweep", ask |-> a])
      BY <3>1
    <3>2. CASE SweepRead(w)
      BY <3>2 DEF SweepRead
    <3>3. CASE Become(w, Idle)
      BY <3>3 DEF Idle
    <3>4. CASE \E pc \in {"seed", "take", "record"} : GoOn(w, pc)
      BY <3>4 DEF GoOn
    <3>. QED
      BY <1>1, <3>1, <3>2, <3>3, <3>4 DEF Begin, InsertAsked, SeedCapacity, TakeSlot, Refuse, Fails
  <2>2. questions' = questions
    BY <1>1 DEF Begin, SweepRead, InsertAsked, SeedCapacity, TakeSlot, Refuse, Fails
  <2>3. ~At(w, "release")'
    BY <2>1, BecomeFacts DEF At
  <2>4. \A v \in Others(w) : run'[v] = run[v]
    BY <2>1, BecomeFacts
  <2>. QED
    BY <2>2, <2>3, <2>4, SweepFrame DEF SweepInv, Others, Pending
<1>2. ASSUME NEW w \in Runs, SweepLock(w) PROVE SweepInv'
  <2>1. /\ run'[w] = [pc |-> "release", ask |-> run[w].ask, taken |-> SweepTakes(w), freed |-> {}]
        /\ \A v \in Others(w) : run'[v] = run[v]
    BY <1>2, BecomeFacts DEF SweepLock
  <2>2. \A k \in SweepTakes(w) : Pending(k)
    BY DEF SweepTakes
  <2>3. \A v \in Others(w) : At(v, "release") => run[v].taken \cap SweepTakes(w) = {}
    BY <1>2 DEF SweepLock, Contested, SweepTakes
  <2>4. questions' = questions
    BY <1>2 DEF SweepLock
  <2>. QED
    BY <2>1, <2>2, <2>3, <2>4 DEF SweepInv, Others, At, Pending
<1>3. ASSUME NEW w \in Runs, Release(w) PROVE SweepInv'
  <2>1. PICK k \in run[w].taken \ run[w].freed :
          Become(w, [pc |-> "release", ask |-> run[w].ask, taken |-> run[w].taken,
                     freed |-> run[w].freed \cup {k}])
    BY <1>3 DEF Release
  <2>2. /\ run'[w] = [pc |-> "release", ask |-> run[w].ask, taken |-> run[w].taken,
                      freed |-> run[w].freed \cup {k}]
        /\ \A v \in Others(w) : run'[v] = run[v]
    BY <2>1, BecomeFacts
  <2>3. At(w, "release") /\ questions' = questions
    BY <1>3 DEF Release
  <2>. QED
    BY <2>1, <2>2, <2>3 DEF SweepInv, Others, At, Pending
<1>4. ASSUME NEW w \in Runs, SweepCommit(w) PROVE SweepInv'
  <2>1. ~At(w, "release")' /\ \A v \in Others(w) : run'[v] = run[v]
    BY <1>4, BecomeFacts DEF SweepCommit, GoOn, At
  <2>2. ASSUME NEW v \in Others(w), At(v, "release"), NEW k \in run[v].taken
        PROVE  Pending(k)'
    <3>1. k \notin run[w].taken /\ Pending(k) /\ k \in Keys
      BY <1>4, <2>2, LocalFacts DEF SweepCommit, SweepInv, Others
    <3>. QED
      BY <1>4, <3>1 DEF SweepCommit, Expired, Pending
  <2>. QED
    BY <2>1, <2>2, SweepFrame
<1>5. ASSUME NEW w \in Runs, Record(w) PROVE SweepInv'
  <2>1. ~At(w, "release")' /\ \A v \in Others(w) : run'[v] = run[v]
    BY <1>5, BecomeFacts DEF Record, Idle, At
  <2>2. \A k \in Keys : Pending(k) => Pending(k)'
    BY <1>5 DEF Record, Pending, TypeOK
  <2>. QED
    BY <2>1, <2>2, SweepFrame, LocalFacts DEF SweepInv, Others
<1>6. ASSUME Lapse PROVE SweepInv'
  BY <1>6 DEF Lapse, SweepInv, At, Pending
<1>7. CASE UNCHANGED vars
  BY <1>7 DEF vars, SweepInv, At, Pending
<1>. QED
  BY <1>1, <1>2, <1>3, <1>4, <1>5, <1>6, <1>7 DEF Next, Sweep, Ask

\* The types and SweepInv hold of every execution.
LEMMA SweepsHold == Spec => [](TypeOK /\ SweepInv)
<1>1. Init => TypeOK /\ SweepInv
  BY DEF Init, StoreInit, TypeOK, SweepInv, Idle, At
<1>2. TypeOK /\ SweepInv /\ [Next]_vars => (TypeOK /\ SweepInv)'
  BY TypeStep, SweepStep
<1>. QED
  BY <1>1, <1>2, PTL DEF Spec

\* The committed rows and the runs keep their types.
THEOREM TypeCorrect == Spec => []TypeOK
<1>1. TypeOK /\ SweepInv => TypeOK
  OBVIOUS
<1>. QED
  BY <1>1, SweepsHold, PTL

-----------------------------------------------------------------------------
(* Keys.                                                                   *)

\* Every step keeps KeyInv.
LEMMA KeyStep ==
  ASSUME TypeOK, KeyInv, [Next]_vars
  PROVE  KeyInv'
<1>1. ASSUME NEW w \in Runs, run'[w].pc \notin Creating, asked' = asked,
             \A v \in Others(w) : run'[v] = run[v]
      PROVE  KeyInv'
  BY <1>1 DEF KeyInv, Others
<1>2. ASSUME NEW w \in Runs, Begin(w) PROVE KeyInv'
  BY <1>1, <1>2, BecomeFacts DEF Begin, Creating
<1>3. ASSUME NEW w \in Runs, SweepRead(w) PROVE KeyInv'
  BY <1>1, <1>3, BecomeFacts DEF SweepRead, Creating
<1>4. ASSUME NEW w \in Runs, SweepLock(w) PROVE KeyInv'
  BY <1>1, <1>4, BecomeFacts DEF SweepLock, Creating
<1>5. ASSUME NEW w \in Runs, Release(w) PROVE KeyInv'
  BY <1>1, <1>5, BecomeFacts DEF Release, Creating
<1>6. ASSUME NEW w \in Runs, SweepCommit(w) PROVE KeyInv'
  BY <1>1, <1>6, BecomeFacts DEF SweepCommit, GoOn, Creating
<1>7. ASSUME NEW w \in Runs, Refuse(w) \/ Fails(w) PROVE KeyInv'
  BY <1>1, <1>7, BecomeFacts DEF Refuse, Fails, Idle, Creating
<1>8. ASSUME NEW w \in Runs, InsertAsked(w) PROVE KeyInv'
  <2>1. CASE run[w].ask.key \in asked
    BY <1>1, <1>8, <2>1, BecomeFacts DEF InsertAsked, Idle, Creating
  <2>2. CASE run[w].ask.key \notin asked
    <3>1. /\ run'[w] = [pc |-> "seed", ask |-> run[w].ask]
          /\ \A v \in Others(w) : run'[v] = run[v]
      BY <1>8, <2>2, BecomeFacts DEF InsertAsked, GoOn
    <3>2. \A v \in Others(w) : run[v].pc \in Creating => run[v].ask.key # run[w].ask.key
      BY <1>8 DEF InsertAsked, LocksKey, Creating
    <3>3. asked' = asked
      BY <1>8 DEF InsertAsked
    <3>. QED
      BY <2>2, <3>1, <3>2, <3>3 DEF KeyInv, Others
  <2>. QED
    BY <2>1, <2>2
<1>9. ASSUME NEW w \in Runs, SeedCapacity(w) \/ TakeSlot(w) PROVE KeyInv'
  <2>1. run[w].pc \in Creating /\ asked' = asked
    BY <1>9 DEF SeedCapacity, TakeSlot, At, Creating
  <2>2. run'[w].ask = run[w].ask /\ \A v \in Others(w) : run'[v] = run[v]
    BY <1>9, BecomeFacts DEF SeedCapacity, TakeSlot, GoOn
  <2>. QED
    BY <2>1, <2>2 DEF KeyInv, Others
<1>10. ASSUME NEW w \in Runs, Record(w) PROVE KeyInv'
  <2>1. run[w].pc \in Creating /\ asked' = asked \cup {run[w].ask.key}
    BY <1>10 DEF Record, At, Creating
  <2>2. run'[w].pc \notin Creating /\ \A v \in Others(w) : run'[v] = run[v]
    BY <1>10, BecomeFacts DEF Record, Idle, Creating
  <2>. QED
    BY <2>1, <2>2 DEF KeyInv, Others
<1>11. ASSUME Lapse PROVE KeyInv'
  BY <1>11 DEF Lapse, KeyInv
<1>12. CASE UNCHANGED vars
  BY <1>12 DEF vars, KeyInv
<1>. QED
  BY <1>2, <1>3, <1>4, <1>5, <1>6, <1>7, <1>8, <1>9, <1>10, <1>11, <1>12 DEF Next, Sweep, Ask

\* Every step keeps AskedIsOnRecord.
LEMMA AskedStep ==
  ASSUME TypeOK, SweepInv, AskedIsOnRecord, [Next]_vars
  PROVE  AskedIsOnRecord'
<1>1. ASSUME UNCHANGED <<asked, questions>> PROVE AskedIsOnRecord'
  BY <1>1 DEF AskedIsOnRecord
<1>2. ASSUME NEW w \in Runs, SweepCommit(w) PROVE AskedIsOnRecord'
  <2>1. \A k \in run[w].taken : questions[k] # None
    BY <1>2 DEF SweepCommit, SweepInv, Pending, None
  <2>2. \A k \in Keys : questions'[k] # None <=> questions[k] # None
    BY <1>2, <2>1 DEF SweepCommit, Expired, None
  <2>. QED
    BY <1>2, <2>2 DEF SweepCommit, AskedIsOnRecord
<1>3. ASSUME NEW w \in Runs, Record(w) PROVE AskedIsOnRecord'
  <2>1. run[w].ask.key \in Keys
    BY <1>3, LocalFacts DEF Record, At
  <2>2. [status |-> "pending", to |-> run[w].ask.to] # None
    BY DEF None
  <2>. QED
    BY <1>3, <2>1, <2>2 DEF Record, AskedIsOnRecord, TypeOK
<1>4. ASSUME NEW w \in Runs, ~SweepCommit(w), ~Record(w), Begin(w) \/ Sweep(w) \/ Ask(w) \/ Fails(w)
      PROVE  UNCHANGED <<asked, questions>>
  BY <1>4 DEF Begin, Sweep, SweepRead, SweepLock, Release, Ask, InsertAsked, SeedCapacity, TakeSlot,
              Refuse, Fails
<1>5. Lapse \/ UNCHANGED vars => UNCHANGED <<asked, questions>>
  BY DEF Lapse, vars
<1>. QED
  BY <1>1, <1>2, <1>3, <1>4, <1>5 DEF Next

-----------------------------------------------------------------------------
(* Counters.                                                               *)

\* The key of a create is that of no question yet.
LEMMA FreshKey ==
  ASSUME TypeOK, KeyInv, AskedIsOnRecord, NEW w \in Runs, At(w, "record")
  PROVE  questions[run[w].ask.key] = None
BY LocalFacts DEF KeyInv, AskedIsOnRecord, Creating, At

\* A step of one run takes no counter's lock for another.
LEMMA LockFrame ==
  ASSUME TypeOK, SweepInv, NEW v \in Runs, run'[v] = run[v], seeded \subseteq seeded',
         \A k \in Keys : Pending(k) => questions'[k].to = questions[k].to,
         NEW r \in Recipients, LocksCapacity(v, r)'
  PROVE  LocksCapacity(v, r)
<1>1. At(v, "release") => \A k \in run[v].freed : questions'[k].to = questions[k].to
  BY LocalFacts DEF SweepInv
<1>. QED
  BY <1>1 DEF LocksCapacity, At

\* A step after which run w holds no counter keeps them apart.
LEMMA SlotFrame ==
  ASSUME TypeOK, SweepInv, SlotInv, NEW w \in Runs, \A v \in Others(w) : run'[v] = run[v],
         seeded \subseteq seeded', \A k \in Keys : Pending(k) => questions'[k].to = questions[k].to,
         \A r \in Recipients : ~LocksCapacity(w, r)', ~At(w, "record")',
         \A v \in Others(w) : At(v, "record") => capacity'[run[v].ask.to] <= capacity[run[v].ask.to],
         TypeOK'
  PROVE  SlotInv'
<1>1. ASSUME NEW v \in Runs, NEW u \in Runs, NEW r \in Recipients, v # u
      PROVE  ~(LocksCapacity(v, r)' /\ LocksCapacity(u, r)')
  BY <1>1, LockFrame DEF SlotInv, Others
<1>2. ASSUME NEW v \in Runs, At(v, "record")' PROVE (capacity[run[v].ask.to] < run[v].ask.cap)'
  <2>1. v \in Others(w) /\ run'[v] = run[v] /\ At(v, "record")
    BY <1>2 DEF Others, At
  <2>2. /\ capacity[run[v].ask.to] < run[v].ask.cap
        /\ capacity'[run[v].ask.to] <= capacity[run[v].ask.to]
    BY <2>1 DEF SlotInv
  <2>3. /\ run[v].ask.cap \in Nat /\ run[v].ask.to \in Recipients
    BY <2>1, LocalFacts DEF At
  <2>. QED
    BY <2>1, <2>2, <2>3 DEF TypeOK
<1>. QED
  BY <1>1, <1>2 DEF SlotInv

\* Every step keeps SlotInv.
LEMMA SlotStep ==
  ASSUME TypeOK, SweepInv, KeyInv, AskedIsOnRecord, SlotInv, [Next]_vars, TypeOK'
  PROVE  SlotInv'
<1>1. ASSUME NEW w \in Runs, NEW local, Become(w, local), local.pc \in {"idle", "sweep", "lock", "seed"},
             UNCHANGED <<questions, seeded, capacity>>
      PROVE  SlotInv'
  <2>1. run'[w].pc \in {"idle", "sweep", "lock", "seed"} /\ \A v \in Others(w) : run'[v] = run[v]
    BY <1>1, BecomeFacts
  <2>2. ~At(w, "record")' /\ \A r \in Recipients : ~LocksCapacity(w, r)'
    BY <2>1 DEF LocksCapacity, At
  <2>3. \A v \in Others(w) : At(v, "record") => capacity'[run[v].ask.to] <= capacity[run[v].ask.to]
    BY <1>1, LocalFacts DEF Others, At, TypeOK
  <2>. QED
    BY <1>1, <2>1, <2>2, <2>3, SlotFrame
<1>2. ASSUME NEW w \in Runs, Begin(w) PROVE SlotInv'
  BY <1>1, <1>2 DEF Begin
<1>3. ASSUME NEW w \in Runs, SweepRead(w) PROVE SlotInv'
  BY <1>1, <1>3 DEF SweepRead
<1>4. ASSUME NEW w \in Runs, Refuse(w) \/ Fails(w) PROVE SlotInv'
  BY <1>1, <1>4 DEF Refuse, Fails, Idle
<1>5. ASSUME NEW w \in Runs, InsertAsked(w) PROVE SlotInv'
  BY <1>1, <1>5 DEF InsertAsked, GoOn, Idle
<1>6. ASSUME NEW w \in Runs, SweepLock(w) PROVE SlotInv'
  <2>1. /\ run'[w].pc = "release" /\ run'[w].freed = {}
        /\ \A v \in Others(w) : run'[v] = run[v]
    BY <1>6, BecomeFacts DEF SweepLock
  <2>2. ~At(w, "record")' /\ \A r \in Recipients : ~LocksCapacity(w, r)'
    BY <2>1 DEF LocksCapacity, At
  <2>3. \A v \in Others(w) : At(v, "record") => capacity'[run[v].ask.to] <= capacity[run[v].ask.to]
    BY <1>6, LocalFacts DEF SweepLock, Others, At, TypeOK
  <2>4. UNCHANGED <<questions, seeded>>
    BY <1>6 DEF SweepLock
  <2>. QED
    BY <2>1, <2>2, <2>3, <2>4, SlotFrame
<1>7. ASSUME NEW w \in Runs, NEW r \in Recipients, CapacityFree(w, r),
             UNCHANGED <<questions, seeded, capacity>>, \A v \in Others(w) : run'[v] = run[v],
             \A q \in Recipients : LocksCapacity(w, q)' => q = r \/ LocksCapacity(w, q),
             At(w, "record")' => capacity[run'[w].ask.to] < run'[w].ask.cap
      PROVE  SlotInv'
  <2>1. ASSUME NEW v \in Others(w), NEW q \in Recipients
        PROVE  ~(LocksCapacity(v, q)' /\ LocksCapacity(w, q)')
    <3>1. LocksCapacity(v, q)' => LocksCapacity(v, q)
      BY <1>7, LockFrame DEF Others
    <3>. QED
      BY <1>7, <3>1 DEF SlotInv, CapacityFree, Others
  <2>2. ASSUME NEW v \in Others(w), NEW u \in Others(w), NEW q \in Recipients, u # v
        PROVE  ~(LocksCapacity(v, q)' /\ LocksCapacity(u, q)')
    <3>1. /\ LocksCapacity(v, q)' => LocksCapacity(v, q)
          /\ LocksCapacity(u, q)' => LocksCapacity(u, q)
      BY <1>7, LockFrame DEF Others
    <3>. QED
      BY <2>2, <3>1 DEF SlotInv, Others
  <2>3. ASSUME NEW v \in Runs, At(v, "record")' PROVE (capacity[run[v].ask.to] < run[v].ask.cap)'
    BY <1>7, <2>3 DEF SlotInv, Others, At
  <2>. QED
    BY <2>1, <2>2, <2>3 DEF SlotInv, Others
<1>8. ASSUME NEW w \in Runs, SeedCapacity(w) PROVE SlotInv'
  <2>1. /\ run'[w] = [pc |-> "take", ask |-> run[w].ask]
        /\ \A v \in Others(w) : run'[v] = run[v]
    BY <1>8, BecomeFacts DEF SeedCapacity, GoOn
  <2>2. run[w].ask.to \in Recipients /\ ~At(w, "record")'
    BY <1>8, <2>1, LocalFacts DEF SeedCapacity, At
  <2>3. UNCHANGED <<questions, seeded, capacity>>
    BY <1>8 DEF SeedCapacity
  <2>4. CASE run[w].ask.to \in seeded
    <3>1. \A r \in Recipients : ~LocksCapacity(w, r)'
      BY <2>1, <2>3, <2>4 DEF LocksCapacity, At
    <3>2. \A v \in Others(w) : At(v, "record") => capacity'[run[v].ask.to] <= capacity[run[v].ask.to]
      BY <2>3, LocalFacts DEF Others, At, TypeOK
    <3>. QED
      BY <2>1, <2>2, <2>3, <3>1, <3>2, SlotFrame
  <2>5. CASE CapacityFree(w, run[w].ask.to)
    <3>1. \A q \in Recipients : LocksCapacity(w, q)' => q = run[w].ask.to
      BY <2>1 DEF LocksCapacity, At
    <3>. QED
      BY <1>7, <2>1, <2>2, <2>3, <2>5, <3>1
  <2>. QED
    BY <1>8, <2>4, <2>5 DEF SeedCapacity
<1>9. ASSUME NEW w \in Runs, TakeSlot(w) PROVE SlotInv'
  <2>1. /\ run'[w] = [pc |-> "record", ask |-> run[w].ask]
        /\ \A v \in Others(w) : run'[v] = run[v]
    BY <1>9, BecomeFacts DEF TakeSlot, GoOn
  <2>2. run[w].ask.to \in Recipients
    BY <1>9, LocalFacts DEF TakeSlot, At
  <2>3. \A q \in Recipients : LocksCapacity(w, q)' => q = run[w].ask.to
    BY <2>1 DEF LocksCapacity, At
  <2>. QED
    BY <1>7, <1>9, <2>1, <2>2, <2>3 DEF TakeSlot
<1>10. ASSUME NEW w \in Runs, Release(w) PROVE SlotInv'
  <2>1. PICK k \in run[w].taken \ run[w].freed :
          /\ CapacityFree(w, questions[k].to)
          /\ Become(w, [pc |-> "release", ask |-> run[w].ask, taken |-> run[w].taken,
                        freed |-> run[w].freed \cup {k}])
    BY <1>10 DEF Release
  <2>2. /\ run'[w] = [pc |-> "release", ask |-> run[w].ask, taken |-> run[w].taken,
                      freed |-> run[w].freed \cup {k}]
        /\ \A v \in Others(w) : run'[v] = run[v]
    BY <2>1, BecomeFacts
  <2>3. At(w, "release") /\ UNCHANGED <<questions, seeded, capacity>>
    BY <1>10 DEF Release
  <2>4. questions[k].to \in Recipients
    BY <2>1, <2>3, LocalFacts, PendingFacts DEF SweepInv
  <2>5. \A q \in Recipients : LocksCapacity(w, q)' => q = questions[k].to \/ LocksCapacity(w, q)
    BY <2>2, <2>3 DEF LocksCapacity, At
  <2>. QED
    BY <1>7, <2>1, <2>2, <2>3, <2>4, <2>5 DEF At
<1>11. ASSUME NEW w \in Runs, SweepCommit(w) PROVE SlotInv'
  <2>1. /\ run'[w].pc = "ask" /\ \A v \in Others(w) : run'[v] = run[v]
    BY <1>11, BecomeFacts DEF SweepCommit, GoOn
  <2>2. ~At(w, "record")' /\ \A r \in Recipients : ~LocksCapacity(w, r)'
    BY <2>1 DEF LocksCapacity, At
  <2>3. \A k \in Keys : Pending(k) => questions'[k].to = questions[k].to
    BY <1>11 DEF SweepCommit, Expired
  <2>4. ASSUME NEW r \in Recipients PROVE capacity'[r] <= capacity[r]
    <3> DEFINE S == {k \in run[w].taken : questions[k].to = r}
    <3>1. S \in SUBSET Keys
      BY <1>11, LocalFacts DEF SweepCommit
    <3>2. Cardinality(S) \in Nat
      BY <3>1, AsksAssumption, FS_Subset, FS_CardinalityType
    <3>3. capacity'[r] = Less(capacity[r], Cardinality(S)) /\ capacity[r] \in Nat
      BY <1>11 DEF SweepCommit, TypeOK
    <3>. QED
      BY <3>2, <3>3 DEF Less
  <2>5. \A v \in Others(w) : At(v, "record") => capacity'[run[v].ask.to] <= capacity[run[v].ask.to]
    BY <2>4, LocalFacts DEF Others, At
  <2>6. seeded' = seeded
    BY <1>11 DEF SweepCommit
  <2>. QED
    BY <2>1, <2>2, <2>3, <2>5, <2>6, SlotFrame
<1>12. ASSUME NEW w \in Runs, Record(w) PROVE SlotInv'
  <2>1. /\ run'[w].pc = "idle" /\ \A v \in Others(w) : run'[v] = run[v]
    BY <1>12, BecomeFacts DEF Record, Idle
  <2>2. ~At(w, "record")' /\ \A r \in Recipients : ~LocksCapacity(w, r)'
    BY <2>1 DEF LocksCapacity, At
  <2>3. \A k \in Keys : Pending(k) => questions'[k].to = questions[k].to
    BY <1>12, FreshKey DEF Record, Pending, None
  <2>4. ASSUME NEW v \in Others(w), At(v, "record")
        PROVE  capacity'[run[v].ask.to] <= capacity[run[v].ask.to]
    <3>1. run[v].ask.to \in Recipients /\ run[w].ask.to \in Recipients /\ At(w, "record")
      BY <1>12, <2>4, LocalFacts DEF Record, Others, At
    <3>2. LocksCapacity(v, run[v].ask.to) /\ LocksCapacity(w, run[w].ask.to)
      BY <2>4, <3>1 DEF LocksCapacity
    <3>3. run[v].ask.to # run[w].ask.to
      BY <3>1, <3>2 DEF SlotInv, Others
    <3>. QED
      BY <1>12, <3>1, <3>3 DEF Record, TypeOK
  <2>5. seeded \subseteq seeded'
    BY <1>12 DEF Record
  <2>. QED
    BY <2>1, <2>2, <2>3, <2>4, <2>5, SlotFrame
<1>13. CASE Lapse \/ UNCHANGED vars
  BY <1>13 DEF Lapse, vars, SlotInv, LocksCapacity, At
<1>. QED
  BY <1>2, <1>3, <1>4, <1>5, <1>6, <1>8, <1>9, <1>10, <1>11, <1>12, <1>13 DEF Next, Sweep, Ask

-----------------------------------------------------------------------------
(* The count, and the store.                                               *)

\* What the two commits do to the pending questions of a recipient.
LEMMA RecordCounts ==
  ASSUME TypeOK, KeyInv, AskedIsOnRecord, NEW w \in Runs, Record(w), NEW r \in Recipients
  PROVE  Cardinality(PendingTo(r)') =
           IF r = run[w].ask.to THEN Cardinality(PendingTo(r)) + 1 ELSE Cardinality(PendingTo(r))
<1> DEFINE k == run[w].ask.key
<1>1. k \in Keys /\ questions[k] = None
  BY FreshKey, LocalFacts DEF Record, At
<1>2. PendingTo(r)' = IF r = run[w].ask.to THEN PendingTo(r) \cup {k} ELSE PendingTo(r)
  BY <1>1 DEF Record, PendingTo, Pending, None, TypeOK
<1>3. k \notin PendingTo(r)
  BY <1>1 DEF PendingTo, Pending, None
<1>4. IsFiniteSet(PendingTo(r))
  BY AsksAssumption, FS_Subset DEF PendingTo
<1> HIDE DEF k
<1>. QED
  BY <1>2, <1>3, <1>4, FS_AddElement

\* What a sweep takes from a recipient's pending questions, counted.
LEMMA SweepCounts ==
  ASSUME TypeOK, SweepInv, NEW w \in Runs, SweepCommit(w), NEW r \in Recipients
  PROVE  LET S == {k \in run[w].taken : questions[k].to = r}
         IN  /\ PendingTo(r)' = PendingTo(r) \ S
             /\ Cardinality(PendingTo(r)) \in Nat /\ Cardinality(S) \in Nat
             /\ Cardinality(S) <= Cardinality(PendingTo(r))
             /\ Cardinality(PendingTo(r)') = Cardinality(PendingTo(r)) - Cardinality(S)
<1> DEFINE S == {k \in run[w].taken : questions[k].to = r}
           P == PendingTo(r)
<1>1. run[w].taken \subseteq Keys /\ \A k \in run[w].taken : Pending(k)
  BY LocalFacts DEF SweepCommit, SweepInv
<1>2. S \subseteq P
  BY <1>1 DEF PendingTo
<1>3. P' = P \ S
  BY <1>1 DEF SweepCommit, Expired, PendingTo, Pending
<1>4. IsFiniteSet(P) /\ IsFiniteSet(S)
  BY <1>2, AsksAssumption, FS_Subset DEF PendingTo
<1>5. Cardinality(P) \in Nat /\ Cardinality(S) \in Nat /\ Cardinality(S) <= Cardinality(P)
  BY <1>2, <1>4, FS_Subset, FS_CardinalityType
<1>6. P \cap S = S
  BY <1>2
<1>7. Cardinality(P \ S) = Cardinality(P) - Cardinality(S)
  BY <1>4, <1>6, FS_Difference
<1>. QED
  BY <1>3, <1>5, <1>7

\* Every step keeps CountIsTrue.
LEMMA CountStep ==
  ASSUME TypeOK, SweepInv, KeyInv, AskedIsOnRecord, CountIsTrue, [Next]_vars
  PROVE  CountIsTrue'
<1>1. ASSUME UNCHANGED <<questions, capacity>> PROVE CountIsTrue'
  BY <1>1 DEF CountIsTrue, PendingTo, Pending
<1>2. ASSUME NEW w \in Runs, SweepCommit(w) PROVE CountIsTrue'
  <2> SUFFICES ASSUME NEW r \in Recipients PROVE capacity'[r] = Cardinality(PendingTo(r)')
    BY DEF CountIsTrue
  <2> DEFINE S == {k \in run[w].taken : questions[k].to = r}
  <2>1. capacity'[r] = Less(Cardinality(PendingTo(r)), Cardinality(S))
    BY <1>2 DEF SweepCommit, CountIsTrue
  <2>2. /\ Cardinality(PendingTo(r)) \in Nat /\ Cardinality(S) \in Nat
        /\ Cardinality(S) <= Cardinality(PendingTo(r))
        /\ Cardinality(PendingTo(r)') = Cardinality(PendingTo(r)) - Cardinality(S)
    BY <1>2, SweepCounts
  <2> HIDE DEF S
  <2>. QED
    BY <2>1, <2>2 DEF Less
<1>3. ASSUME NEW w \in Runs, Record(w) PROVE CountIsTrue'
  <2>1. run[w].ask.to \in Recipients
    BY <1>3, LocalFacts DEF Record, At
  <2>. QED
    BY <1>3, <2>1, RecordCounts DEF Record, CountIsTrue, TypeOK
<1>4. ASSUME NEW w \in Runs, ~SweepCommit(w), ~Record(w), Begin(w) \/ Sweep(w) \/ Ask(w) \/ Fails(w)
      PROVE  UNCHANGED <<questions, capacity>>
  BY <1>4 DEF Begin, Sweep, SweepRead, SweepLock, Release, Ask, InsertAsked, SeedCapacity, TakeSlot,
              Refuse, Fails
<1>5. Lapse \/ UNCHANGED vars => UNCHANGED <<questions, capacity>>
  BY DEF Lapse, vars
<1>. QED
  BY <1>1, <1>2, <1>3, <1>4, <1>5 DEF Next

\* The inductive invariant of the committed rows and the transactions.
IInv == TypeOK /\ SweepInv /\ KeyInv /\ AskedIsOnRecord /\ SlotInv /\ CountIsTrue

\* IInv holds of every execution.
LEMMA InvHolds == Spec => []IInv
<1>1. Init => IInv
  <2> SUFFICES ASSUME Init PROVE IInv
    OBVIOUS
  <2>1. TypeOK /\ SweepInv /\ KeyInv /\ SlotInv
    BY DEF Init, StoreInit, TypeOK, SweepInv, KeyInv, SlotInv, LocksCapacity, Creating, Idle, At
  <2>2. AskedIsOnRecord
    BY DEF Init, StoreInit, AskedIsOnRecord
  <2>3. \A r \in Recipients : PendingTo(r) = {}
    BY DEF Init, StoreInit, PendingTo, Pending, None
  <2>4. CountIsTrue
    BY <2>3, FS_EmptySet DEF Init, CountIsTrue
  <2>. QED
    BY <2>1, <2>2, <2>4 DEF IInv
<1>2. IInv /\ [Next]_vars => IInv'
  BY TypeStep, SweepStep, KeyStep, AskedStep, SlotStep, CountStep DEF IInv
<1>. QED
  BY <1>1, <1>2, PTL DEF Spec

\* The counter never drifts from the questions it counts, whatever fails.
THEOREM CounterCorrect == Spec => []CountIsTrue
<1>1. IInv => CountIsTrue
  BY DEF IInv
<1>. QED
  BY <1>1, InvHolds, PTL

\* What is on record as asked is what was created.
THEOREM RecordCorrect == Spec => []AskedIsOnRecord
<1>1. IInv => AskedIsOnRecord
  BY DEF IInv
<1>. QED
  BY <1>1, InvHolds, PTL

\* A create commits with a free slot and a key nobody has used.
LEMMA RecordCreates ==
  ASSUME IInv, NEW w \in Runs, Record(w)
  PROVE  Create(run[w].ask)
<1>1. At(w, "record") /\ run[w].ask.to \in Recipients
  BY LocalFacts DEF IInv, Record, At
<1>2. run[w].ask.key \notin asked
  BY <1>1 DEF IInv, KeyInv, Creating, At
<1>3. Cardinality(PendingTo(run[w].ask.to)) < run[w].ask.cap
  BY <1>1 DEF IInv, SlotInv, CountIsTrue
<1>. QED
  BY <1>2, <1>3 DEF Record, Create

\* A recipient never has more questions outstanding than a workflow that asks
\* them allows.
THEOREM CapCorrect == Spec => []CapRespected
<1>1. Init => CapRespected
  BY DEF Init, StoreInit, CapRespected, PendingTo, Pending, None
<1>2. IInv /\ CapRespected /\ [Next]_vars => CapRespected'
  <2> SUFFICES ASSUME IInv, CapRespected, [Next]_vars PROVE CapRespected'
    OBVIOUS
  <2>1. ASSUME UNCHANGED questions PROVE CapRespected'
    BY <2>1 DEF CapRespected, PendingTo, Pending
  <2>2. ASSUME NEW w \in Runs, SweepCommit(w) PROVE CapRespected'
    <3> SUFFICES ASSUME NEW r \in Recipients, PendingTo(r)' # {}
                 PROVE  \E a \in Asks : a.to = r /\ Cardinality(PendingTo(r)') <= a.cap
      BY DEF CapRespected
    <3> DEFINE S == {k \in run[w].taken : questions[k].to = r}
    <3>1. /\ PendingTo(r)' = PendingTo(r) \ S
          /\ Cardinality(PendingTo(r)) \in Nat /\ Cardinality(S) \in Nat
          /\ Cardinality(PendingTo(r)') = Cardinality(PendingTo(r)) - Cardinality(S)
      BY <2>2, SweepCounts DEF IInv
    <3>2. PICK a \in Asks : a.to = r /\ Cardinality(PendingTo(r)) <= a.cap
      BY <3>1 DEF CapRespected
    <3>3. a.cap \in Nat
      BY AsksAssumption
    <3> HIDE DEF S
    <3>. QED
      BY <3>1, <3>2, <3>3
  <2>3. ASSUME NEW w \in Runs, Record(w) PROVE CapRespected'
    <3>1. PICK a \in Asks : a = run[w].ask
      BY <2>3, LocalFacts DEF IInv, Record, At
    <3>2. PICK r \in Recipients : r = a.to
      BY <3>1, AsksAssumption
    <3>3. Create(a)
      BY <2>3, <3>1, RecordCreates
    <3>4. Cardinality(PendingTo(r)) < a.cap /\ Cardinality(PendingTo(r)) \in Nat /\ a.cap \in Nat
      BY <3>2, <3>3, AsksAssumption DEF Create, IInv, CountIsTrue, TypeOK
    <3>5. Cardinality(PendingTo(r)') <= a.cap
      BY <2>3, <3>1, <3>2, <3>4, RecordCounts DEF IInv
    <3>6. \A q \in Recipients : q # r => PendingTo(q)' = PendingTo(q)
      BY <2>3, <3>1, <3>2, FreshKey DEF IInv, Record, PendingTo, Pending, None, TypeOK
    <3>7. ASSUME NEW q \in Recipients, PendingTo(q)' # {}
          PROVE  \E b \in Asks : b.to = q /\ Cardinality(PendingTo(q)') <= b.cap
      <4>1. CASE q = r
        BY <3>2, <3>5, <4>1
      <4>2. CASE q # r
        BY <3>6, <3>7, <4>2 DEF CapRespected
      <4>. QED
        BY <4>1, <4>2
    <3>. QED
      BY <3>7 DEF CapRespected
  <2>4. ASSUME NEW w \in Runs, ~SweepCommit(w), ~Record(w), Begin(w) \/ Sweep(w) \/ Ask(w) \/ Fails(w)
        PROVE  UNCHANGED questions
    BY <2>4 DEF Begin, Sweep, SweepRead, SweepLock, Release, Ask, InsertAsked, SeedCapacity,
                TakeSlot, Refuse, Fails
  <2>5. Lapse \/ UNCHANGED vars => UNCHANGED questions
    BY DEF Lapse, vars
  <2>. QED
    BY <2>1, <2>2, <2>3, <2>4, <2>5 DEF Next
<1>. QED
  BY <1>1, <1>2, InvHolds, PTL DEF Spec

\* The transactions of READ COMMITTED implement the atomic store: the commit
\* of a create is a Create, that of a sweep an Expire.
THEOREM StoreImplemented == Spec => ImplementsStore
<1>1. Init => StoreInit
  BY DEF Init
<1>2. IInv /\ [Next]_vars => [StoreNext]_storeVars
  <2> SUFFICES ASSUME IInv, [Next]_vars PROVE [StoreNext]_storeVars
    OBVIOUS
  <2>1. ASSUME NEW w \in Runs, Record(w) PROVE StoreNext
    BY <2>1, RecordCreates, LocalFacts DEF IInv, Record, At, StoreNext
  <2>2. ASSUME NEW w \in Runs, SweepCommit(w) PROVE StoreNext
    <3>1. run[w].taken \in SUBSET Keys /\ \A k \in run[w].taken : Pending(k)
      BY <2>2, LocalFacts DEF IInv, SweepInv, SweepCommit
    <3>. QED
      BY <2>2, <3>1 DEF SweepCommit, Expire, StoreNext
  <2>3. ASSUME NEW w \in Runs, ~SweepCommit(w), ~Record(w), Begin(w) \/ Sweep(w) \/ Ask(w) \/ Fails(w)
        PROVE  UNCHANGED storeVars
    BY <2>3 DEF Begin, Sweep, SweepRead, SweepLock, Release, Ask, InsertAsked, SeedCapacity,
                TakeSlot, Refuse, Fails, storeVars
  <2>4. Lapse \/ UNCHANGED vars => UNCHANGED storeVars
    BY DEF Lapse, vars, storeVars
  <2>. QED
    BY <2>1, <2>2, <2>3, <2>4 DEF Next
<1>. QED
  BY <1>1, <1>2, InvHolds, PTL DEF Spec, ImplementsStore, StoreSpec
=============================================================================
